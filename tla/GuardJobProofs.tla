----------------------------- MODULE GuardJobProofs ----------------------------
(***************************************************************************)
(* Proofs about the Guard jobs of a target, for any number of jobs,        *)
(* executions, attempts, generations and troubles, when an execution       *)
(* notices a lost lease before its next step (Prompt).                     *)
(*                                                                         *)
(* The argument.  At most one execution is live: it has the lease of its   *)
(* head and the epoch of it.  Only the live execution, or a guard stop     *)
(* while there is none, changes certificates and the host, so what it      *)
(* found out about them stays true until it records its outcome (Owner).   *)
(* A job has at most one generation that is staged or active, and once it  *)
(* revoked one it stages none again (CertOf).                              *)
(***************************************************************************)
EXTENDS GuardJob, TLAPS

HeadStates == {"pending", "retrying", "running", "cancelling", "cancelled", "succeeded", "failed"}
CertStates == {"absent", "staged", "active", "retired", "revoked"}
ExStages == {"rest", "load", "collect", "stage", "deploy", "recheck", "save", "forward", "revoke",
             "stop", "finish"}
Heads == [state : HeadStates, attempt : Nat, epoch : Nat, leased : BOOLEAN]
Certs == [job : Jobs \union {"none"}, attempt : Nat, state : CertStates]
Execs == [job : Jobs \union {"none"}, attempt : Nat, epoch : Nat, stage : ExStages,
          gen : 0 .. MaxGen, cancel : BOOLEAN, error : {"none", "retry", "fatal", "cancel"},
          loose : BOOLEAN]
Remotes == [man : 0 .. MaxGen, run : 0 .. MaxGen]

JobTypeOK ==
  /\ head \in [Jobs -> Heads] /\ cert \in [Gens -> Certs] /\ remote \in Remotes
  /\ spool \in [Jobs -> BOOLEAN] /\ ex \in [Workers -> Execs]
  /\ op \in {"none", "revoke", "stop"}

\* One lease at a time, and none beside a guard stop.
LeaseInv ==
  /\ \A j, k \in Jobs : head[j].leased = TRUE /\ head[k].leased = TRUE => j = k
  /\ op # "none" => \A j \in Jobs : head[j].leased = FALSE
  /\ \A j \in Jobs : head[j].leased = TRUE => head[j].state \in Active
  /\ \A j \in Jobs : head[j].state \in Active => head[j].attempt >= 1

\* Epochs tell the executions of a job apart.
EpochInv ==
  /\ \A w \in Workers : ex[w].stage # "rest" =>
       ex[w].job \in Jobs /\ ex[w].epoch <= head[ex[w].job].epoch
  /\ \A v, w \in Workers :
       v # w /\ ex[v].stage # "rest" /\ ex[w].stage # "rest" /\ ex[v].job = ex[w].job =>
         ex[v].epoch # ex[w].epoch

Live(w) == ex[w].stage # "rest" /\ OwnRow(w)

\* The generations of a job that may still be used, and that one of them was revoked.
LiveGens(j) == {g \in Gens : cert[g].job = j /\ cert[g].state \in {"staged", "active"}}
Marked(j) == \E g \in Gens : cert[g].job = j /\ cert[g].state = "revoked"

CertOf(j) ==
  /\ \A g \in Gens : cert[g].job = j =>
       /\ cert[g].state # "absent"
       /\ cert[g].attempt >= 1 /\ cert[g].attempt <= head[j].attempt
       /\ cert[g].attempt <= MaxAttempts
  /\ \A g, h \in LiveGens(j) : g = h
  /\ Marked(j) => /\ LiveGens(j) = {} /\ head[j].state \notin Queued
                  /\ head[j].state = "running" => head[j].attempt >= MaxAttempts

CertInv == \A j \in Jobs : CertOf(j)

\* A retired or unused generation does not run.
RemoteInv == remote.run # 0 => cert[remote.run].state \in {"staged", "active", "revoked"}

\* Nothing of the job is left, centrally or on the host.
Gone(j) == \A g \in GensOf(j) : cert[g].state \notin {"staged", "active"} /\ remote.run # g

\* Every generation of the job of w is of an earlier attempt.
Earlier(w) == \A g \in GensOf(ex[w].job) : cert[g].attempt < ex[w].attempt

\* What w proved is what the manifest names.
Holds(w, states) ==
  /\ ex[w].gen \in Gens /\ remote.man = ex[w].gen /\ remote.run \in {ex[w].gen, 0}
  /\ cert[ex[w].gen].job = ex[w].job /\ cert[ex[w].gen].state \in states

MayRevoke(w) == ex[w].attempt >= MaxAttempts \/ head[ex[w].job].state = "cancelling"

\* What a live execution knows at its stage.
Owner(w) ==
  LET j == ex[w].job  s == ex[w].stage IN
  /\ ex[w].attempt = head[j].attempt
  /\ ex[w].cancel = TRUE => head[j].state = "cancelling"
  /\ s \in {"load", "collect", "stage"} => ex[w].gen = 0
  /\ s = "load" /\ ~Cancelled(w) => Earlier(w) /\ (Marked(j) => Exhausted(w))
  /\ s = "collect" => Earlier(w) /\ (Marked(j) => Exhausted(w))
  /\ s = "stage" => Earlier(w) /\ ~Exhausted(w) /\ ~Marked(j) /\ Gone(j)
  /\ s = "deploy" => /\ ex[w].gen \in Gens /\ Owned(w) /\ cert[ex[w].gen].state = "staged"
                     /\ remote.run \notin GensOf(j)
  /\ s \in {"recheck", "save", "forward"} => Holds(w, {"active"})
  /\ s = "revoke" => /\ Holds(w, {"staged", "active", "revoked"}) /\ ex[w].error # "none"
                     /\ MayRevoke(w)
  /\ s = "stop" => Holds(w, {"revoked"}) /\ ex[w].error # "none" /\ MayRevoke(w)
  /\ s = "finish" => \/ Holds(w, {"active"}) /\ ex[w].error = "none"
                     \/ /\ ex[w].loose = TRUE /\ ex[w].error # "none"
                        /\ ex[w].gen = 0 \/ Holds(w, {"active"})
                     \/ ex[w].gen = 0 /\ ex[w].error # "none" /\ Gone(j)

OwnerInv == \A w \in Workers : Live(w) => Owner(w)

JobInv == JobTypeOK /\ LeaseInv /\ EpochInv /\ CertInv /\ RemoteInv /\ OwnerInv

(***************************************************************************)
(* The frame: who may be live, and what a step of one execution leaves.    *)
(***************************************************************************)
\* At most one execution is live.
LEMMA OneLive ==
  ASSUME JobTypeOK, LeaseInv, EpochInv, NEW v \in Workers, NEW w \in Workers, Live(v), Live(w)
  PROVE  v = w
<1>1. ex[v].job \in Jobs /\ ex[w].job \in Jobs  BY DEF EpochInv, Live
<1>2. head[ex[v].job].leased = TRUE /\ head[ex[w].job].leased = TRUE
  BY <1>1 DEF Live, OwnRow, JobTypeOK, Heads
<1>3. ex[v].job = ex[w].job  BY <1>1, <1>2 DEF LeaseInv
<1>4. ex[v].epoch = ex[w].epoch  BY <1>3 DEF Live, OwnRow
<1> QED  BY <1>3, <1>4 DEF EpochInv, Live

\* The head of a live execution is running or cancelling, and it knows its attempt.
LEMMA LiveHead ==
  ASSUME JobInv, NEW w \in Workers, Live(w)
  PROVE  /\ ex[w].job \in Jobs /\ ex[w].stage # "rest" /\ Owner(w)
         /\ head[ex[w].job].state \in Active /\ head[ex[w].job].leased = TRUE
         /\ head[ex[w].job].attempt \in Nat /\ head[ex[w].job].attempt >= 1
         /\ op = "none"
         /\ Cancelled(w) <=> head[ex[w].job].state = "cancelling"
<1>1. ex[w].job \in Jobs /\ ex[w].stage # "rest" /\ Owner(w)
  BY DEF JobInv, EpochInv, OwnerInv, Live
<1>2. head[ex[w].job] \in Heads /\ ex[w] \in Execs  BY <1>1 DEF JobInv, JobTypeOK
<1>3. head[ex[w].job].leased = TRUE  BY <1>2 DEF Live, OwnRow, Heads
<1>4. head[ex[w].job].state \in Active /\ head[ex[w].job].attempt >= 1 /\ op = "none"
  BY <1>1, <1>3 DEF JobInv, LeaseInv
<1>5. ex[w].cancel = TRUE => head[ex[w].job].state = "cancelling"  BY <1>1 DEF Owner
<1>6. Cancelled(w) <=> head[ex[w].job].state = "cancelling"
  BY <1>2, <1>4, <1>5 DEF Cancelled, Active, Execs
<1> QED  BY <1>1, <1>2, <1>3, <1>4, <1>6 DEF Heads

\* A step of the live execution w that leaves the heads alone: nobody else is live.
LEMMA LiveStep ==
  ASSUME JobInv, NEW w \in Workers, Live(w), NEW r \in Execs,
         head' = head, op' = op, ex' = [ex EXCEPT ![w] = r],
         r.stage = "rest" \/ (r.job = ex[w].job /\ r.epoch = ex[w].epoch),
         cert' \in [Gens -> Certs], remote' \in Remotes, spool' \in [Jobs -> BOOLEAN],
         CertInv', RemoteInv', r.stage # "rest" => Owner(w)'
  PROVE  JobInv'
<1> USE DEF JobInv
<1>1. JobTypeOK'  BY DEF JobTypeOK
<1>2. LeaseInv'  BY DEF LeaseInv
<1>3. ex[w].stage # "rest"  BY DEF Live
<1>4. ex'[w] = r /\ \A v \in Workers : v # w => ex'[v] = ex[v]  BY DEF JobTypeOK
<1>5. EpochInv'
  <2>1. ASSUME NEW v \in Workers, ex'[v].stage # "rest"
        PROVE  /\ ex[v].stage # "rest" /\ ex'[v].job = ex[v].job /\ ex'[v].epoch = ex[v].epoch
    BY <1>3, <1>4, <2>1
  <2> QED  BY <2>1 DEF EpochInv
<1>6. OwnerInv'
  <2> SUFFICES ASSUME NEW v \in Workers, Live(v)' PROVE Owner(v)'  BY DEF OwnerInv
  <2>1. CASE v = w  BY <2>1, <1>4 DEF Live
  <2>2. ASSUME v # w PROVE FALSE
    <3>1. ex'[v] = ex[v]  BY <1>4, <2>2
    <3>2. Live(v)  BY <3>1 DEF Live, OwnRow
    <3> QED  BY <3>2, <2>2, OneLive
  <2> QED  BY <2>1, <2>2
<1> QED  BY <1>1, <1>2, <1>5, <1>6

\* What an execution knows of certificates and host stays while they stay.
LEMMA KnowledgeStays ==
  ASSUME NEW v \in Workers, ex'[v] = ex[v], cert' = cert, remote' = remote
  PROVE  /\ Earlier(v)' = Earlier(v) /\ Exhausted(v)' = Exhausted(v) /\ Owned(v)' = Owned(v)
         /\ \A j : /\ Marked(j)' = Marked(j) /\ Gone(j)' = Gone(j)
                   /\ GensOf(j)' = GensOf(j)
         /\ \A states : Holds(v, states)' = Holds(v, states)
<1>1. \A j : GensOf(j)' = GensOf(j)  BY DEF GensOf
<1>2. Earlier(v)' = Earlier(v)  BY <1>1 DEF Earlier
<1>3. Exhausted(v)' = Exhausted(v) /\ Owned(v)' = Owned(v)  BY DEF Exhausted, Owned
<1>4. \A j : Marked(j)' = Marked(j)  BY DEF Marked
<1>5. \A j : Gone(j)' = Gone(j)  BY <1>1 DEF Gone
<1>6. \A states : Holds(v, states)' = Holds(v, states)  BY DEF Holds
<1> QED  BY <1>1, <1>2, <1>3, <1>4, <1>5, <1>6

LEMMA OwnerStays ==
  ASSUME NEW v \in Workers, Owner(v), ex'[v] = ex[v], head'[ex[v].job] = head[ex[v].job],
         cert' = cert, remote' = remote
  PROVE  Owner(v)'
<1>1. Cancelled(v)' = Cancelled(v) /\ MayRevoke(v)' = MayRevoke(v)  BY DEF Cancelled, MayRevoke
<1> QED  BY <1>1, KnowledgeStays DEF Owner

\* An execution that is given up leaves the others what they know.
LEMMA IdleStep ==
  ASSUME JobInv, NEW w \in Workers, Leave(w), head' = head, op' = op, cert' = cert,
         remote' = remote, spool' = spool
  PROVE  JobInv'
<1> USE DEF JobInv
<1>1. Rest \in Execs  BY GuardJobAssumption DEF Rest, Execs, ExStages
<1>2. JobTypeOK'  BY <1>1 DEF JobTypeOK, Leave
<1>3. LeaseInv'  BY DEF LeaseInv
<1>4. ex'[w] = Rest /\ \A v \in Workers : v # w => ex'[v] = ex[v]  BY DEF JobTypeOK, Leave
<1>5. ASSUME NEW v \in Workers, ex'[v].stage # "rest"
      PROVE  v # w /\ ex'[v] = ex[v]
  BY <1>4, <1>5 DEF Rest
<1>6. EpochInv'  BY <1>5 DEF EpochInv
<1>7. CertInv' /\ RemoteInv'  BY DEF CertInv, CertOf, LiveGens, Marked, RemoteInv
<1>8. OwnerInv'
  <2> SUFFICES ASSUME NEW v \in Workers, Live(v)' PROVE Owner(v)'  BY DEF OwnerInv
  <2>1. ex'[v] = ex[v]  BY <1>5 DEF Live
  <2>2. Live(v)  BY <2>1 DEF Live, OwnRow
  <2>3. Owner(v)  BY <2>2 DEF OwnerInv
  <2> QED  BY <2>1, <2>3, OwnerStays
<1> QED  BY <1>2, <1>3, <1>6, <1>7, <1>8

\* Under Prompt an execution that is anywhere but at the start or the end is live.
LEMMA AtIsLive ==
  ASSUME Prompt = TRUE, NEW w \in Workers, NEW s \in ExStages \ {"rest", "finish"}, At(w, s)
  PROVE  Live(w) /\ ex[w].stage = s
BY DEF At, Live

(***************************************************************************)
(* The ways the certificates and the host change.                          *)
(***************************************************************************)
\* The certificates stay, and what runs is nothing new or nothing retired.
LEMMA CertsKept ==
  ASSUME JobTypeOK, CertInv, RemoteInv, head' = head, cert' = cert, remote' \in Remotes,
         \/ remote'.run \in {remote.run, 0}
         \/ cert[remote'.run].state \in {"staged", "active", "revoked"}
  PROVE  cert' \in [Gens -> Certs] /\ CertInv' /\ RemoteInv'
<1>1. CertInv'  BY DEF CertInv, CertOf, LiveGens, Marked
<1>2. RemoteInv'  BY DEF RemoteInv
<1> QED  BY <1>1, <1>2 DEF JobTypeOK

\* Staged generations are aborted: they lose their key, so no job is marked by it.
LEMMA CertsAborted ==
  ASSUME JobTypeOK, CertInv, RemoteInv, head' = head, remote' = remote, NEW A \in SUBSET Gens,
         cert' = [g \in Gens |-> IF g \in A THEN AbortedCert(cert[g]) ELSE cert[g]]
  PROVE  cert' \in [Gens -> Certs] /\ CertInv' /\ RemoteInv'
<1>1. Unkeyed \in Certs /\ Unkeyed.job \notin Jobs /\ Unkeyed.state = "revoked"
  BY GuardJobAssumption DEF Unkeyed, Certs, CertStates
<1>2. \A g \in Gens : cert'[g] = cert[g] \/ (cert'[g] = Unkeyed /\ cert[g].state = "staged")
  BY DEF AbortedCert
<1>3. cert' \in [Gens -> Certs]  BY <1>1, <1>2 DEF JobTypeOK
<1>4. ASSUME NEW j \in Jobs PROVE CertOf(j)'
  <2>1. CertOf(j)  BY DEF CertInv
  <2>2. \A g \in Gens : cert'[g].job = j => cert'[g] = cert[g]  BY <1>1, <1>2
  <2>3. LiveGens(j)' \subseteq LiveGens(j)  BY <2>2 DEF LiveGens
  <2>4. Marked(j)' => Marked(j)  BY <2>2 DEF Marked
  <2> QED  BY <2>1, <2>2, <2>3, <2>4 DEF CertOf
<1>5. RemoteInv'
  <2> SUFFICES ASSUME remote.run # 0 PROVE cert'[remote.run].state \in {"staged", "active", "revoked"}
    BY DEF RemoteInv
  <2>1. remote.run \in Gens  BY DEF JobTypeOK, Remotes, Gens
  <2>2. cert[remote.run].state \in {"staged", "active", "revoked"}  BY DEF RemoteInv
  <2> QED  BY <2>1, <2>2, <1>1, <1>2
<1> QED  BY <1>3, <1>4, <1>5 DEF CertInv

\* A staged generation x that alone runs is activated: its predecessor is retired.
LEMMA CertsActivated ==
  ASSUME JobTypeOK, CertInv, RemoteInv, head' = head, NEW x \in Gens, cert[x].state = "staged",
         cert' = ActivatedCerts(x), remote' \in Remotes, remote'.run \in {0, x}
  PROVE  /\ cert' \in [Gens -> Certs] /\ CertInv' /\ RemoteInv'
         /\ cert'[x].state = "active" /\ cert'[x].job = cert[x].job
<1>1. \A g \in Gens : cert[g] \in Certs  BY DEF JobTypeOK
<1>2. \A g \in Gens : [cert[g] EXCEPT !.state = "active"] \in Certs
                      /\ [cert[g] EXCEPT !.state = "retired"] \in Certs
  BY <1>1 DEF Certs, CertStates
<1>3. \A g \in Gens : /\ cert'[g] \in Certs /\ cert'[g].job = cert[g].job
                      /\ cert'[g].attempt = cert[g].attempt
                      /\ g = x => cert'[g].state = "active"
                      /\ g # x /\ cert[g].state = "active" => cert'[g].state = "retired"
                      /\ g # x /\ cert[g].state # "active" => cert'[g].state = cert[g].state
  BY <1>1, <1>2 DEF ActivatedCerts, Certs
<1>4. cert' \in [Gens -> Certs]  BY <1>3 DEF ActivatedCerts
<1>5. ASSUME NEW j \in Jobs PROVE CertOf(j)'
  <2>1. CertOf(j)  BY DEF CertInv
  <2>2. LiveGens(j)' \subseteq LiveGens(j)  BY <1>3 DEF LiveGens
  <2>3. Marked(j)' => Marked(j)  BY <1>3 DEF Marked
  <2>4. \A g \in Gens : cert'[g].state = "absent" => cert[g].state = "absent"  BY <1>3
  <2> QED  BY <2>1, <2>2, <2>3, <2>4, <1>3 DEF CertOf
<1>6. RemoteInv'  BY <1>3 DEF RemoteInv
<1> QED  BY <1>3, <1>4, <1>5, <1>6 DEF CertInv

\* A free generation is staged for an attempt of a job that has nothing left.
LEMMA CertsStaged ==
  ASSUME JobTypeOK, CertInv, RemoteInv, head' = head, remote' = remote, NEW x \in Gens,
         cert[x] = Free, NEW j \in Jobs, NEW n \in Nat, n >= 1, n <= head[j].attempt,
         n <= MaxAttempts, LiveGens(j) = {}, ~Marked(j),
         cert' = [cert EXCEPT ![x] = [job |-> j, attempt |-> n, state |-> "staged"]]
  PROVE  /\ cert' \in [Gens -> Certs] /\ CertInv' /\ RemoteInv'
         /\ remote.run # x
<1>1. cert' \in [Gens -> Certs]  BY DEF JobTypeOK, Certs, CertStates
<1>2. /\ cert'[x].job = j /\ cert'[x].attempt = n /\ cert'[x].state = "staged"
      /\ \A g \in Gens : g # x => cert'[g] = cert[g]
  BY DEF JobTypeOK
<1>3. cert[x].state = "absent" /\ cert[x].job \notin Jobs  BY GuardJobAssumption DEF Free
<1>4. ASSUME NEW k \in Jobs PROVE CertOf(k)'
  <2>1. CertOf(k)  BY DEF CertInv
  <2>2. CASE k = j
    <3>1. LiveGens(k)' \subseteq {x}  BY <1>2, <2>2 DEF LiveGens
    <3>2. ~Marked(k)'  BY <1>2, <2>2 DEF Marked
    <3>3. \A g \in Gens : cert'[g].job = k =>
            /\ cert'[g].state # "absent" /\ cert'[g].attempt >= 1
            /\ cert'[g].attempt <= head'[k].attempt /\ cert'[g].attempt <= MaxAttempts
      BY <2>1, <2>2, <1>2 DEF CertOf
    <3> QED  BY <3>1, <3>2, <3>3 DEF CertOf
  <2>3. CASE k # j
    <3>1. \A g \in Gens : cert'[g].job = k => cert'[g] = cert[g]  BY <1>2, <2>3
    <3>2. LiveGens(k)' \subseteq LiveGens(k)  BY <3>1 DEF LiveGens
    <3>3. Marked(k)' => Marked(k)  BY <3>1 DEF Marked
    <3> QED  BY <2>1, <3>1, <3>2, <3>3 DEF CertOf
  <2> QED  BY <2>2, <2>3
<1>5. remote.run # x
  <2>1. 0 \notin Gens  BY GuardJobAssumption DEF Gens
  <2> QED  BY <2>1, <1>3 DEF RemoteInv
<1>6. RemoteInv'
  <2> SUFFICES ASSUME remote.run # 0 PROVE cert'[remote.run].state \in {"staged", "active", "revoked"}
    BY DEF RemoteInv
  <2>1. remote.run \in Gens  BY DEF JobTypeOK, Remotes, Gens
  <2> QED  BY <2>1, <1>2, <1>5 DEF RemoteInv
<1> QED  BY <1>1, <1>4, <1>5, <1>6 DEF CertInv

\* A job revokes its only generation: it is marked from now on.
LEMMA CertsRevoked ==
  ASSUME JobTypeOK, CertInv, RemoteInv, head' = head, remote' = remote, NEW x \in Gens,
         NEW j \in Jobs, cert[x].job = j, cert[x].state \in {"staged", "active", "revoked"},
         head[j].state \notin Queued,
         head[j].state = "running" => head[j].attempt >= MaxAttempts,
         cert' = [cert EXCEPT ![x] = RevokedCert(@)]
  PROVE  /\ cert' \in [Gens -> Certs] /\ CertInv' /\ RemoteInv'
         /\ cert'[x].job = j /\ cert'[x].state = "revoked"
<1>1. cert[x] \in Certs  BY DEF JobTypeOK
<1>2. [cert[x] EXCEPT !.state = "revoked"] \in Certs  BY <1>1 DEF Certs, CertStates
<1>3. RevokedCert(cert[x]) = [cert[x] EXCEPT !.state = "revoked"]  BY DEF RevokedCert
<1>4. cert' = [cert EXCEPT ![x] = [cert[x] EXCEPT !.state = "revoked"]]  BY <1>3
<1>5. cert' \in [Gens -> Certs]  BY <1>2, <1>4 DEF JobTypeOK
<1>6. /\ cert'[x].job = j /\ cert'[x].state = "revoked" /\ cert'[x].attempt = cert[x].attempt
      /\ \A g \in Gens : g # x => cert'[g] = cert[g]
  BY <1>1, <1>4 DEF JobTypeOK, Certs
<1>7. ASSUME NEW k \in Jobs PROVE CertOf(k)'
  <2>1. CertOf(k)  BY DEF CertInv
  <2>2. CASE k = j
    <3>1. LiveGens(k)' = {}
      <4> SUFFICES ASSUME NEW g \in LiveGens(k)' PROVE FALSE  OBVIOUS
      <4>1. g \in Gens /\ cert'[g].job = k /\ cert'[g].state \in {"staged", "active"}  BY DEF LiveGens
      <4>2. g # x /\ cert'[g] = cert[g]  BY <4>1, <1>6
      <4>3. g \in LiveGens(k)  BY <4>1, <4>2 DEF LiveGens
      <4>4. x \notin LiveGens(k)  BY <4>2, <4>3, <2>1 DEF CertOf
      <4>5. cert[x].state = "revoked"  BY <4>4, <2>2 DEF LiveGens
      <4>6. Marked(k)  BY <4>5, <2>2 DEF Marked
      <4> QED  BY <4>3, <4>6, <2>1 DEF CertOf
    <3>2. \A g \in Gens : cert'[g].job = k =>
            /\ cert'[g].state # "absent" /\ cert'[g].attempt >= 1
            /\ cert'[g].attempt <= head'[k].attempt /\ cert'[g].attempt <= MaxAttempts
      BY <2>1, <2>2, <1>6 DEF CertOf
    <3> QED  BY <2>2, <3>1, <3>2 DEF CertOf
  <2>3. CASE k # j
    <3>1. \A g \in Gens : cert'[g].job = k => cert'[g] = cert[g]  BY <1>6, <2>3
    <3>2. LiveGens(k)' \subseteq LiveGens(k)  BY <3>1 DEF LiveGens
    <3>3. Marked(k)' => Marked(k)  BY <3>1 DEF Marked
    <3> QED  BY <2>1, <3>1, <3>2, <3>3 DEF CertOf
  <2> QED  BY <2>2, <2>3
<1>8. RemoteInv'
  <2> SUFFICES ASSUME remote.run # 0 PROVE cert'[remote.run].state \in {"staged", "active", "revoked"}
    BY DEF RemoteInv
  <2>1. remote.run \in Gens  BY DEF JobTypeOK, Remotes, Gens
  <2> QED  BY <2>1, <1>6 DEF RemoteInv
<1> QED  BY <1>5, <1>6, <1>7, <1>8 DEF CertInv

\* A guard stop revokes every generation that is in use and takes its key.
LEMMA CertsStopped ==
  ASSUME JobTypeOK, CertInv, RemoteInv, head' = head, remote' = remote,
         cert' = [g \in Gens |-> IF cert[g].state \in {"absent", "revoked"} THEN cert[g] ELSE Unkeyed]
  PROVE  cert' \in [Gens -> Certs] /\ CertInv' /\ RemoteInv'
<1>1. Unkeyed \in Certs /\ Unkeyed.job \notin Jobs /\ Unkeyed.state = "revoked"
  BY GuardJobAssumption DEF Unkeyed, Certs, CertStates
<1>2. \A g \in Gens : cert'[g] = cert[g] \/ cert'[g] = Unkeyed  OBVIOUS
<1>3. cert' \in [Gens -> Certs]  BY <1>1, <1>2 DEF JobTypeOK
<1>4. ASSUME NEW j \in Jobs PROVE CertOf(j)'
  <2>1. CertOf(j)  BY DEF CertInv
  <2>2. \A g \in Gens : cert'[g].job = j => cert'[g] = cert[g]  BY <1>1, <1>2
  <2>3. LiveGens(j)' \subseteq LiveGens(j)  BY <2>2 DEF LiveGens
  <2>4. Marked(j)' => Marked(j)  BY <2>2 DEF Marked
  <2> QED  BY <2>1, <2>2, <2>3, <2>4 DEF CertOf
<1>5. RemoteInv'
  <2> SUFFICES ASSUME remote.run # 0 PROVE cert'[remote.run].state \in {"staged", "active", "revoked"}
    BY DEF RemoteInv
  <2>1. remote.run \in Gens  BY DEF JobTypeOK, Remotes, Gens
  <2>2. cert[remote.run].state \in {"staged", "active", "revoked"}  BY DEF RemoteInv
  <2> QED  BY <2>1, <2>2, <1>1, <1>2
<1> QED  BY <1>3, <1>4, <1>5 DEF CertInv

\* What a reconciliation leaves of the candidates gs: nothing of them, or the one
\* that the manifest names and that runs.
LEMMA Reconciles ==
  ASSUME JobTypeOK, CertInv, RemoteInv, head' = head, remote' = remote,
         NEW gs \in SUBSET Gens, NEW alive \in BOOLEAN, NEW a \in BOOLEAN,
         cert' = ReconciledCerts(gs, alive, a)
  PROVE  /\ cert' \in [Gens -> Certs] /\ CertInv' /\ RemoteInv'
         /\ Reconciled(gs, alive) \in {"nothing", "unresolved", "committed"}
         /\ Reconciled(gs, alive) = "nothing" =>
              /\ \A g \in gs : cert'[g] = Unkeyed
              /\ \A g \in Gens \ gs : cert'[g] = cert[g]
         /\ Reconciled(gs, alive) = "committed" =>
              /\ remote.man \in gs /\ remote.man \in Gens /\ remote.run = remote.man
              /\ cert'[remote.man].job = cert[remote.man].job
              /\ a = FALSE => cert' = cert
              /\ a = TRUE => cert'[remote.man].state =
                   IF cert[remote.man].state = "staged" THEN "active" ELSE cert[remote.man].state
         /\ \A g \in Gens : cert'[g].job \in Jobs =>
              /\ cert'[g].job = cert[g].job /\ cert'[g].attempt = cert[g].attempt
              /\ cert'[g].state = "revoked" => cert[g].state = "revoked"
<1>0. remote.man \in 0 .. MaxGen /\ (remote.man # 0 => remote.man \in Gens)
  BY GuardJobAssumption DEF JobTypeOK, Remotes, Gens
<1>1. CASE gs # {} /\ remote.man = 0 /\ ~alive
  <2>1. cert' = [g \in Gens |-> IF g \in gs THEN AbortedCert(cert[g]) ELSE cert[g]]
    BY <1>1 DEF ReconciledCerts
  <2>2. cert' \in [Gens -> Certs] /\ CertInv' /\ RemoteInv'  BY <2>1, CertsAborted
  <2>3. Reconciled(gs, alive) = IF \E g \in gs : cert[g].state # "staged" THEN "unresolved" ELSE "nothing"
    BY <1>1 DEF Reconciled
  <2>4. Reconciled(gs, alive) = "nothing" => \A g \in gs : cert'[g] = Unkeyed
    BY <2>1, <2>3 DEF AbortedCert
  <2>5. \A g \in Gens \ gs : cert'[g] = cert[g]  BY <2>1
  <2>6. Unkeyed.job \notin Jobs  BY GuardJobAssumption DEF Unkeyed
  <2>7. \A g \in Gens : cert'[g].job \in Jobs => cert'[g] = cert[g]
    BY <2>1, <2>6 DEF AbortedCert
  <2>8. Reconciled(gs, alive) \in {"nothing", "unresolved"}  BY <2>3
  <2> QED  BY <1>1, <2>2, <2>4, <2>5, <2>7, <2>8
<1>2. CASE ~(gs # {} /\ remote.man = 0 /\ ~alive)
  <2>1. CASE a /\ Reconciled(gs, alive) = "committed" /\ cert[remote.man].state = "staged"
    <3>1. cert' = ActivatedCerts(remote.man)  BY <1>2, <2>1 DEF ReconciledCerts
    <3>2. gs # {} /\ remote.man # 0 /\ remote.man \in gs /\ remote.run = remote.man
      BY <2>1 DEF Reconciled, Matched
    <3>3. remote.man \in Gens  BY <3>2
    <3>4. /\ cert' \in [Gens -> Certs] /\ CertInv' /\ RemoteInv'
          /\ cert'[remote.man].state = "active" /\ cert'[remote.man].job = cert[remote.man].job
      BY <3>1, <3>2, <3>3, <2>1, CertsActivated DEF JobTypeOK
    <3>5. \A g \in Gens : cert[g] \in Certs  BY DEF JobTypeOK
    <3>6. \A g \in Gens : /\ cert'[g].job = cert[g].job /\ cert'[g].attempt = cert[g].attempt
                          /\ cert'[g].state = "revoked" => cert[g].state = "revoked"
      BY <3>1, <3>5 DEF ActivatedCerts, Certs
    <3> QED  BY <2>1, <3>2, <3>3, <3>4, <3>6
  <2>2. CASE ~(a /\ Reconciled(gs, alive) = "committed" /\ cert[remote.man].state = "staged")
    <3>1. cert' = cert  BY <1>2, <2>2 DEF ReconciledCerts
    <3>2. remote \in Remotes  BY DEF JobTypeOK
    <3>3. cert' \in [Gens -> Certs] /\ CertInv' /\ RemoteInv'  BY <3>1, <3>2, CertsKept
    <3>4. gs # {} /\ remote.man = 0 => Reconciled(gs, alive) = "unresolved"
      BY <1>2 DEF Reconciled
    <3>5. gs = {} => Reconciled(gs, alive) = "nothing"  BY DEF Reconciled
    <3>6. gs # {} /\ remote.man # 0 =>
            Reconciled(gs, alive) = IF alive /\ Matched(gs) THEN "committed" ELSE "unresolved"
      BY DEF Reconciled
    <3>7. Reconciled(gs, alive) \in {"nothing", "unresolved", "committed"}  BY <3>4, <3>5, <3>6
    <3>8. Reconciled(gs, alive) = "nothing" => gs = {}  BY <3>4, <3>6
    <3>9. Reconciled(gs, alive) = "committed" => remote.man \in gs /\ remote.run = remote.man
      BY <3>4, <3>5, <3>6 DEF Matched
    <3> QED  BY <3>1, <3>3, <3>7, <3>8, <3>9, <2>2
  <2> QED  BY <2>1, <2>2
<1> QED  BY <1>1, <1>2

\* When every generation of job j that could run was a candidate and nothing of
\* them is left, nothing of the job is left.
LEMMA NothingLeft ==
  ASSUME JobTypeOK, CertInv, RemoteInv, head' = head, remote' = remote, NEW j \in Jobs,
         NEW gs \in SUBSET Gens, NEW alive \in BOOLEAN, NEW a \in BOOLEAN,
         cert' = ReconciledCerts(gs, alive, a),
         Reconciled(gs, alive) = "nothing",
         \A g \in Gens : cert[g].job = j /\ cert[g].state \in {"staged", "active", "revoked"} =>
           g \in gs
  PROVE  Gone(j)'
<1> SUFFICES ASSUME NEW g \in Gens, cert'[g].job = j
             PROVE  cert'[g].state \notin {"staged", "active"} /\ remote.run # g
  BY DEF Gone, GensOf
<1>1. /\ \A h \in gs : cert'[h] = Unkeyed
      /\ \A h \in Gens \ gs : cert'[h] = cert[h]
  BY Reconciles
<1>2. Unkeyed.job \notin Jobs  BY GuardJobAssumption DEF Unkeyed
<1>3. g \notin gs /\ cert'[g] = cert[g]  BY <1>1, <1>2
<1>4. cert[g].state \notin {"staged", "active", "revoked"}  BY <1>3
<1>5. 0 \notin Gens  BY GuardJobAssumption DEF Gens
<1>6. remote.run # g  BY <1>4, <1>5 DEF RemoteInv
<1> QED  BY <1>3, <1>4, <1>6

(***************************************************************************)
(* The steps of an execution, one lemma per action.                        *)
(***************************************************************************)
\* The lease goes to a new epoch, so that no earlier execution of the job is live.
LEMMA ClaimKeeps ==
  ASSUME JobInv, NEW w \in Workers, NEW j \in Jobs, Claim(w, j)
  PROVE  JobInv'
<1> USE DEF JobInv
<1> DEFINE h == head[j]
           again == h.state = "cancelling"
           n == IF again \/ h.attempt > MaxAttempts THEN h.attempt ELSE h.attempt + 1
           st == IF again THEN "cancelling" ELSE "running"
           hd == [state |-> st, attempt |-> n, epoch |-> h.epoch + 1, leased |-> TRUE]
           r == [Rest EXCEPT !.job = j, !.attempt = n, !.epoch = h.epoch + 1, !.stage = "load"]
<1>1. /\ ex[w].stage = "rest" /\ op = "none" /\ op' = op /\ cert' = cert /\ remote' = remote
      /\ spool' = spool
      /\ \A k \in Jobs : ~head[k].leased
      /\ head' = [head EXCEPT ![j] = hd] /\ ex' = [ex EXCEPT ![w] = r]
      /\ \/ head[j].state \in Queued /\ head[j].attempt < MaxAttempts
         \/ head[j].state \in Active
  BY DEF Claim, At
<1>2. h \in Heads /\ h.attempt \in Nat /\ h.epoch \in Nat  BY DEF JobTypeOK, Heads
<1>3. n \in Nat /\ n >= h.attempt /\ n >= 1 /\ MaxAttempts \in Nat
  <2>1. MaxAttempts \in Nat  BY GuardJobAssumption
  <2>2. h.state \in Active => h.attempt >= 1  BY DEF LeaseInv
  <2>3. again => h.state \in Active  BY DEF Active
  <2> QED  BY <2>1, <2>2, <2>3, <1>2
<1>4. hd \in Heads /\ r \in Execs
  <2>1. hd \in Heads  BY <1>2, <1>3 DEF Heads, HeadStates
  <2>2. Rest \in Execs  BY GuardJobAssumption DEF Rest, Execs, ExStages
  <2>3. h.epoch + 1 \in Nat  BY <1>2
  <2> HIDE DEF h, n
  <2>4. r \in Execs  BY <1>3, <2>2, <2>3 DEF Execs, ExStages
  <2> QED  BY <2>1, <2>4
<1>41. /\ r.job = j /\ r.attempt = n /\ r.epoch = h.epoch + 1 /\ r.stage = "load" /\ r.gen = 0
       /\ r.cancel = FALSE
  <2> HIDE DEF h, n
  <2> QED  BY DEF Rest
<1> HIDE DEF r
<1>5. JobTypeOK'  BY <1>1, <1>4 DEF JobTypeOK
<1>6. /\ head'[j] = hd /\ \A k \in Jobs : k # j => head'[k] = head[k]
      /\ ex'[w] = r /\ \A v \in Workers : v # w => ex'[v] = ex[v]
  BY <1>1 DEF JobTypeOK
<1>7. /\ head'[j].state = st /\ head'[j].attempt = n /\ head'[j].epoch = h.epoch + 1
      /\ head'[j].leased = TRUE
  BY <1>6
<1>8. LeaseInv'
  <2>1. \A k \in Jobs : k # j => head'[k].leased = FALSE
    BY <1>1, <1>6 DEF JobTypeOK, Heads
  <2>2. st \in Active  BY DEF Active
  <2> QED  BY <1>1, <1>3, <1>6, <1>7, <2>1, <2>2 DEF LeaseInv
<1>9. EpochInv'
  <2>1. ASSUME NEW v \in Workers, v # w, ex'[v].stage # "rest"
        PROVE  /\ ex'[v] = ex[v] /\ ex[v].job \in Jobs /\ ex[v].epoch \in Nat
               /\ ex[v].epoch <= head[ex[v].job].epoch
    BY <1>6, <2>1 DEF EpochInv, JobTypeOK, Execs
  <2>2. ASSUME NEW v \in Workers, v # w, ex'[v].stage # "rest", ex'[v].job = j
        PROVE  ex'[v].epoch < h.epoch + 1
    BY <2>1, <2>2, <1>2
  <2>3. ex'[w].job = j /\ ex'[w].epoch = h.epoch + 1  BY <1>6, <1>41
  <2>4. ASSUME NEW v \in Workers, ex'[v].stage # "rest"
        PROVE  ex'[v].job \in Jobs /\ ex'[v].epoch <= head'[ex'[v].job].epoch
    <3>1. CASE v = w  BY <3>1, <2>3, <1>7, <1>2
    <3>2. CASE v # w /\ ex'[v].job = j  BY <3>2, <2>2, <2>4, <2>1, <1>7, <1>2
    <3>3. CASE v # w /\ ex'[v].job # j  BY <3>3, <2>1, <2>4, <1>6
    <3> QED  BY <3>1, <3>2, <3>3
  <2>5. ASSUME NEW u \in Workers, NEW v \in Workers, u # v, ex'[u].stage # "rest",
               ex'[v].stage # "rest", ex'[u].job = ex'[v].job
        PROVE  ex'[u].epoch # ex'[v].epoch
    <3>1. CASE u = w  BY <3>1, <2>5, <2>2, <2>3, <2>1, <1>2
    <3>2. CASE v = w  BY <3>2, <2>5, <2>2, <2>3, <2>1, <1>2
    <3>3. CASE u # w /\ v # w  BY <3>3, <2>5, <2>1 DEF EpochInv
    <3> QED  BY <3>1, <3>2, <3>3
  <2> QED  BY <2>4, <2>5 DEF EpochInv
<1>10. Marked(j) => again \/ (h.state = "running" /\ h.attempt >= MaxAttempts)
  <2>1. CertOf(j)  BY DEF CertInv
  <2> QED  BY <1>1, <2>1 DEF CertOf, Active
<1>11. CertInv'
  <2> SUFFICES ASSUME NEW k \in Jobs PROVE CertOf(k)'  BY DEF CertInv
  <2>1. CertOf(k)  BY DEF CertInv
  <2>2. LiveGens(k)' = LiveGens(k) /\ (Marked(k)' <=> Marked(k))  BY <1>1 DEF LiveGens, Marked
  <2>3. CASE k = j
    <3>1. \A g \in Gens : cert[g].attempt \in Nat  BY DEF JobTypeOK, Certs
    <3>2. \A g \in Gens : cert[g].job = k => cert[g].attempt <= head'[k].attempt
      <4> SUFFICES ASSUME NEW g \in Gens, cert[g].job = k
                   PROVE  cert[g].attempt <= n
        BY <2>3, <1>7
      <4>1. cert[g].attempt <= h.attempt  BY <2>1, <2>3 DEF CertOf
      <4> QED  BY <4>1, <3>1, <1>2, <1>3
    <3>3. st \notin Queued  BY DEF Queued
    <3>4. Marked(k) => (st = "running" => n >= MaxAttempts)
      BY <1>10, <2>3, <1>2, <1>3
    <3> HIDE DEF h, st, n, again
    <3> QED  BY <2>1, <2>2, <2>3, <3>2, <3>3, <3>4, <1>1, <1>7 DEF CertOf
  <2>4. CASE k # j  BY <2>1, <2>2, <2>4, <1>1, <1>6 DEF CertOf
  <2> QED  BY <2>3, <2>4
<1>12. RemoteInv'  BY <1>1 DEF RemoteInv
<1>13. OwnerInv'
  <2> SUFFICES ASSUME NEW v \in Workers, Live(v)' PROVE Owner(v)'  BY DEF OwnerInv
  <2>1. v = w
    <3> SUFFICES ASSUME v # w PROVE FALSE  OBVIOUS
    <3>1. ex'[v] = ex[v] /\ ex[v].stage # "rest"  BY <1>6 DEF Live
    <3>2. ex[v].job \in Jobs /\ ex[v].epoch <= head[ex[v].job].epoch /\ ex[v].epoch \in Nat
      BY <3>1 DEF EpochInv, JobTypeOK, Execs
    <3>3. head'[ex[v].job].leased  /\ head'[ex[v].job].epoch = ex[v].epoch
      BY <3>1 DEF Live, OwnRow
    <3>4. ex[v].job = j  BY <3>2, <3>3, <1>1, <1>6
    <3> QED  BY <3>2, <3>3, <3>4, <1>2, <1>7
  <2>2. /\ ex'[w].job = j /\ ex'[w].stage = "load" /\ ex'[w].gen = 0 /\ ex'[w].cancel = FALSE
        /\ ex'[w].attempt = n
    BY <1>6, <1>41
  <2>3. Cancelled(w)' <=> again  BY <2>2, <1>7 DEF Cancelled
  <2>4. ~again => Earlier(w)'
    <3> SUFFICES ASSUME ~again, NEW g \in Gens, cert[g].job = j PROVE cert[g].attempt < n
      BY <1>1, <2>2 DEF Earlier, GensOf
    <3>1. cert[g].attempt <= h.attempt /\ cert[g].attempt <= MaxAttempts /\ cert[g].attempt \in Nat
      BY DEF CertInv, CertOf, JobTypeOK, Certs
    <3> QED  BY <3>1, <1>2, <1>3
  <2>5. ~again /\ Marked(j)' => Exhausted(w)'
    <3>1. Marked(j)' <=> Marked(j)  BY <1>1 DEF Marked
    <3>2. ~again /\ Marked(j) => n > MaxAttempts  BY <1>10, <1>2, <1>3
    <3> QED  BY <3>1, <3>2, <2>2 DEF Exhausted
  <2> HIDE DEF h, again, n, st
  <2> QED  BY <2>1, <2>2, <2>3, <2>4, <2>5, <1>7 DEF Owner
<1> QED  BY <1>5, <1>8, <1>9, <1>11, <1>12, <1>13

\* A crash, a discarded outcome and a proof that fails end the execution.
LEMMA EndKeeps ==
  ASSUME JobInv, NEW w \in Workers, CrashWorker(w) \/ ProofFails(w) \/ Discarded(w)
  PROVE  JobInv'
BY IdleStep DEF CrashWorker, ProofFails, Discarded, Unresolved

LEMMA LoadNothingKeeps ==
  ASSUME JobInv, Prompt = TRUE, NEW w \in Workers, LoadNothing(w)
  PROVE  JobInv'
<1> USE DEF JobInv
<1> DEFINE r == [ex[w] EXCEPT !.stage = "collect"]
<1>1. Live(w) /\ ex[w].stage = "load"  BY AtIsLive DEF LoadNothing, ExStages
<1>2. ex[w] \in Execs  BY DEF JobTypeOK
<1>3. /\ r \in Execs /\ r.stage = "collect" /\ r.job = ex[w].job /\ r.epoch = ex[w].epoch
      /\ r.attempt = ex[w].attempt /\ r.gen = ex[w].gen /\ r.cancel = ex[w].cancel
  BY <1>2 DEF Execs, ExStages
<1>4. /\ ex' = [ex EXCEPT ![w] = r] /\ head' = head /\ cert' = cert /\ remote' = remote
      /\ spool' = spool /\ op' = op /\ ~Cancelled(w)
  BY DEF LoadNothing, Go
<1>5. remote' \in Remotes /\ spool' \in [Jobs -> BOOLEAN]  BY <1>4 DEF JobTypeOK
<1>6. cert' \in [Gens -> Certs] /\ CertInv' /\ RemoteInv'  BY <1>4, <1>5, CertsKept
<1>7. Owner(w)  BY <1>1 DEF OwnerInv
<1>8. ex'[w] = r  BY <1>4 DEF JobTypeOK
<1> HIDE DEF r
<1>9. Owner(w)'
  BY <1>1, <1>3, <1>4, <1>7, <1>8 DEF Owner, Earlier, GensOf, Marked, Exhausted
<1> QED  BY <1>1, <1>3, <1>4, <1>5, <1>6, <1>9, LiveStep

\* What cannot be read ends the execution before it has found or made a deployment.
LEMMA ReadFailsKeeps ==
  ASSUME JobInv, Prompt = TRUE, NEW w \in Workers, NEW error \in Errors, ReadFails(w, error)
  PROVE  JobInv'
<1> USE DEF JobInv
<1> DEFINE r == [ex[w] EXCEPT !.stage = "finish", !.error = error, !.loose = TRUE]
<1>1. Live(w) /\ ex[w].stage \in {"load", "collect"}  BY AtIsLive DEF ReadFails, ExStages
<1>2. ex[w] \in Execs  BY DEF JobTypeOK
<1>3. /\ r \in Execs /\ r.stage = "finish" /\ r.job = ex[w].job /\ r.epoch = ex[w].epoch
      /\ r.attempt = ex[w].attempt /\ r.gen = ex[w].gen /\ r.cancel = ex[w].cancel
      /\ r.error # "none" /\ r.loose = TRUE
  BY <1>2 DEF Execs, ExStages, Errors
<1>4. /\ ex' = [ex EXCEPT ![w] = r] /\ head' = head /\ cert' = cert /\ remote' = remote
      /\ spool' = spool /\ op' = op
  BY DEF ReadFails
<1>5. remote' \in Remotes /\ spool' \in [Jobs -> BOOLEAN]  BY <1>4 DEF JobTypeOK
<1>6. cert' \in [Gens -> Certs] /\ CertInv' /\ RemoteInv'  BY <1>4, <1>5, CertsKept
<1>7. Owner(w)  BY <1>1 DEF OwnerInv
<1>8. ex'[w] = r  BY <1>4 DEF JobTypeOK
<1> HIDE DEF r
<1>9. Owner(w)'  BY <1>1, <1>3, <1>4, <1>7, <1>8 DEF Owner
<1> QED  BY <1>1, <1>3, <1>4, <1>5, <1>6, <1>9, LiveStep

\* A cancelled execution that finds its deployment goes to revoke it; one that
\* finds nothing leaves nothing.
LEMMA LoadCancelledKeeps ==
  ASSUME JobInv, Prompt = TRUE, NEW w \in Workers, NEW alive \in Probes,
         LoadCancelled(w, alive)
  PROVE  JobInv'
<1> USE DEF JobInv
<1>0. alive \in BOOLEAN  BY DEF Probes
<1> DEFINE j == ex[w].job
           gs == Candidates(w, ex[w].attempt, {"staged", "active", "revoked"})
           seen == Reconciled(gs, alive)
           rv == [ex[w] EXCEPT !.stage = "revoke", !.gen = remote.man, !.cancel = TRUE,
                               !.error = "cancel"]
           fin == [ex[w] EXCEPT !.stage = "finish", !.cancel = TRUE, !.error = "cancel"]
<1>1. Live(w) /\ ex[w].stage = "load"  BY AtIsLive DEF LoadCancelled, ExStages
<1>2. /\ ex[w] \in Execs /\ remote \in Remotes /\ spool \in [Jobs -> BOOLEAN]
      /\ \A g \in Gens : cert[g] \in Certs
  BY DEF JobTypeOK
<1>3. /\ head' = head /\ remote' = remote /\ spool' = spool /\ op' = op /\ Cancelled(w)
      /\ cert' = ReconciledCerts(gs, alive, FALSE)
      /\ ex' = [ex EXCEPT ![w] =
           IF seen = "unresolved" \/ (seen = "nothing" /\ spool[j]) THEN Rest
           ELSE IF seen = "committed" THEN rv ELSE fin]
  BY DEF LoadCancelled
<1>4. /\ j \in Jobs /\ Owner(w) /\ head[j].state = "cancelling" /\ head[j].attempt \in Nat
  BY <1>1, <1>3, LiveHead
<1>5. ex[w].attempt = head[j].attempt /\ ex[w].gen = 0  BY <1>1, <1>4 DEF Owner
<1>6. gs \in SUBSET Gens /\ \A g \in gs : cert[g].job = j /\ cert[g].state \in {"staged", "active", "revoked"}
  BY DEF Candidates
<1>7. /\ cert' \in [Gens -> Certs] /\ CertInv' /\ RemoteInv'
      /\ seen \in {"nothing", "unresolved", "committed"}
      /\ seen = "committed" => /\ remote.man \in gs /\ remote.man \in Gens
                               /\ remote.run = remote.man /\ cert' = cert
  <2> HIDE DEF gs
  <2> QED  BY <1>0, <1>3, <1>6, Reconciles
<1>8. /\ rv \in Execs /\ rv.stage = "revoke" /\ rv.job = j /\ rv.epoch = ex[w].epoch
      /\ rv.attempt = ex[w].attempt /\ rv.gen = remote.man /\ rv.cancel = TRUE /\ rv.error = "cancel"
  BY <1>2 DEF Execs, ExStages, Remotes
<1>9. /\ fin \in Execs /\ fin.stage = "finish" /\ fin.job = j /\ fin.epoch = ex[w].epoch
      /\ fin.attempt = ex[w].attempt /\ fin.gen = ex[w].gen /\ fin.cancel = TRUE
      /\ fin.error = "cancel"
  BY <1>2 DEF Execs, ExStages
<1>10. Rest \in Execs /\ Rest.stage = "rest"  BY GuardJobAssumption DEF Rest, Execs, ExStages
<1>11. remote' \in Remotes /\ spool' \in [Jobs -> BOOLEAN]  BY <1>2, <1>3
<1> HIDE DEF rv, fin
<1>12. CASE seen = "unresolved" \/ (seen = "nothing" /\ spool[j])
  <2>1. ex' = [ex EXCEPT ![w] = Rest]  BY <1>3, <1>12
  <2> QED  BY <1>1, <1>3, <1>7, <1>10, <1>11, <2>1, LiveStep
<1>13. CASE seen = "committed"
  <2>1. ex' = [ex EXCEPT ![w] = rv]  BY <1>3, <1>13
  <2>2. ex'[w] = rv  BY <2>1 DEF JobTypeOK
  <2>3. cert[remote.man].job = j /\ cert[remote.man].state \in {"staged", "active", "revoked"}
    BY <1>6, <1>7, <1>13
  <2>4. Holds(w, {"staged", "active", "revoked"})'
    <3>1. ex'[w].gen = remote.man /\ ex'[w].job = j  BY <1>8, <2>2
    <3>2. remote.man \in Gens /\ remote.run = remote.man /\ cert' = cert  BY <1>7, <1>13
    <3> QED  BY <1>3, <2>3, <3>1, <3>2 DEF Holds
  <2>5. Owner(w)'  BY <1>3, <1>4, <1>5, <1>8, <2>2, <2>4 DEF Owner, MayRevoke
  <2> QED  BY <1>1, <1>3, <1>7, <1>8, <1>11, <2>1, <2>5, LiveStep
<1>14. CASE seen = "nothing" /\ ~spool[j]
  <2>1. ex' = [ex EXCEPT ![w] = fin]  BY <1>3, <1>14
  <2>2. ex'[w] = fin  BY <2>1 DEF JobTypeOK
  <2>3. \A g \in Gens : cert[g].job = j /\ cert[g].state \in {"staged", "active", "revoked"} =>
          g \in gs
    <3> SUFFICES ASSUME NEW g \in Gens, cert[g].job = j,
                        cert[g].state \in {"staged", "active", "revoked"}
                 PROVE  cert[g].attempt \in 1 .. ex[w].attempt
      BY DEF Candidates
    <3>1. cert[g].attempt \in Nat /\ cert[g].attempt >= 1 /\ cert[g].attempt <= head[j].attempt
      BY <1>2, <1>4 DEF CertInv, CertOf, Certs
    <3> QED  BY <3>1, <1>4, <1>5
  <2> HIDE DEF gs
  <2>k. PICK k \in Jobs : k = j  BY <1>4
  <2>4. Gone(k)'  BY <1>3, <1>4, <1>6, <1>14, <2>3, <2>k, <1>0, NothingLeft
  <2>5. Owner(w)'  BY <1>3, <1>4, <1>5, <1>9, <2>2, <2>4, <2>k DEF Owner
  <2> QED  BY <1>1, <1>3, <1>7, <1>9, <1>11, <2>1, <2>5, LiveStep
<1> QED  BY <1>7, <1>12, <1>13, <1>14

\* A stored result goes on only with the live deployment of its job.
LEMMA LoadStoredKeeps ==
  ASSUME JobInv, Prompt = TRUE, NEW w \in Workers, NEW alive \in Probes,
         LoadStored(w, alive)
  PROVE  JobInv'
<1> USE DEF JobInv
<1>0. alive \in BOOLEAN  BY DEF Probes
<1> DEFINE j == ex[w].job
           gs == Candidates(w, ex[w].attempt, {"staged", "active"})
           fw == [ex[w] EXCEPT !.stage = "forward", !.gen = remote.man]
<1>1. Live(w) /\ ex[w].stage = "load"  BY AtIsLive DEF LoadStored, ExStages
<1>2. ex[w] \in Execs /\ remote \in Remotes /\ spool \in [Jobs -> BOOLEAN]  BY DEF JobTypeOK
<1>3. /\ head' = head /\ remote' = remote /\ spool' = spool /\ op' = op
      /\ cert' = ReconciledCerts(gs, alive, TRUE)
      /\ ex' = [ex EXCEPT ![w] = IF Reconciled(gs, alive) = "committed" THEN fw ELSE Rest]
  BY DEF LoadStored
<1>4. j \in Jobs /\ Owner(w)  BY <1>1, LiveHead
<1>5. gs \in SUBSET Gens /\ \A g \in gs : cert[g].job = j /\ cert[g].state \in {"staged", "active"}
  BY DEF Candidates
<1>6. /\ cert' \in [Gens -> Certs] /\ CertInv' /\ RemoteInv'
      /\ Reconciled(gs, alive) = "committed" =>
           /\ remote.man \in gs /\ remote.man \in Gens /\ remote.run = remote.man
           /\ cert'[remote.man].job = cert[remote.man].job
           /\ cert'[remote.man].state =
                IF cert[remote.man].state = "staged" THEN "active" ELSE cert[remote.man].state
  <2> HIDE DEF gs
  <2> QED  BY <1>0, <1>3, <1>5, Reconciles
<1>7. /\ fw \in Execs /\ fw.stage = "forward" /\ fw.job = j /\ fw.epoch = ex[w].epoch
      /\ fw.attempt = ex[w].attempt /\ fw.gen = remote.man /\ fw.cancel = ex[w].cancel
  BY <1>2 DEF Execs, ExStages, Remotes
<1>8. Rest \in Execs /\ Rest.stage = "rest"  BY GuardJobAssumption DEF Rest, Execs, ExStages
<1>9. remote' \in Remotes /\ spool' \in [Jobs -> BOOLEAN]  BY <1>2, <1>3
<1> HIDE DEF fw
<1>10. CASE Reconciled(gs, alive) # "committed"
  <2>1. ex' = [ex EXCEPT ![w] = Rest]  BY <1>3, <1>10
  <2> QED  BY <1>1, <1>3, <1>6, <1>8, <1>9, <2>1, LiveStep
<1>11. CASE Reconciled(gs, alive) = "committed"
  <2>1. ex' = [ex EXCEPT ![w] = fw]  BY <1>3, <1>11
  <2>2. ex'[w] = fw  BY <2>1 DEF JobTypeOK
  <2>3. cert[remote.man].job = j /\ cert[remote.man].state \in {"staged", "active"}
    BY <1>5, <1>6, <1>11
  <2>4. Holds(w, {"active"})'  BY <1>3, <1>6, <1>7, <1>11, <2>2, <2>3 DEF Holds
  <2>5. Owner(w)'  BY <1>3, <1>4, <1>7, <2>2, <2>4 DEF Owner
  <2> QED  BY <1>1, <1>3, <1>6, <1>7, <1>9, <2>1, <2>5, LiveStep
<1> QED  BY <1>10, <1>11

\* The settled earlier attempts: a found deployment is used, a revoked one is
\* taken down again, and with nothing left the attempt stages its own.
LEMMA CollectKeeps ==
  ASSUME JobInv, Prompt = TRUE, NEW w \in Workers, NEW alive \in Probes,
         Collect(w, alive)
  PROVE  JobInv'
<1> USE DEF JobInv
<1>0. alive \in BOOLEAN  BY DEF Probes
<1> DEFINE j == ex[w].job
           sts == {"staged", "active"} \union (IF Exhausted(w) THEN {"revoked"} ELSE {})
           gs == Candidates(w, ex[w].attempt - 1, sts)
           seen == Reconciled(gs, alive)
           found == [ex[w] EXCEPT !.gen = remote.man]
           rv == [found EXCEPT !.stage = "revoke", !.error = "fatal"]
           sv == [found EXCEPT !.stage = "save"]
           fin == [ex[w] EXCEPT !.stage = "finish", !.error = "fatal"]
           sg == [ex[w] EXCEPT !.stage = "stage"]
<1>1. Live(w) /\ ex[w].stage = "collect"  BY AtIsLive DEF Collect, ExStages
<1>2. /\ ex[w] \in Execs /\ remote \in Remotes /\ spool \in [Jobs -> BOOLEAN]
      /\ \A g \in Gens : cert[g] \in Certs
  BY DEF JobTypeOK
<1>3. /\ head' = head /\ remote' = remote /\ spool' = spool /\ op' = op
      /\ cert' = ReconciledCerts(gs, alive, TRUE)
      /\ ex' = [ex EXCEPT ![w] =
           CASE seen = "unresolved" -> Rest
             [] seen = "committed" /\ cert[remote.man].state = "revoked" -> rv
             [] seen = "committed" /\ cert[remote.man].state # "revoked" -> sv
             [] seen = "nothing" /\ Exhausted(w) -> fin
             [] seen = "nothing" /\ ~Exhausted(w) -> sg]
  BY DEF Collect
<1>4. /\ j \in Jobs /\ Owner(w) /\ head[j].attempt \in Nat  BY <1>1, LiveHead
<1>5. /\ ex[w].attempt = head[j].attempt /\ ex[w].gen = 0 /\ Earlier(w)
      /\ Marked(j) => Exhausted(w)
      /\ ex[w].cancel = TRUE => head[j].state = "cancelling"
  BY <1>1, <1>4 DEF Owner
<1>6. gs \in SUBSET Gens /\ \A g \in gs : cert[g].job = j /\ cert[g].state \in sts
  BY DEF Candidates
<1>7. /\ cert' \in [Gens -> Certs] /\ CertInv' /\ RemoteInv'
      /\ seen \in {"nothing", "unresolved", "committed"}
      /\ seen = "committed" =>
           /\ remote.man \in gs /\ remote.man \in Gens /\ remote.run = remote.man
           /\ cert'[remote.man].job = cert[remote.man].job
           /\ cert'[remote.man].state =
                IF cert[remote.man].state = "staged" THEN "active" ELSE cert[remote.man].state
      /\ \A g \in Gens : cert'[g].job \in Jobs =>
           /\ cert'[g].job = cert[g].job /\ cert'[g].attempt = cert[g].attempt
           /\ cert'[g].state = "revoked" => cert[g].state = "revoked"
  <2> HIDE DEF gs
  <2> QED  BY <1>0, <1>3, <1>6, Reconciles
<1>8. found \in Execs /\ found.gen = remote.man /\ found.job = j /\ found.epoch = ex[w].epoch
      /\ found.attempt = ex[w].attempt /\ found.cancel = ex[w].cancel
  BY <1>2 DEF Execs, Remotes
<1>9. /\ rv \in Execs /\ rv.stage = "revoke" /\ rv.job = j /\ rv.epoch = ex[w].epoch
      /\ rv.attempt = ex[w].attempt /\ rv.gen = remote.man /\ rv.cancel = ex[w].cancel
      /\ rv.error = "fatal"
  <2> HIDE DEF found
  <2> QED  BY <1>8 DEF Execs, ExStages
<1>10. /\ sv \in Execs /\ sv.stage = "save" /\ sv.job = j /\ sv.epoch = ex[w].epoch
       /\ sv.attempt = ex[w].attempt /\ sv.gen = remote.man /\ sv.cancel = ex[w].cancel
  <2> HIDE DEF found
  <2> QED  BY <1>8 DEF Execs, ExStages
<1>11. /\ fin \in Execs /\ fin.stage = "finish" /\ fin.job = j /\ fin.epoch = ex[w].epoch
       /\ fin.attempt = ex[w].attempt /\ fin.gen = ex[w].gen /\ fin.cancel = ex[w].cancel
       /\ fin.error = "fatal"
  BY <1>2 DEF Execs, ExStages
<1>12. /\ sg \in Execs /\ sg.stage = "stage" /\ sg.job = j /\ sg.epoch = ex[w].epoch
       /\ sg.attempt = ex[w].attempt /\ sg.gen = ex[w].gen /\ sg.cancel = ex[w].cancel
  BY <1>2 DEF Execs, ExStages
<1>13. Rest \in Execs /\ Rest.stage = "rest"  BY GuardJobAssumption DEF Rest, Execs, ExStages
<1>14. remote' \in Remotes /\ spool' \in [Jobs -> BOOLEAN]  BY <1>2, <1>3
<1> HIDE DEF rv, sv, fin, sg, found
<1>15. CASE seen = "unresolved"
  <2>1. ex' = [ex EXCEPT ![w] = Rest]  BY <1>3, <1>15
  <2> QED  BY <1>1, <1>3, <1>7, <1>13, <1>14, <2>1, LiveStep
<1>16. CASE seen = "committed" /\ cert[remote.man].state = "revoked"
  <2>1. ex' = [ex EXCEPT ![w] = rv]  BY <1>3, <1>16
  <2>2. ex'[w] = rv  BY <2>1 DEF JobTypeOK
  <2>3. cert[remote.man].job = j /\ cert[remote.man].state \in sts  BY <1>6, <1>7, <1>16
  <2>4. Exhausted(w)  BY <1>16, <2>3
  <2>5. ex[w].attempt >= MaxAttempts
    BY <2>4, <1>2, GuardJobAssumption DEF Exhausted, Execs
  <2>6. Holds(w, {"staged", "active", "revoked"})'
    <3>1. ex'[w].gen = remote.man /\ ex'[w].job = j  BY <1>9, <2>2
    <3>2. /\ remote.man \in Gens /\ remote.run = remote.man
          /\ cert'[remote.man].job = cert[remote.man].job /\ cert'[remote.man].state = "revoked"
      BY <1>7, <1>16
    <3> QED  BY <1>3, <2>3, <3>1, <3>2 DEF Holds
  <2>7. Owner(w)'  BY <1>3, <1>5, <1>9, <2>2, <2>5, <2>6 DEF Owner, MayRevoke
  <2> QED  BY <1>1, <1>3, <1>7, <1>9, <1>14, <2>1, <2>7, LiveStep
<1>17. CASE seen = "committed" /\ cert[remote.man].state # "revoked"
  <2>1. ex' = [ex EXCEPT ![w] = sv]  BY <1>3, <1>17
  <2>2. ex'[w] = sv  BY <2>1 DEF JobTypeOK
  <2>3. cert[remote.man].job = j /\ cert[remote.man].state \in sts  BY <1>6, <1>7, <1>17
  <2>4. cert'[remote.man].state = "active"  BY <1>7, <1>17, <2>3
  <2>5. Holds(w, {"active"})'
    <3>1. ex'[w].gen = remote.man /\ ex'[w].job = j  BY <1>10, <2>2
    <3>2. /\ remote.man \in Gens /\ remote.run = remote.man
          /\ cert'[remote.man].job = cert[remote.man].job
      BY <1>7, <1>17
    <3> QED  BY <1>3, <2>3, <2>4, <3>1, <3>2 DEF Holds
  <2>6. Owner(w)'  BY <1>3, <1>5, <1>10, <2>2, <2>5 DEF Owner
  <2> QED  BY <1>1, <1>3, <1>7, <1>10, <1>14, <2>1, <2>6, LiveStep
<1>18. CASE seen = "nothing"
  <2>1. \A g \in Gens : cert[g].job = j /\ cert[g].state \in {"staged", "active", "revoked"} =>
          g \in gs
    <3> SUFFICES ASSUME NEW g \in Gens, cert[g].job = j,
                        cert[g].state \in {"staged", "active", "revoked"}
                 PROVE  cert[g].attempt \in 1 .. ex[w].attempt - 1 /\ cert[g].state \in sts
      BY DEF Candidates
    <3>1. cert[g].attempt \in Nat /\ cert[g].attempt >= 1
      BY <1>2, <1>4 DEF CertInv, CertOf, Certs
    <3>2. cert[g].attempt < ex[w].attempt  BY <1>5 DEF Earlier, GensOf
    <3>3. cert[g].state = "revoked" => Exhausted(w)  BY <1>5 DEF Marked
    <3> QED  BY <3>1, <3>2, <3>3, <1>4, <1>5
  <2>k. PICK k \in Jobs : k = j  BY <1>4
  <2>2. Gone(k)'
    <3> HIDE DEF gs
    <3> QED  BY <1>3, <1>4, <1>6, <1>18, <2>1, <2>k, <1>0, NothingLeft
  <2>3. CASE Exhausted(w)
    <3>1. ex' = [ex EXCEPT ![w] = fin]  BY <1>3, <1>18, <2>3
    <3>2. ex'[w] = fin  BY <3>1 DEF JobTypeOK
    <3>3. Owner(w)'  BY <1>3, <1>5, <1>11, <2>2, <2>k, <3>2 DEF Owner
    <3> QED  BY <1>1, <1>3, <1>7, <1>11, <1>14, <3>1, <3>3, LiveStep
  <2>4. CASE ~Exhausted(w)
    <3>1. ex' = [ex EXCEPT ![w] = sg]  BY <1>3, <1>18, <2>4
    <3>2. ex'[w] = sg  BY <3>1 DEF JobTypeOK
    <3>3. Earlier(w)'  BY <1>4, <1>5, <1>7, <1>12, <3>2 DEF Earlier, GensOf
    <3>4. ~Marked(k)'  BY <1>4, <1>5, <1>7, <2>4, <2>k DEF Marked
    <3>5. ~Exhausted(w)'  BY <2>4, <1>12, <3>2 DEF Exhausted
    <3>6. Owner(w)'  BY <1>3, <1>5, <1>12, <2>2, <2>k, <3>2, <3>3, <3>4, <3>5 DEF Owner
    <3> QED  BY <1>1, <1>3, <1>7, <1>12, <1>14, <3>1, <3>6, LiveStep
  <2> QED  BY <2>3, <2>4
<1> QED  BY <1>7, <1>15, <1>16, <1>17, <1>18

\* The new generation is the only one of its job, and it does not run yet.
LEMMA StageGenerationKeeps ==
  ASSUME JobInv, Prompt = TRUE, NEW w \in Workers, StageGeneration(w)
  PROVE  JobInv'
<1> USE DEF JobInv
<1> DEFINE fin == [ex[w] EXCEPT !.stage = "finish", !.error = "retry"]
           dp(g) == [ex[w] EXCEPT !.stage = "deploy", !.gen = g]
           free == {g \in Gens : \A h \in Gens : h >= g => cert[h] = Free}
           taken == \E g \in Gens : \/ cert[g].state = "staged"
                                    \/ cert[g].job = ex[w].job /\ cert[g].attempt = ex[w].attempt
<1>1. Live(w) /\ ex[w].stage = "stage"  BY AtIsLive DEF StageGeneration, ExStages
<1>2. ex[w] \in Execs /\ remote \in Remotes /\ spool \in [Jobs -> BOOLEAN]  BY DEF JobTypeOK
<1>3. head' = head /\ remote' = remote /\ spool' = spool /\ op' = op  BY DEF StageGeneration
<1>4. /\ ex[w].job \in Jobs /\ Owner(w) /\ head[ex[w].job].attempt \in Nat
      /\ head[ex[w].job].attempt >= 1
  BY <1>1, LiveHead
<1>5. PICK j \in Jobs : j = ex[w].job  BY <1>4
<1>6. /\ ex[w].attempt = head[j].attempt /\ ex[w].gen = 0 /\ ~Exhausted(w) /\ ~Marked(j) /\ Gone(j)
      /\ ex[w].cancel = TRUE => head[j].state = "cancelling"
  BY <1>1, <1>4, <1>5 DEF Owner
<1>7. remote' \in Remotes /\ spool' \in [Jobs -> BOOLEAN]  BY <1>2, <1>3
<1>8. CASE taken
  <2>1. ex' = [ex EXCEPT ![w] = fin] /\ cert' = cert  BY <1>8 DEF StageGeneration
  <2>2. /\ fin \in Execs /\ fin.stage = "finish" /\ fin.job = ex[w].job /\ fin.epoch = ex[w].epoch
        /\ fin.attempt = ex[w].attempt /\ fin.gen = ex[w].gen /\ fin.cancel = ex[w].cancel
        /\ fin.error = "retry"
    BY <1>2 DEF Execs, ExStages
  <2> HIDE DEF fin
  <2>3. cert' \in [Gens -> Certs] /\ CertInv' /\ RemoteInv'  BY <1>3, <1>7, <2>1, CertsKept
  <2>4. ex'[w] = fin  BY <2>1 DEF JobTypeOK
  <2>5. Gone(j)'  BY <1>3, <1>6, <2>1 DEF Gone, GensOf
  <2>6. Owner(w)'  BY <1>3, <1>5, <1>6, <2>2, <2>4, <2>5 DEF Owner
  <2> QED  BY <1>1, <1>3, <1>7, <2>1, <2>2, <2>3, <2>6, LiveStep
<1>9. CASE ~taken
  <2>1. PICK g \in free :
          /\ cert' = [cert EXCEPT ![g] = [job |-> ex[w].job, attempt |-> ex[w].attempt,
                                          state |-> "staged"]]
          /\ ex' = [ex EXCEPT ![w] = dp(g)]
    <3>1. PICK g \in free :
            /\ cert' = [cert EXCEPT ![g] = [job |-> ex[w].job, attempt |-> ex[w].attempt,
                                            state |-> "staged"]]
            /\ ex' = [ex EXCEPT ![w].stage = "deploy", ![w].gen = g]
      BY <1>9, Zenon DEF StageGeneration
    <3>2. ex' = [ex EXCEPT ![w] = dp(g)]  BY <3>1 DEF JobTypeOK
    <3> QED  BY <3>1, <3>2
  <2>2. g \in Gens /\ cert[g] = Free  BY <2>1, GuardJobAssumption DEF Gens
  <2>g. g \in 0 .. MaxGen  BY <2>2, GuardJobAssumption DEF Gens
  <2>3. /\ dp(g) \in Execs /\ dp(g).stage = "deploy" /\ dp(g).job = ex[w].job
        /\ dp(g).epoch = ex[w].epoch
        /\ dp(g).attempt = ex[w].attempt /\ dp(g).gen = g /\ dp(g).cancel = ex[w].cancel
    BY <1>2, <2>g DEF Execs, ExStages
  <2> HIDE DEF dp, free, taken
  <2>4. LiveGens(j) = {}  BY <1>6 DEF LiveGens, Gone, GensOf
  <2>5. ex[w].attempt \in Nat /\ ex[w].attempt >= 1 /\ ex[w].attempt <= MaxAttempts
        /\ ex[w].attempt <= head[j].attempt
    BY <1>2, <1>4, <1>5, <1>6, GuardJobAssumption DEF Execs, Exhausted
  <2>6. cert' = [cert EXCEPT ![g] = [job |-> j, attempt |-> ex[w].attempt, state |-> "staged"]]
    BY <2>1, <1>5
  <2>7. cert' \in [Gens -> Certs] /\ CertInv' /\ RemoteInv' /\ remote.run # g
    BY <1>3, <1>6, <2>2, <2>4, <2>5, <2>6, CertsStaged
  <2>8. ex'[w] = dp(g)  BY <2>1 DEF JobTypeOK
  <2>9. /\ cert'[g].job = j /\ cert'[g].attempt = ex[w].attempt /\ cert'[g].state = "staged"
        /\ \A h \in Gens : h # g => cert'[h] = cert[h]
    BY <2>2, <2>6 DEF JobTypeOK
  <2>10. remote'.run \notin GensOf(j)'
    BY <1>3, <1>6, <2>7, <2>9 DEF Gone, GensOf
  <2>11. Owned(w)' /\ cert'[ex'[w].gen].state = "staged" /\ ex'[w].gen \in Gens
    BY <1>5, <2>2, <2>3, <2>8, <2>9 DEF Owned
  <2>12. Owner(w)'  BY <1>3, <1>5, <1>6, <2>3, <2>8, <2>10, <2>11 DEF Owner
  <2> QED  BY <1>1, <1>3, <1>7, <2>1, <2>3, <2>7, <2>12, LiveStep
<1> QED  BY <1>8, <1>9

\* The committed generation is what the manifest names, what runs and what is active.
LEMMA DeployCommitsKeeps ==
  ASSUME JobInv, Prompt = TRUE, NEW w \in Workers, DeployCommits(w)
  PROVE  JobInv'
<1> USE DEF JobInv
<1> DEFINE r == [ex[w] EXCEPT !.stage = "recheck"]
<1>1. Live(w) /\ ex[w].stage = "deploy"  BY AtIsLive DEF DeployCommits, ExStages
<1>2. ex[w] \in Execs /\ spool \in [Jobs -> BOOLEAN]  BY DEF JobTypeOK
<1>3. /\ head' = head /\ spool' = spool /\ op' = op /\ cert' = ActivatedCerts(ex[w].gen)
      /\ remote' = [man |-> ex[w].gen, run |-> ex[w].gen] /\ ex' = [ex EXCEPT ![w] = r]
  BY DEF DeployCommits, Go
<1>4. ex[w].job \in Jobs /\ Owner(w)  BY <1>1, LiveHead
<1>5. ex[w].gen \in Gens /\ cert[ex[w].gen].state = "staged" /\ cert[ex[w].gen].job = ex[w].job
  BY <1>1, <1>4 DEF Owner, Owned
<1>6. /\ r \in Execs /\ r.stage = "recheck" /\ r.job = ex[w].job /\ r.epoch = ex[w].epoch
      /\ r.attempt = ex[w].attempt /\ r.gen = ex[w].gen /\ r.cancel = ex[w].cancel
  BY <1>2 DEF Execs, ExStages
<1> HIDE DEF r
<1>7. /\ remote' \in Remotes /\ remote'.run = ex[w].gen /\ remote'.man = ex[w].gen
      /\ spool' \in [Jobs -> BOOLEAN]
  BY <1>2, <1>3 DEF Execs, Remotes
<1>8. /\ cert' \in [Gens -> Certs] /\ CertInv' /\ RemoteInv'
      /\ cert'[ex[w].gen].state = "active" /\ cert'[ex[w].gen].job = ex[w].job
  BY <1>3, <1>5, <1>7, CertsActivated
<1>9. ex'[w] = r  BY <1>3 DEF JobTypeOK
<1>10. Holds(w, {"active"})'  BY <1>5, <1>6, <1>7, <1>8, <1>9 DEF Holds
<1>11. Owner(w)'  BY <1>3, <1>4, <1>6, <1>9, <1>10 DEF Owner
<1> QED  BY <1>1, <1>3, <1>6, <1>7, <1>8, <1>11, LiveStep

\* A restored deployment takes the only generation of its job with it.
LEMMA DeployRestoresKeeps ==
  ASSUME JobInv, Prompt = TRUE, NEW w \in Workers, NEW error \in Errors,
         DeployRestores(w, error)
  PROVE  JobInv'
<1> USE DEF JobInv
<1> DEFINE r == [ex[w] EXCEPT !.stage = "finish", !.gen = 0, !.error = error]
           x == ex[w].gen
<1>1. Live(w) /\ ex[w].stage = "deploy"  BY AtIsLive DEF DeployRestores, ExStages
<1>2. ex[w] \in Execs /\ remote \in Remotes /\ spool \in [Jobs -> BOOLEAN]  BY DEF JobTypeOK
<1>3. ex[w].job \in Jobs /\ Owner(w)  BY <1>1, LiveHead
<1>4. PICK j \in Jobs : j = ex[w].job  BY <1>3
<1>5. /\ x \in Gens /\ Owned(w) /\ cert[x].state = "staged" /\ cert[x].job = j
      /\ remote.run \notin GensOf(j) /\ ex[w].attempt = head[j].attempt
      /\ ex[w].cancel = TRUE => head[j].state = "cancelling"
  BY <1>1, <1>3, <1>4 DEF Owner, Owned
<1>6. /\ head' = head /\ remote' = remote /\ spool' = spool /\ op' = op
      /\ ex' = [ex EXCEPT ![w] = r] /\ cert' = [cert EXCEPT ![x] = AbortedCert(@)]
  BY <1>5 DEF DeployRestores
<1>0. 0 \in 0 .. MaxGen  BY GuardJobAssumption
<1>7. /\ r \in Execs /\ r.stage = "finish" /\ r.job = ex[w].job /\ r.epoch = ex[w].epoch
      /\ r.attempt = ex[w].attempt /\ r.gen = 0 /\ r.cancel = ex[w].cancel /\ r.error # "none"
  BY <1>0, <1>2 DEF Execs, ExStages, Errors
<1> HIDE DEF r
<1>8. cert' = [g \in Gens |-> IF g \in {x} THEN AbortedCert(cert[g]) ELSE cert[g]]
  BY <1>5, <1>6 DEF JobTypeOK
<1>9. cert' \in [Gens -> Certs] /\ CertInv' /\ RemoteInv'
  BY <1>5, <1>6, <1>8, CertsAborted
<1>10. remote' \in Remotes /\ spool' \in [Jobs -> BOOLEAN]  BY <1>2, <1>6
<1>11. ex'[w] = r  BY <1>6 DEF JobTypeOK
<1>12. cert'[x] = Unkeyed /\ Unkeyed.job \notin Jobs /\ \A g \in Gens : g # x => cert'[g] = cert[g]
  BY <1>5, <1>8, GuardJobAssumption DEF AbortedCert, Unkeyed
<1>13. Gone(j)'
  <2> SUFFICES ASSUME NEW g \in Gens, cert'[g].job = j
               PROVE  cert'[g].state \notin {"staged", "active"} /\ remote.run # g
    BY <1>6 DEF Gone, GensOf
  <2>1. g # x /\ cert'[g] = cert[g]  BY <1>12
  <2>2. remote.run # g  BY <1>5, <2>1 DEF GensOf
  <2>3. x \in LiveGens(j)  BY <1>5 DEF LiveGens
  <2>4. g \notin LiveGens(j)  BY <2>1, <2>3 DEF CertInv, CertOf
  <2> QED  BY <2>1, <2>2, <2>4 DEF LiveGens
<1>14. Owner(w)'  BY <1>4, <1>5, <1>6, <1>7, <1>11, <1>13 DEF Owner
<1> QED  BY <1>1, <1>6, <1>7, <1>9, <1>10, <1>14, LiveStep

\* An uncertain deployment leaves any mixture of the old and the staged one.
LEMMA DeployUncertainKeeps ==
  ASSUME JobInv, Prompt = TRUE, NEW w \in Workers, DeployUncertain(w)
  PROVE  JobInv'
<1> USE DEF JobInv
<1>1. Live(w) /\ ex[w].stage = "deploy"  BY AtIsLive DEF DeployUncertain, ExStages
<1>2. ex[w] \in Execs /\ remote \in Remotes /\ spool \in [Jobs -> BOOLEAN]  BY DEF JobTypeOK
<1>3. /\ head' = head /\ spool' = spool /\ op' = op /\ cert' = cert
      /\ ex' = [ex EXCEPT ![w] = Rest]
  BY DEF DeployUncertain, Unresolved, Leave
<1>4. PICK man \in {remote.man, ex[w].gen}, run \in {remote.run, ex[w].gen, 0} :
        remote' = [man |-> man, run |-> run]
  BY DEF DeployUncertain
<1>5. Owner(w)  BY <1>1, LiveHead
<1>6. ex[w].gen \in Gens /\ cert[ex[w].gen].state = "staged"  BY <1>1, <1>5 DEF Owner
<1>7. remote' \in Remotes /\ remote'.run \in {remote.run, ex[w].gen, 0}
  BY <1>2, <1>4, GuardJobAssumption DEF Remotes, Execs
<1>8. cert' \in [Gens -> Certs] /\ CertInv' /\ RemoteInv'
  BY <1>3, <1>6, <1>7, CertsKept
<1>9. Rest \in Execs /\ Rest.stage = "rest"  BY GuardJobAssumption DEF Rest, Execs, ExStages
<1> QED  BY <1>1, <1>2, <1>3, <1>7, <1>8, <1>9, LiveStep

\* The deployment is proved once more before its result counts.
LEMMA RecheckKeeps ==
  ASSUME JobInv, Prompt = TRUE, NEW w \in Workers, NEW alive \in Probes,
         Recheck(w, alive)
  PROVE  JobInv'
<1> USE DEF JobInv
<1> DEFINE gs == Candidates(w, ex[w].attempt, {"staged", "active"})
           c == Cancelled(w)
           r == [ex[w] EXCEPT !.gen = remote.man, !.stage = IF c THEN "revoke" ELSE "save",
                              !.cancel = c, !.error = IF c THEN "cancel" ELSE "none"]
           x == ex[w].gen
<1>1. Live(w) /\ ex[w].stage = "recheck"  BY AtIsLive DEF Recheck, ExStages
<1>2. ex[w] \in Execs /\ remote \in Remotes /\ spool \in [Jobs -> BOOLEAN]  BY DEF JobTypeOK
<1>3. head' = head /\ remote' = remote /\ spool' = spool /\ op' = op  BY DEF Recheck
<1>4. /\ ex[w].job \in Jobs /\ Owner(w) /\ (c <=> head[ex[w].job].state = "cancelling")
  BY <1>1, LiveHead
<1>5. Holds(w, {"active"}) /\ ex[w].attempt = head[ex[w].job].attempt  BY <1>1, <1>4 DEF Owner
<1>6. remote' \in Remotes /\ spool' \in [Jobs -> BOOLEAN]  BY <1>2, <1>3
<1>7. CASE Reconciled(gs, alive) = "committed"
  <2>1. ex' = [ex EXCEPT ![w] = r] /\ cert' = cert  BY <1>7 DEF Recheck
  <2>2. c \in BOOLEAN  BY DEF Cancelled
  <2> HIDE DEF c
  <2>3. /\ r \in Execs /\ r.stage = (IF c THEN "revoke" ELSE "save") /\ r.job = ex[w].job
        /\ r.epoch = ex[w].epoch /\ r.attempt = ex[w].attempt /\ r.gen = remote.man
        /\ r.cancel = c /\ r.error = (IF c THEN "cancel" ELSE "none")
    BY <1>2, <2>2 DEF Execs, ExStages, Remotes
  <2> HIDE DEF r
  <2>4. cert' \in [Gens -> Certs] /\ CertInv' /\ RemoteInv'  BY <1>3, <1>6, <2>1, CertsKept
  <2>5. ex'[w] = r  BY <2>1 DEF JobTypeOK
  <2>6. Holds(w, {"active"})'  BY <1>3, <1>5, <2>1, <2>3, <2>5 DEF Holds
  <2>7. Holds(w, {"staged", "active", "revoked"})'  BY <2>6 DEF Holds
  <2>8. CASE c
    <3>1. Owner(w)'  BY <1>3, <1>4, <1>5, <2>3, <2>5, <2>7, <2>8 DEF Owner, MayRevoke
    <3> QED  BY <1>1, <1>3, <1>6, <2>1, <2>3, <2>4, <3>1, LiveStep
  <2>9. CASE ~c
    <3>1. Owner(w)'  BY <1>3, <1>4, <1>5, <2>3, <2>5, <2>6, <2>9 DEF Owner
    <3> QED  BY <1>1, <1>3, <1>6, <2>1, <2>3, <2>4, <3>1, LiveStep
  <2> QED  BY <2>8, <2>9
<1>8. CASE Reconciled(gs, alive) # "committed"
  <2>1. /\ ex' = [ex EXCEPT ![w] = Rest]
        /\ cert' = IF Owned(w) THEN [cert EXCEPT ![x] = AbortedCert(@)] ELSE cert
    BY <1>8 DEF Recheck, Leave
  <2>2. AbortedCert(cert[x]) = cert[x]  BY <1>5 DEF Holds, AbortedCert
  <2>3. cert' = cert  BY <2>1, <2>2 DEF JobTypeOK
  <2>4. cert' \in [Gens -> Certs] /\ CertInv' /\ RemoteInv'  BY <1>3, <1>6, <2>3, CertsKept
  <2>5. Rest \in Execs /\ Rest.stage = "rest"  BY GuardJobAssumption DEF Rest, Execs, ExStages
  <2> QED  BY <1>1, <1>3, <1>6, <2>1, <2>4, <2>5, LiveStep
<1> QED  BY <1>7, <1>8

\* The result is stored.
LEMMA SaveKeeps ==
  ASSUME JobInv, Prompt = TRUE, NEW w \in Workers, Save(w)
  PROVE  JobInv'
<1> USE DEF JobInv
<1> DEFINE r == [ex[w] EXCEPT !.stage = "forward"]
<1>1. Live(w) /\ ex[w].stage = "save"  BY AtIsLive DEF Save, ExStages
<1>2. ex[w] \in Execs /\ remote \in Remotes  BY DEF JobTypeOK
<1>3. /\ head' = head /\ cert' = cert /\ remote' = remote /\ op' = op /\ ex' = [ex EXCEPT ![w] = r]
      /\ spool' = [spool EXCEPT ![ex[w].job] = TRUE]
  BY DEF Save, Go
<1>4. Owner(w)  BY <1>1, LiveHead
<1>5. /\ r \in Execs /\ r.stage = "forward" /\ r.job = ex[w].job /\ r.epoch = ex[w].epoch
      /\ r.attempt = ex[w].attempt /\ r.gen = ex[w].gen /\ r.cancel = ex[w].cancel
  BY <1>2 DEF Execs, ExStages
<1> HIDE DEF r
<1>6. remote' \in Remotes /\ spool' \in [Jobs -> BOOLEAN]  BY <1>2, <1>3 DEF JobTypeOK
<1>7. cert' \in [Gens -> Certs] /\ CertInv' /\ RemoteInv'  BY <1>3, <1>6, CertsKept
<1>8. ex'[w] = r  BY <1>3 DEF JobTypeOK
<1>9. Owner(w)'  BY <1>1, <1>3, <1>4, <1>5, <1>8 DEF Owner, Holds
<1> QED  BY <1>1, <1>3, <1>5, <1>6, <1>7, <1>9, LiveStep

\* Without a stored result the last attempt takes its deployment down, an earlier
\* one leaves it loose.
LEMMA SaveFailsKeeps ==
  ASSUME JobInv, Prompt = TRUE, NEW w \in Workers, NEW error \in Errors,
         SaveFails(w, error)
  PROVE  JobInv'
<1> USE DEF JobInv
<1> DEFINE last == ex[w].attempt >= MaxAttempts
           s == IF last THEN "revoke" ELSE "finish"
           r == [ex[w] EXCEPT !.error = error, !.loose = ~last, !.stage = s]
<1>1. Live(w) /\ ex[w].stage = "save"  BY AtIsLive DEF SaveFails, ExStages
<1>2. ex[w] \in Execs /\ remote \in Remotes /\ spool \in [Jobs -> BOOLEAN]  BY DEF JobTypeOK
<1>3. /\ head' = head /\ cert' = cert /\ remote' = remote /\ op' = op /\ spool' = spool
      /\ ex' = [ex EXCEPT ![w] = r]
  BY DEF SaveFails
<1>4. Owner(w)  BY <1>1, LiveHead
<1>5. s \in {"revoke", "finish"} /\ last \in BOOLEAN  OBVIOUS
<1>6. ex[w].attempt \in Nat /\ MaxAttempts \in Nat  BY <1>2, GuardJobAssumption DEF Execs
<1>7. /\ s = "revoke" => ex[w].attempt >= MaxAttempts
      /\ s = "finish" => ~last
  BY <1>6
<1> HIDE DEF s, last
<1>8. /\ r \in Execs /\ r.stage = s /\ r.job = ex[w].job /\ r.epoch = ex[w].epoch
      /\ r.attempt = ex[w].attempt /\ r.gen = ex[w].gen /\ r.cancel = ex[w].cancel
      /\ r.error # "none" /\ r.loose = ~last
  BY <1>2, <1>5 DEF Execs, ExStages, Errors
<1> HIDE DEF r
<1>9. remote' \in Remotes /\ spool' \in [Jobs -> BOOLEAN]  BY <1>2, <1>3
<1>10. cert' \in [Gens -> Certs] /\ CertInv' /\ RemoteInv'  BY <1>3, <1>9, CertsKept
<1>11. ex'[w] = r  BY <1>3 DEF JobTypeOK
<1>12. Holds(w, {"active"})' /\ Holds(w, {"staged", "active", "revoked"})'
  BY <1>1, <1>3, <1>4, <1>8, <1>11 DEF Owner, Holds
<1>13. CASE s = "revoke"
  <2>1. Owner(w)'  BY <1>3, <1>4, <1>7, <1>8, <1>11, <1>12, <1>13 DEF Owner, MayRevoke
  <2> QED  BY <1>1, <1>3, <1>8, <1>9, <1>10, <2>1, LiveStep
<1>14. CASE s = "finish"
  <2>1. Owner(w)'  BY <1>3, <1>4, <1>7, <1>8, <1>11, <1>12, <1>14 DEF Owner
  <2> QED  BY <1>1, <1>3, <1>8, <1>9, <1>10, <2>1, LiveStep
<1> QED  BY <1>5, <1>13, <1>14

\* The head is read once more: a cancellation seen now is compensated.
LEMMA ForwardKeeps ==
  ASSUME JobInv, Prompt = TRUE, NEW w \in Workers, Forward(w)
  PROVE  JobInv'
<1> USE DEF JobInv
<1> DEFINE c == Cancelled(w)
           r == [ex[w] EXCEPT !.stage = IF c THEN "revoke" ELSE "finish", !.cancel = c,
                              !.error = IF c THEN "cancel" ELSE "none"]
<1>1. Live(w) /\ ex[w].stage = "forward"  BY AtIsLive DEF Forward, ExStages
<1>2. ex[w] \in Execs /\ remote \in Remotes /\ spool \in [Jobs -> BOOLEAN]  BY DEF JobTypeOK
<1>3. /\ head' = head /\ cert' = cert /\ remote' = remote /\ spool' = spool /\ op' = op
      /\ ex' = [ex EXCEPT ![w] = r]
  BY DEF Forward
<1>4. Owner(w) /\ (c <=> head[ex[w].job].state = "cancelling")  BY <1>1, LiveHead
<1>5. c \in BOOLEAN  BY DEF Cancelled
<1> HIDE DEF c
<1>6. /\ r \in Execs /\ r.stage = (IF c THEN "revoke" ELSE "finish") /\ r.job = ex[w].job
      /\ r.epoch = ex[w].epoch /\ r.attempt = ex[w].attempt /\ r.gen = ex[w].gen
      /\ r.cancel = c /\ r.error = (IF c THEN "cancel" ELSE "none")
  BY <1>2, <1>5 DEF Execs, ExStages
<1> HIDE DEF r
<1>7. remote' \in Remotes /\ spool' \in [Jobs -> BOOLEAN]  BY <1>2, <1>3
<1>8. cert' \in [Gens -> Certs] /\ CertInv' /\ RemoteInv'  BY <1>3, <1>7, CertsKept
<1>9. ex'[w] = r  BY <1>3 DEF JobTypeOK
<1>10. Holds(w, {"active"})' /\ Holds(w, {"staged", "active", "revoked"})'
  BY <1>1, <1>3, <1>4, <1>6, <1>9 DEF Owner, Holds
<1>11. CASE c
  <2>1. Owner(w)'  BY <1>3, <1>4, <1>6, <1>9, <1>10, <1>11 DEF Owner, MayRevoke
  <2> QED  BY <1>1, <1>3, <1>6, <1>7, <1>8, <2>1, LiveStep
<1>12. CASE ~c
  <2>1. Owner(w)'  BY <1>3, <1>4, <1>6, <1>9, <1>10, <1>12 DEF Owner
  <2> QED  BY <1>1, <1>3, <1>6, <1>7, <1>8, <2>1, LiveStep
<1> QED  BY <1>11, <1>12

\* A head that cannot be read leaves the deployment as it was proved.
LEMMA ForwardFailsKeeps ==
  ASSUME JobInv, Prompt = TRUE, NEW w \in Workers, ForwardFails(w)
  PROVE  JobInv'
<1> USE DEF JobInv
<1> DEFINE r == [ex[w] EXCEPT !.stage = "finish", !.error = "fatal", !.loose = TRUE]
<1>1. Live(w) /\ ex[w].stage = "forward"  BY AtIsLive DEF ForwardFails, ExStages
<1>2. ex[w] \in Execs  BY DEF JobTypeOK
<1>3. /\ r \in Execs /\ r.stage = "finish" /\ r.job = ex[w].job /\ r.epoch = ex[w].epoch
      /\ r.attempt = ex[w].attempt /\ r.gen = ex[w].gen /\ r.cancel = ex[w].cancel
      /\ r.error # "none" /\ r.loose = TRUE
  BY <1>2 DEF Execs, ExStages
<1>4. /\ ex' = [ex EXCEPT ![w] = r] /\ head' = head /\ cert' = cert /\ remote' = remote
      /\ spool' = spool /\ op' = op
  BY DEF ForwardFails
<1>5. remote' \in Remotes /\ spool' \in [Jobs -> BOOLEAN]  BY <1>4 DEF JobTypeOK
<1>6. cert' \in [Gens -> Certs] /\ CertInv' /\ RemoteInv'  BY <1>4, <1>5, CertsKept
<1>7. Owner(w)  BY <1>1 DEF OwnerInv
<1>8. ex'[w] = r  BY <1>4 DEF JobTypeOK
<1> HIDE DEF r
<1>9. Holds(w, {"active"})'  BY <1>1, <1>3, <1>4, <1>7, <1>8 DEF Owner, Holds
<1>10. Owner(w)'  BY <1>3, <1>4, <1>7, <1>8, <1>9 DEF Owner
<1> QED  BY <1>1, <1>3, <1>4, <1>5, <1>6, <1>10, LiveStep

\* The generation that was proved is revoked: the job stages none again.
LEMMA CompensateRevokeKeeps ==
  ASSUME JobInv, Prompt = TRUE, NEW w \in Workers, CompensateRevoke(w)
  PROVE  JobInv'
<1> USE DEF JobInv
<1> DEFINE r == [ex[w] EXCEPT !.stage = "stop"]
           x == ex[w].gen
<1>1. Live(w) /\ ex[w].stage = "revoke"  BY AtIsLive DEF CompensateRevoke, ExStages
<1>2. ex[w] \in Execs /\ remote \in Remotes /\ spool \in [Jobs -> BOOLEAN]  BY DEF JobTypeOK
<1>3. /\ head' = head /\ remote' = remote /\ spool' = spool /\ op' = op /\ ex' = [ex EXCEPT ![w] = r]
      /\ cert' = [cert EXCEPT ![x] = RevokedCert(@)]
  BY DEF CompensateRevoke, Go
<1>4. /\ ex[w].job \in Jobs /\ Owner(w) /\ head[ex[w].job].state \in Active
  BY <1>1, LiveHead
<1>5. /\ Holds(w, {"staged", "active", "revoked"}) /\ ex[w].error # "none" /\ MayRevoke(w)
      /\ ex[w].attempt = head[ex[w].job].attempt
  BY <1>1, <1>4 DEF Owner
<1>6. /\ r \in Execs /\ r.stage = "stop" /\ r.job = ex[w].job /\ r.epoch = ex[w].epoch
      /\ r.attempt = ex[w].attempt /\ r.gen = x /\ r.cancel = ex[w].cancel
      /\ r.error = ex[w].error
  BY <1>2 DEF Execs, ExStages
<1> HIDE DEF r
<1>7. remote' \in Remotes /\ spool' \in [Jobs -> BOOLEAN]  BY <1>2, <1>3
<1>8. /\ x \in Gens /\ cert[x].job = ex[w].job
      /\ cert[x].state \in {"staged", "active", "revoked"}
  BY <1>5 DEF Holds
<1>9. /\ head[ex[w].job].state \notin Queued
      /\ head[ex[w].job].state = "running" => head[ex[w].job].attempt >= MaxAttempts
  BY <1>4, <1>5 DEF Active, Queued, MayRevoke
<1>10. /\ cert' \in [Gens -> Certs] /\ CertInv' /\ RemoteInv'
       /\ cert'[x].job = ex[w].job /\ cert'[x].state = "revoked"
  BY <1>3, <1>4, <1>8, <1>9, CertsRevoked
<1>11. ex'[w] = r  BY <1>3 DEF JobTypeOK
<1>12. Holds(w, {"revoked"})'  BY <1>3, <1>5, <1>6, <1>10, <1>11 DEF Holds
<1>13. Owner(w)'  BY <1>3, <1>4, <1>5, <1>6, <1>11, <1>12 DEF Owner, MayRevoke
<1> QED  BY <1>1, <1>3, <1>6, <1>7, <1>10, <1>13, LiveStep

\* The manifest is still the one that was proved, so the deployment goes.
LEMMA CompensateStopKeeps ==
  ASSUME JobInv, Prompt = TRUE, NEW w \in Workers, CompensateStop(w)
  PROVE  JobInv'
<1> USE DEF JobInv
<1> DEFINE r == [ex[w] EXCEPT !.stage = "finish", !.gen = 0]
<1>1. Live(w) /\ ex[w].stage = "stop"  BY AtIsLive DEF CompensateStop, ExStages
<1>2. ex[w] \in Execs /\ spool \in [Jobs -> BOOLEAN]  BY DEF JobTypeOK
<1>3. ex[w].job \in Jobs /\ Owner(w)  BY <1>1, LiveHead
<1>4. PICK j \in Jobs : j = ex[w].job  BY <1>3
<1>5. /\ Holds(w, {"revoked"}) /\ ex[w].error # "none" /\ ex[w].attempt = head[j].attempt
      /\ ex[w].cancel = TRUE => head[j].state = "cancelling"
  BY <1>1, <1>3, <1>4 DEF Owner
<1>6. Expected(w)  BY <1>5 DEF Holds, Expected
<1>7. /\ head' = head /\ cert' = cert /\ spool' = spool /\ op' = op
      /\ remote' = [man |-> 0, run |-> 0] /\ ex' = [ex EXCEPT ![w] = r]
  BY <1>6 DEF CompensateStop
<1>8. 0 \in 0 .. MaxGen  BY GuardJobAssumption
<1>9. /\ r \in Execs /\ r.stage = "finish" /\ r.job = ex[w].job /\ r.epoch = ex[w].epoch
      /\ r.attempt = ex[w].attempt /\ r.gen = 0 /\ r.cancel = ex[w].cancel
      /\ r.error = ex[w].error
  BY <1>2, <1>8 DEF Execs, ExStages
<1> HIDE DEF r
<1>10. remote' \in Remotes /\ remote'.run = 0 /\ spool' \in [Jobs -> BOOLEAN]
  BY <1>2, <1>7, <1>8 DEF Remotes
<1>11. cert' \in [Gens -> Certs] /\ CertInv' /\ RemoteInv'  BY <1>7, <1>10, CertsKept
<1>12. ex'[w] = r  BY <1>7 DEF JobTypeOK
<1>13. Marked(j)  BY <1>4, <1>5 DEF Holds, Marked
<1>14. LiveGens(j) = {}  BY <1>13 DEF CertInv, CertOf
<1>15. 0 \notin Gens  BY GuardJobAssumption DEF Gens
<1>16. Gone(j)'  BY <1>7, <1>10, <1>14, <1>15 DEF Gone, GensOf, LiveGens
<1>17. Owner(w)'  BY <1>4, <1>5, <1>7, <1>9, <1>12, <1>16 DEF Owner
<1> QED  BY <1>1, <1>7, <1>9, <1>10, <1>11, <1>17, LiveStep

\* A compensation that fails stays pending, whether or not the teardown took effect.
LEMMA CompensateFailsKeeps ==
  ASSUME JobInv, Prompt = TRUE, NEW w \in Workers, CompensateFails(w)
  PROVE  JobInv'
<1> USE DEF JobInv
<1>1. Live(w)  BY AtIsLive DEF CompensateFails, ExStages
<1>2. /\ head' = head /\ cert' = cert /\ spool' = spool /\ op' = op
      /\ ex' = [ex EXCEPT ![w] = Rest]
      /\ remote' = remote \/ remote' = [man |-> 0, run |-> 0]
  BY DEF CompensateFails, Unresolved, Leave
<1>3. 0 \in 0 .. MaxGen  BY GuardJobAssumption
<1>4. remote' \in Remotes /\ remote'.run \in {remote.run, 0} /\ spool' \in [Jobs -> BOOLEAN]
  BY <1>2, <1>3 DEF Remotes, JobTypeOK
<1>5. cert' \in [Gens -> Certs] /\ CertInv' /\ RemoteInv'  BY <1>2, <1>4, CertsKept
<1>6. Rest \in Execs /\ Rest.stage = "rest"  BY GuardJobAssumption DEF Rest, Execs, ExStages
<1> QED  BY <1>1, <1>2, <1>4, <1>5, <1>6, LiveStep

\* A cancellation seen at the very end sends the execution back to compensate.
LEMMA FinishCancelledKeeps ==
  ASSUME JobInv, Prompt = TRUE, NEW w \in Workers, FinishCancelled(w)
  PROVE  JobInv'
<1> USE DEF JobInv
<1> DEFINE r == [ex[w] EXCEPT !.stage = "revoke", !.cancel = TRUE, !.error = "cancel",
                              !.loose = FALSE]
<1>1. Live(w) /\ ex[w].stage = "finish" /\ Cancelled(w) /\ ex[w].gen # 0
  BY DEF FinishCancelled, At, Live
<1>2. ex[w] \in Execs /\ remote \in Remotes /\ spool \in [Jobs -> BOOLEAN]  BY DEF JobTypeOK
<1>3. /\ head' = head /\ cert' = cert /\ remote' = remote /\ spool' = spool /\ op' = op
      /\ ex' = [ex EXCEPT ![w] = r]
  BY DEF FinishCancelled
<1>4. Owner(w) /\ head[ex[w].job].state = "cancelling"  BY <1>1, LiveHead
<1>5. Holds(w, {"active"}) /\ ex[w].attempt = head[ex[w].job].attempt  BY <1>1, <1>4 DEF Owner
<1>6. /\ r \in Execs /\ r.stage = "revoke" /\ r.job = ex[w].job /\ r.epoch = ex[w].epoch
      /\ r.attempt = ex[w].attempt /\ r.gen = ex[w].gen /\ r.cancel = TRUE /\ r.error = "cancel"
  BY <1>2 DEF Execs, ExStages
<1> HIDE DEF r
<1>7. remote' \in Remotes /\ spool' \in [Jobs -> BOOLEAN]  BY <1>2, <1>3
<1>8. cert' \in [Gens -> Certs] /\ CertInv' /\ RemoteInv'  BY <1>3, <1>7, CertsKept
<1>9. ex'[w] = r  BY <1>3 DEF JobTypeOK
<1>10. Holds(w, {"staged", "active", "revoked"})'  BY <1>3, <1>5, <1>6, <1>9 DEF Holds
<1>11. Owner(w)'  BY <1>3, <1>4, <1>5, <1>6, <1>9, <1>10 DEF Owner, MayRevoke
<1> QED  BY <1>1, <1>3, <1>6, <1>7, <1>8, <1>11, LiveStep

\* What is true when the owner records the outcome: a success holds its deployment,
\* a job that is given up left nothing unless it was left loose, one that is tried
\* again revoked nothing.
LEMMA OutcomeIsTrue ==
  ASSUME JobInv, NEW w \in Workers, At(w, "finish"), OwnRow(w), ~(Cancelled(w) /\ ex[w].gen # 0)
  PROVE  /\ Live(w) /\ Terminal(w) \in {"cancelled", "succeeded", "retrying", "failed"}
         /\ Terminal(w) = "succeeded" => Holds(w, {"active"})
         /\ Terminal(w) \in {"failed", "cancelled"} => Gone(ex[w].job) \/ ex[w].loose = TRUE
         /\ Terminal(w) = "retrying" => ~Marked(ex[w].job)
<1> USE DEF JobInv
<1>1. Live(w) /\ ex[w].stage = "finish"  BY DEF At, Live
<1>2. /\ ex[w].job \in Jobs /\ Owner(w) /\ head[ex[w].job].state \in Active
      /\ Cancelled(w) <=> head[ex[w].job].state = "cancelling"
      /\ head[ex[w].job].attempt \in Nat
  BY <1>1, LiveHead
<1>3. ex[w] \in Execs  BY DEF JobTypeOK
<1>4. \/ Holds(w, {"active"}) /\ ex[w].error = "none"
      \/ ex[w].loose = TRUE /\ ex[w].error # "none"
      \/ ex[w].gen = 0 /\ ex[w].error # "none" /\ Gone(ex[w].job)
  BY <1>1, <1>2 DEF Owner
<1>5. 0 \notin Gens  BY GuardJobAssumption DEF Gens
<1>6. Holds(w, {"active"}) => ex[w].gen # 0  BY <1>5 DEF Holds
<1>7. CASE Cancelled(w)
  <2>1. Terminal(w) = "cancelled"  BY <1>7 DEF Terminal
  <2>2. Gone(ex[w].job) \/ ex[w].loose = TRUE  BY <1>4, <1>6, <1>7
  <2> QED  BY <1>1, <2>1, <2>2
<1>8. CASE ~Cancelled(w) /\ ex[w].error = "none"
  <2>1. Terminal(w) = "succeeded"  BY <1>8 DEF Terminal
  <2>2. Holds(w, {"active"})  BY <1>4, <1>8
  <2> QED  BY <1>1, <2>1, <2>2
<1>9. CASE ~Cancelled(w) /\ ex[w].error = "retry" /\ ex[w].attempt < MaxAttempts
  <2>1. Terminal(w) = "retrying"  BY <1>9 DEF Terminal
  <2>2. head[ex[w].job].state = "running"  BY <1>2, <1>9 DEF Active
  <2>3. ex[w].attempt = head[ex[w].job].attempt  BY <1>2 DEF Owner
  <2>4. Marked(ex[w].job) => head[ex[w].job].attempt >= MaxAttempts
    BY <1>2, <2>2 DEF CertInv, CertOf
  <2>5. ~Marked(ex[w].job)  BY <1>2, <1>9, <2>3, <2>4, GuardJobAssumption
  <2> QED  BY <1>1, <2>1, <2>5
<1>10. CASE ~Cancelled(w) /\ ex[w].error # "none" /\ ~(ex[w].error = "retry" /\ ex[w].attempt < MaxAttempts)
  <2>1. Terminal(w) = "failed"  BY <1>10 DEF Terminal
  <2>2. Gone(ex[w].job) \/ ex[w].loose = TRUE  BY <1>4, <1>10
  <2> QED  BY <1>1, <2>1, <2>2
<1> QED  BY <1>7, <1>8, <1>9, <1>10

\* The lease ends with the recorded outcome: nobody is live afterwards.
LEMMA CompleteKeeps ==
  ASSUME JobInv, NEW w \in Workers, Complete(w)
  PROVE  JobInv'
<1> USE DEF JobInv
<1> DEFINE j == ex[w].job
           hd == [head[j] EXCEPT !.state = Terminal(w), !.leased = FALSE]
<1>1. /\ Live(w) /\ Terminal(w) \in {"cancelled", "succeeded", "retrying", "failed"}
      /\ Terminal(w) = "retrying" => ~Marked(j)
  BY OutcomeIsTrue DEF Complete
<1>2. /\ head' = [head EXCEPT ![j] = hd] /\ ex' = [ex EXCEPT ![w] = Rest]
      /\ spool' = [spool EXCEPT ![j] = spool[j] /\ Terminal(w) = "retrying"]
      /\ cert' = cert /\ remote' = remote /\ op' = op
  BY DEF Complete, Leave
<1>3. j \in Jobs  BY <1>1, LiveHead
<1>4. head[j] \in Heads /\ remote \in Remotes  BY <1>3 DEF JobTypeOK
<1>5. /\ hd \in Heads /\ hd.state = Terminal(w) /\ hd.leased = FALSE /\ hd.attempt = head[j].attempt
      /\ hd.epoch = head[j].epoch
  BY <1>1, <1>4 DEF Heads, HeadStates
<1> HIDE DEF hd
<1>6. head' \in [Jobs -> Heads]  BY <1>2, <1>3, <1>5 DEF JobTypeOK
<1>7. Rest \in Execs /\ Rest.stage = "rest"  BY GuardJobAssumption DEF Rest, Execs, ExStages
<1>8. spool' \in [Jobs -> BOOLEAN]
  <2>1. (spool[j] /\ Terminal(w) = "retrying") \in BOOLEAN  OBVIOUS
  <2> QED  BY <1>2, <2>1 DEF JobTypeOK
<1>9. JobTypeOK'  BY <1>2, <1>6, <1>7, <1>8 DEF JobTypeOK
<1>10. head'[j] = hd /\ \A k \in Jobs : k # j => head'[k] = head[k]  BY <1>2, <1>3 DEF JobTypeOK
<1>11. ex'[w] = Rest /\ \A v \in Workers : v # w => ex'[v] = ex[v]  BY <1>2 DEF JobTypeOK
<1>12. head[j].leased = TRUE  BY <1>1, LiveHead
<1>13. \A k \in Jobs : head'[k].leased = FALSE
  BY <1>3, <1>5, <1>10, <1>12 DEF LeaseInv, JobTypeOK, Heads
<1>14. LeaseInv'  BY <1>1, <1>2, <1>5, <1>10, <1>13 DEF LeaseInv, Active
<1>15. EpochInv'
  <2>1. \A k \in Jobs : head'[k].epoch = head[k].epoch  BY <1>5, <1>10
  <2>2. \A v \in Workers : ex'[v].stage # "rest" => ex'[v] = ex[v]  BY <1>7, <1>11
  <2> QED  BY <2>1, <2>2 DEF EpochInv
<1>16. CertInv'
  <2> SUFFICES ASSUME NEW k \in Jobs PROVE CertOf(k)'  BY DEF CertInv
  <2>1. CertOf(k)  BY DEF CertInv
  <2>2. LiveGens(k)' = LiveGens(k) /\ (Marked(k)' <=> Marked(k))  BY <1>2 DEF LiveGens, Marked
  <2>3. CASE k = j
    <3>1. Marked(k) => head'[k].state \notin Queued /\ head'[k].state # "running"
      BY <1>1, <1>5, <1>10, <2>3 DEF Queued
    <3> QED  BY <1>2, <1>5, <1>10, <2>1, <2>2, <2>3, <3>1 DEF CertOf
  <2>4. CASE k # j  BY <2>1, <2>2, <2>4, <1>2, <1>10 DEF CertOf
  <2> QED  BY <2>3, <2>4
<1>17. RemoteInv'  BY <1>2 DEF RemoteInv
<1>18. OwnerInv'
  <2> SUFFICES ASSUME NEW v \in Workers, Live(v)' PROVE FALSE  BY DEF OwnerInv
  <2>1. ex'[v].stage # "rest" /\ head'[ex'[v].job].leased  BY DEF Live, OwnRow
  <2>2. ex'[v].job \in Jobs  BY <2>1, <1>15 DEF EpochInv
  <2> QED  BY <2>1, <2>2, <1>13
<1> QED  BY <1>9, <1>14, <1>15, <1>16, <1>17, <1>18

(***************************************************************************)
(* The other steps.                                                        *)
(***************************************************************************)
\* An execution whose lease expired is not live any more.
LEMMA ExpireLeaseKeeps ==
  ASSUME JobInv, NEW j \in Jobs, ExpireLease(j)
  PROVE  JobInv'
<1> USE DEF JobInv
<1> DEFINE hd == [head[j] EXCEPT !.leased = FALSE]
<1>1. /\ head' = [head EXCEPT ![j] = hd] /\ cert' = cert /\ remote' = remote /\ spool' = spool
      /\ ex' = ex /\ op' = op
  BY DEF ExpireLease
<1>2. head[j] \in Heads  BY DEF JobTypeOK
<1>3. /\ hd \in Heads /\ hd.state = head[j].state /\ hd.leased = FALSE
      /\ hd.attempt = head[j].attempt /\ hd.epoch = head[j].epoch
  BY <1>2 DEF Heads
<1> HIDE DEF hd
<1>4. head'[j] = hd /\ \A k \in Jobs : k # j => head'[k] = head[k]  BY <1>1 DEF JobTypeOK
<1>5. JobTypeOK'  BY <1>1, <1>3 DEF JobTypeOK
<1>6. \A k \in Jobs : /\ head'[k].state = head[k].state /\ head'[k].attempt = head[k].attempt
                      /\ head'[k].epoch = head[k].epoch
  BY <1>3, <1>4
<1>7. LeaseInv'
  <2>1. \A k \in Jobs : head'[k].leased = TRUE => k # j /\ head[k].leased = TRUE  BY <1>3, <1>4
  <2>2. \A k \in Jobs : head[k].leased = FALSE => head'[k].leased = FALSE  BY <1>3, <1>4
  <2> QED  BY <1>1, <1>6, <2>1, <2>2 DEF LeaseInv
<1>8. EpochInv'  BY <1>1, <1>6 DEF EpochInv
<1>9. CertInv'  BY <1>1, <1>6 DEF CertInv, CertOf, LiveGens, Marked
<1>10. RemoteInv'  BY <1>1 DEF RemoteInv
<1>11. OwnerInv'
  <2> SUFFICES ASSUME NEW v \in Workers, Live(v)' PROVE Owner(v)'  BY DEF OwnerInv
  <2>1. ex[v].job \in Jobs /\ head'[ex[v].job].leased /\ ex[v].stage # "rest"
    BY <1>1, <1>8 DEF Live, OwnRow, EpochInv
  <2>2. ex[v].job # j  BY <1>3, <1>4, <2>1
  <2>3. head'[ex[v].job] = head[ex[v].job]  BY <1>4, <2>1, <2>2
  <2>4. Live(v)  BY <1>1, <2>3 DEF Live, OwnRow
  <2>5. Owner(v)  BY <2>4 DEF OwnerInv
  <2> QED  BY <1>1, <2>3, <2>5, OwnerStays
<1> QED  BY <1>5, <1>7, <1>8, <1>9, <1>10, <1>11

\* A cancellation takes nothing from what the owner knows.
LEMMA RequestCancelKeeps ==
  ASSUME JobInv, NEW j \in Jobs, RequestCancel(j)
  PROVE  JobInv'
<1> USE DEF JobInv
<1> DEFINE st == IF head[j].state \in Queued THEN "cancelled" ELSE "cancelling"
           hd == [head[j] EXCEPT !.state = st]
<1>1. /\ head' = [head EXCEPT ![j] = hd] /\ cert' = cert /\ remote' = remote /\ spool' = spool
      /\ ex' = ex /\ op' = op /\ head[j].state \in Queued \union {"running"}
  BY DEF RequestCancel
<1>2. head[j] \in Heads  BY DEF JobTypeOK
<1>3. st \in {"cancelled", "cancelling"} /\ (head[j].state = "running" => st = "cancelling")
      /\ (st = "cancelling" => head[j].state = "running")
  BY <1>1 DEF Queued
<1> HIDE DEF st
<1>4. /\ hd \in Heads /\ hd.state = st /\ hd.leased = head[j].leased
      /\ hd.attempt = head[j].attempt /\ hd.epoch = head[j].epoch
  BY <1>2, <1>3 DEF Heads, HeadStates
<1> HIDE DEF hd
<1>5. head'[j] = hd /\ \A k \in Jobs : k # j => head'[k] = head[k]  BY <1>1 DEF JobTypeOK
<1>6. JobTypeOK'  BY <1>1, <1>4 DEF JobTypeOK
<1>7. \A k \in Jobs : /\ head'[k].leased = head[k].leased /\ head'[k].attempt = head[k].attempt
                      /\ head'[k].epoch = head[k].epoch
  BY <1>4, <1>5
<1>8. LeaseInv'
  <2>1. head[j].leased = TRUE => st = "cancelling"  BY <1>1, <1>3 DEF LeaseInv, Active, Queued
  <2>2. st \in Active => head[j].state \in Active  BY <1>3 DEF Active
  <2>3. \A k \in Jobs : head[k].leased = TRUE => head'[k].state \in Active
    BY <1>4, <1>5, <2>1 DEF LeaseInv, Active
  <2>4. \A k \in Jobs : head'[k].state \in Active => head[k].state \in Active  BY <1>4, <1>5, <2>2
  <2> QED  BY <1>1, <1>7, <2>3, <2>4 DEF LeaseInv
<1>9. EpochInv'  BY <1>1, <1>7 DEF EpochInv
<1>10. CertInv'
  <2> SUFFICES ASSUME NEW k \in Jobs PROVE CertOf(k)'  BY DEF CertInv
  <2>1. CertOf(k)  BY DEF CertInv
  <2>2. LiveGens(k)' = LiveGens(k) /\ (Marked(k)' <=> Marked(k))  BY <1>1 DEF LiveGens, Marked
  <2>3. CASE k = j
    <3>1. head'[k].state \notin Queued /\ head'[k].state # "running"
      BY <1>3, <1>4, <1>5, <2>3 DEF Queued
    <3> QED  BY <1>1, <1>7, <2>1, <2>2, <3>1 DEF CertOf
  <2>4. CASE k # j  BY <2>1, <2>2, <2>4, <1>1, <1>5 DEF CertOf
  <2> QED  BY <2>3, <2>4
<1>11. RemoteInv'  BY <1>1 DEF RemoteInv
<1>12. OwnerInv'
  <2> SUFFICES ASSUME NEW v \in Workers, Live(v)' PROVE Owner(v)'  BY DEF OwnerInv
  <2>1. ex[v].job \in Jobs /\ ex[v].stage # "rest"  BY <1>1, <1>9 DEF Live, EpochInv
  <2>2. Live(v)  BY <1>1, <1>7, <2>1 DEF Live, OwnRow
  <2>3. Owner(v) /\ head[ex[v].job].state \in Active  BY <2>2, LiveHead
  <2>4. CASE ex[v].job = j
    <3>1. head'[j].state = "cancelling" /\ head'[j].attempt = head[j].attempt
      BY <1>1, <1>3, <1>4, <1>5, <2>3, <2>4 DEF Active, Queued
    <3>2. Cancelled(v)'  BY <1>1, <2>4, <3>1 DEF Cancelled
    <3>3. MayRevoke(v)'  BY <1>1, <2>4, <3>1 DEF MayRevoke
    <3> QED  BY <1>1, <2>3, <2>4, <3>1, <3>2, <3>3, KnowledgeStays DEF Owner
  <2>5. CASE ex[v].job # j
    <3>1. head'[ex[v].job] = head[ex[v].job]  BY <1>5, <2>1, <2>5
    <3> QED  BY <1>1, <2>3, <3>1, OwnerStays
  <2> QED  BY <2>4, <2>5
<1> QED  BY <1>6, <1>8, <1>9, <1>10, <1>11, <1>12

\* A guard stop begins only without a lease, and fences every open head.
LEMMA BeginStopKeeps ==
  ASSUME JobInv, BeginStop
  PROVE  JobInv'
<1> USE DEF JobInv
<1> DEFINE up(k) == [head[k] EXCEPT !.epoch = @ + 1]
<1>1. /\ head' = [k \in Jobs |-> IF head[k].state \in Active THEN up(k) ELSE head[k]]
      /\ cert' = cert /\ remote' = remote /\ spool' = spool /\ ex' = ex /\ op' = "revoke"
      /\ \A k \in Jobs : ~head[k].leased
  BY DEF BeginStop
<1>2. ASSUME NEW k \in Jobs
      PROVE  /\ up(k) \in Heads /\ up(k).state = head[k].state /\ up(k).leased = head[k].leased
             /\ up(k).attempt = head[k].attempt /\ up(k).epoch = head[k].epoch + 1
             /\ head[k] \in Heads /\ head[k].epoch \in Nat
  <2>1. head[k] \in Heads  BY DEF JobTypeOK
  <2>2. head[k].epoch \in Nat /\ head[k].epoch + 1 \in Nat  BY <2>1 DEF Heads
  <2> QED  BY <2>1, <2>2 DEF Heads
<1>3. \A k \in Jobs : /\ head'[k] \in Heads /\ head'[k].state = head[k].state
                      /\ head'[k].leased = head[k].leased /\ head'[k].attempt = head[k].attempt
                      /\ head'[k].epoch \in {head[k].epoch, head[k].epoch + 1}
                      /\ head[k].epoch \in Nat
  <2> HIDE DEF up
  <2> QED  BY <1>1, <1>2
<1>4. JobTypeOK'
  <2>1. head' \in [Jobs -> Heads]  BY <1>1, <1>3
  <2> QED  BY <1>1, <2>1 DEF JobTypeOK
<1>5. \A k \in Jobs : head'[k].leased = FALSE  BY <1>1, <1>3 DEF Heads
<1>6. LeaseInv'  BY <1>3, <1>5 DEF LeaseInv
<1>7. EpochInv'
  <2>1. \A v \in Workers : ex[v].epoch \in Nat  BY DEF JobTypeOK, Execs
  <2>2. ASSUME NEW v \in Workers, ex[v].stage # "rest"
        PROVE  ex[v].job \in Jobs /\ ex[v].epoch <= head'[ex[v].job].epoch
    <3>1. ex[v].job \in Jobs /\ ex[v].epoch <= head[ex[v].job].epoch  BY <2>2 DEF EpochInv
    <3> QED  BY <3>1, <1>3, <2>1
  <2> QED  BY <1>1, <2>2 DEF EpochInv
<1>8. CertInv'  BY <1>1, <1>3 DEF CertInv, CertOf, LiveGens, Marked
<1>9. RemoteInv'  BY <1>1 DEF RemoteInv
<1>10. OwnerInv'
  <2> SUFFICES ASSUME NEW v \in Workers, Live(v)' PROVE FALSE  BY DEF OwnerInv
  <2> QED  BY <1>5, <1>7 DEF Live, OwnRow, EpochInv
<1> QED  BY <1>4, <1>6, <1>7, <1>8, <1>9, <1>10

\* The steps of a guard stop meet no live execution.
LEMMA StopKeeps ==
  ASSUME JobInv, NEW works \in BOOLEAN, StopRevokes(works) \/ StopRemoves(works)
  PROVE  JobInv'
<1> USE DEF JobInv
<1>1. head' = head /\ ex' = ex /\ spool' = spool /\ op # "none" /\ op' \in {"none", "stop"}
  BY DEF StopRevokes, StopRemoves
<1>2. \A k \in Jobs : head[k].leased = FALSE  BY <1>1 DEF LeaseInv
<1>3. remote \in Remotes /\ [man |-> 0, run |-> 0] \in Remotes
  <2>1. 0 \in 0 .. MaxGen  BY GuardJobAssumption
  <2> QED  BY <2>1 DEF JobTypeOK, Remotes
<1>4. cert' \in [Gens -> Certs] /\ CertInv' /\ RemoteInv' /\ remote' \in Remotes
  <2>1. CASE StopRevokes(works)
    <3>1. remote' = remote  BY <2>1 DEF StopRevokes
    <3>2. CASE works
      <4>1. cert' = [g \in Gens |-> IF cert[g].state \in {"absent", "revoked"} THEN cert[g]
                                    ELSE Unkeyed]
        BY <2>1, <3>2 DEF StopRevokes
      <4> QED  BY <1>1, <1>3, <3>1, <4>1, CertsStopped
    <3>3. CASE ~works
      <4>1. cert' = cert  BY <2>1, <3>3 DEF StopRevokes
      <4> QED  BY <1>1, <1>3, <3>1, <4>1, CertsKept
    <3> QED  BY <3>2, <3>3
  <2>2. CASE StopRemoves(works)
    <3>1. cert' = cert /\ (remote' = remote \/ remote' = [man |-> 0, run |-> 0])
      BY <2>2 DEF StopRemoves
    <3>2. remote' \in Remotes /\ remote'.run \in {remote.run, 0}  BY <1>3, <3>1
    <3> QED  BY <1>1, <3>1, <3>2, CertsKept
  <2> QED  BY <2>1, <2>2
<1>5. JobTypeOK'  BY <1>1, <1>4 DEF JobTypeOK
<1>6. LeaseInv'  BY <1>1, <1>2 DEF LeaseInv
<1>7. EpochInv'  BY <1>1 DEF EpochInv
<1>8. OwnerInv'
  <2> SUFFICES ASSUME NEW v \in Workers, Live(v)' PROVE FALSE  BY DEF OwnerInv
  <2> QED  BY <1>1, <1>2, <1>7 DEF Live, OwnRow, EpochInv
<1> QED  BY <1>4, <1>5, <1>6, <1>7, <1>8

\* A daemon that dies leaves the manifest.
LEMMA DaemonDiesKeeps ==
  ASSUME JobInv, DaemonDies
  PROVE  JobInv'
<1> USE DEF JobInv
<1>1. /\ head' = head /\ cert' = cert /\ spool' = spool /\ ex' = ex /\ op' = op
      /\ remote' = [remote EXCEPT !.run = 0]
  BY DEF DaemonDies
<1>2. remote' \in Remotes /\ remote'.run = 0 /\ remote'.man = remote.man
  <2>1. 0 \in 0 .. MaxGen /\ remote \in Remotes  BY GuardJobAssumption DEF JobTypeOK
  <2> QED  BY <1>1, <2>1 DEF Remotes
<1>3. cert' \in [Gens -> Certs] /\ CertInv' /\ RemoteInv'  BY <1>1, <1>2, CertsKept
<1>4. JobTypeOK' /\ LeaseInv' /\ EpochInv'  BY <1>1, <1>2 DEF JobTypeOK, LeaseInv, EpochInv
<1>5. 0 \notin Gens  BY GuardJobAssumption DEF Gens
<1>6. OwnerInv'
  <2> SUFFICES ASSUME NEW v \in Workers, Live(v)' PROVE Owner(v)'  BY DEF OwnerInv
  <2>1. Live(v)  BY <1>1 DEF Live, OwnRow
  <2>2. Owner(v)  BY <2>1 DEF OwnerInv
  <2>3. \A j : Gone(j) => Gone(j)'  BY <1>1, <1>2, <1>5 DEF Gone, GensOf
  <2>4. ASSUME NEW S, Holds(v, S) PROVE Holds(v, S)'  BY <1>1, <1>2, <2>4 DEF Holds
  <2>5. remote'.run \notin GensOf(ex[v].job)'  BY <1>2, <1>5 DEF GensOf
  <2> QED  BY <1>1, <2>2, <2>3, <2>4, <2>5 DEF Owner, Cancelled, Earlier, Marked, Exhausted,
                                               GensOf, Owned, MayRevoke
<1> QED  BY <1>3, <1>4, <1>6

LEMMA JobInvInit == JobInit => JobInv
<1> SUFFICES ASSUME JobInit PROVE JobInv  OBVIOUS
<1> USE DEF JobInit
<1>0. 0 \in 0 .. MaxGen /\ 1 \in 0 .. MaxGen /\ 1 \in Gens  BY GuardJobAssumption DEF Gens
<1>1. PICK old \in BOOLEAN :
        /\ cert = [g \in Gens |-> IF old /\ g = 1
                                    THEN [job |-> "none", attempt |-> 0, state |-> "active"]
                                    ELSE Free]
        /\ remote = IF old THEN [man |-> 1, run |-> 1] ELSE [man |-> 0, run |-> 0]
  OBVIOUS
<1>2. Rest \in Execs /\ Rest.stage = "rest"  BY <1>0 DEF Rest, Execs, ExStages
<1>3. cert \in [Gens -> Certs]  BY <1>1 DEF Free, Certs, CertStates
<1>4. remote \in Remotes  BY <1>0, <1>1 DEF Remotes
<1>5. head \in [Jobs -> Heads]  BY DEF Heads, HeadStates
<1>6. JobTypeOK  BY <1>2, <1>3, <1>4, <1>5 DEF JobTypeOK
<1>7. LeaseInv  BY DEF LeaseInv, Active
<1>8. EpochInv /\ OwnerInv  BY <1>2 DEF EpochInv, OwnerInv, Live
<1>9. \A g \in Gens : cert[g].job \notin Jobs  BY <1>1, GuardJobAssumption DEF Free
<1>10. CertInv  BY <1>9 DEF CertInv, CertOf, LiveGens, Marked
<1>11. RemoteInv
  <2>1. CASE old  BY <1>0, <1>1, <2>1 DEF RemoteInv
  <2>2. CASE ~old  BY <1>1, <2>2 DEF RemoteInv
  <2> QED  BY <2>1, <2>2
<1> QED  BY <1>6, <1>7, <1>8, <1>10, <1>11 DEF JobInv

LEMMA JobInvNext ==
  ASSUME Prompt = TRUE, JobInv, [JobNext]_jobVars
  PROVE  JobInv'
<1>1. ASSUME NEW w \in Workers, WorkerStep(w) PROVE JobInv'
  BY <1>1, ClaimKeeps, EndKeeps, LoadNothingKeeps, LoadCancelledKeeps, LoadStoredKeeps,
     CollectKeeps, StageGenerationKeeps, DeployCommitsKeeps, DeployRestoresKeeps,
     DeployUncertainKeeps, RecheckKeeps, SaveKeeps, SaveFailsKeeps, ForwardKeeps,
     ReadFailsKeeps, ForwardFailsKeeps, CompensateRevokeKeeps, CompensateStopKeeps, CompensateFailsKeeps, FinishCancelledKeeps,
     CompleteKeeps
     DEF WorkerStep
<1>2. CASE UNCHANGED jobVars
  <2>1. UNCHANGED <<head, cert, remote, spool, ex, op>>  BY <1>2 DEF jobVars
  <2>2. JobTypeOK' /\ LeaseInv' /\ EpochInv'  BY <2>1 DEF JobInv, JobTypeOK, LeaseInv, EpochInv
  <2>3. CertInv' /\ RemoteInv'
    BY <2>1 DEF JobInv, CertInv, CertOf, LiveGens, Marked, RemoteInv
  <2>4. ASSUME NEW v \in Workers, Live(v)'  PROVE Owner(v)'
    <3>1. Live(v)  BY <2>1, <2>4 DEF Live, OwnRow
    <3>2. Owner(v)  BY <3>1 DEF JobInv, OwnerInv
    <3> QED  BY <2>1, <3>2, OwnerStays
  <2> QED  BY <2>2, <2>3, <2>4 DEF JobInv, OwnerInv
<1>3. CASE JobNext
  BY <1>1, <1>3, ExpireLeaseKeeps, RequestCancelKeeps, BeginStopKeeps, StopKeeps, DaemonDiesKeeps
     DEF JobNext
<1> QED  BY <1>2, <1>3

\* At most one execution of the target is live, a job has at most one generation in
\* use and none beside a revoked one, and what the live execution proved about the
\* host and the certificates is still true at its next step.
THEOREM JobsHold == Prompt = TRUE /\ JobSpec => []JobInv
<1> SUFFICES ASSUME Prompt = TRUE PROVE JobSpec => []JobInv  OBVIOUS
<1>1. JobInv /\ [JobNext]_jobVars => JobInv'  BY JobInvNext
<1> QED  BY <1>1, JobInvInit, PTL DEF JobSpec

\* Only the owner's last step makes a job succeeded or failed.
LEMMA OnlyCompleteEnds ==
  ASSUME JobInv, [JobNext]_jobVars, NEW j \in Jobs, head'[j].state # head[j].state,
         \/ head'[j].state \in {"succeeded", "failed"}
         \/ head[j].leased = TRUE /\ head'[j].state = "cancelled"
  PROVE  \E w \in Workers : Complete(w) /\ ex[w].job = j /\ head'[j].state = Terminal(w)
<1> USE DEF JobInv
<1>0. head \in [Jobs -> Heads]  BY DEF JobTypeOK
<1>1. CASE head' = head  BY <1>1
<1>2. ASSUME NEW w \in Workers, NEW k \in Jobs, Claim(w, k) PROVE FALSE
  <2>1. \A i \in Jobs : i # k => head'[i] = head[i]  BY <1>0, <1>2 DEF Claim
  <2>2. head'[k].state \in {"running", "cancelling"}  BY <1>0, <1>2 DEF Claim
  <2> QED  BY <2>1, <2>2
<1>3. ASSUME NEW k \in Jobs, ExpireLease(k) PROVE FALSE
  <2>1. \A i \in Jobs : i # k => head'[i] = head[i]  BY <1>0, <1>3 DEF ExpireLease
  <2>2. head'[k] = [head[k] EXCEPT !.leased = FALSE]  BY <1>0, <1>3 DEF ExpireLease
  <2>3. head'[k].state = head[k].state  BY <1>0, <2>2 DEF Heads
  <2> QED  BY <2>1, <2>3
<1>4. ASSUME NEW k \in Jobs, RequestCancel(k) PROVE FALSE
  <2> DEFINE st == IF head[k].state \in Queued THEN "cancelled" ELSE "cancelling"
  <2>1. \A i \in Jobs : i # k => head'[i] = head[i]  BY <1>0, <1>4 DEF RequestCancel
  <2>2. head'[k] = [head[k] EXCEPT !.state = st]  BY <1>0, <1>4 DEF RequestCancel
  <2>3. st \in {"cancelled", "cancelling"} /\ (st = "cancelled" => head[k].state \in Queued)
    OBVIOUS
  <2> HIDE DEF st
  <2>4. head'[k].state = st  BY <1>0, <2>2 DEF Heads
  <2>5. j = k  BY <2>1
  <2>6. head[k].leased = TRUE => head[k].state \notin Queued  BY DEF LeaseInv, Active, Queued
  <2> QED  BY <2>3, <2>4, <2>5, <2>6
<1>5. ASSUME BeginStop PROVE FALSE
  <2>1. head'[j] = IF head[j].state \in Active THEN [head[j] EXCEPT !.epoch = @ + 1] ELSE head[j]
    BY <1>5 DEF BeginStop
  <2>2. head'[j].state = head[j].state  BY <1>0, <2>1 DEF Heads
  <2> QED  BY <2>2
<1>6. ASSUME NEW w \in Workers, Complete(w)
      PROVE  ex[w].job = j /\ head'[j].state = Terminal(w)
  <2> DEFINE hd == [head[ex[w].job] EXCEPT !.state = Terminal(w), !.leased = FALSE]
  <2>1. head' = [head EXCEPT ![ex[w].job] = hd]  BY <1>6 DEF Complete
  <2>2. ex[w].job = j  BY <1>0, <2>1
  <2>3. head'[j] = hd /\ head[j] \in Heads  BY <1>0, <2>1, <2>2
  <2> QED  BY <2>2, <2>3 DEF Heads
<1>7. CASE head' # head
  <2>1. JobNext  BY <1>7 DEF jobVars
  <2>2. ASSUME NEW w \in Workers, WorkerStep(w)
        PROVE  (\E k \in Jobs : Claim(w, k)) \/ Complete(w)
    <3>1. CASE CrashWorker(w) \/ ProofFails(w) \/ LoadNothing(w) \/ ForwardFails(w)
      BY <1>7, <3>1 DEF CrashWorker, ProofFails, LoadNothing, ForwardFails, Unresolved
    <3>2. ASSUME NEW alive \in Probes,
                 LoadCancelled(w, alive) \/ LoadStored(w, alive) \/ Collect(w, alive)
                   \/ Recheck(w, alive)
          PROVE  FALSE
      BY <1>7, <3>2 DEF LoadCancelled, LoadStored, Collect, Recheck
    <3>3. ASSUME NEW error \in Errors,
                 ReadFails(w, error) \/ DeployRestores(w, error) \/ SaveFails(w, error)
          PROVE  FALSE
      BY <1>7, <3>3 DEF ReadFails, DeployRestores, SaveFails
    <3>4. CASE StageGeneration(w) \/ DeployCommits(w) \/ DeployUncertain(w)
      BY <1>7, <3>4 DEF StageGeneration, DeployCommits, DeployUncertain, Unresolved
    <3>5. CASE Save(w) \/ Forward(w)  BY <1>7, <3>5 DEF Save, Forward
    <3>6. CASE CompensateRevoke(w)  BY <1>7, <3>6 DEF CompensateRevoke
    <3>7. CASE CompensateStop(w)  BY <1>7, <3>7 DEF CompensateStop
    <3>8. CASE CompensateFails(w)  BY <1>7, <3>8 DEF CompensateFails, Unresolved
    <3>9. CASE FinishCancelled(w)  BY <1>7, <3>9 DEF FinishCancelled
    <3>10. CASE Discarded(w)  BY <1>7, <3>10 DEF Discarded, Unresolved
    <3> QED
      BY <2>2, <3>1, <3>2, <3>3, <3>4, <3>5, <3>6, <3>7, <3>8, <3>9, <3>10, Zenon DEF WorkerStep
  <2>3. ASSUME NEW works \in BOOLEAN, StopRevokes(works) \/ StopRemoves(works)  PROVE FALSE
    BY <1>7, <2>3 DEF StopRevokes, StopRemoves
  <2>4. CASE DaemonDies  BY <1>7, <2>4 DEF DaemonDies
  <2> QED  BY <2>1, <2>2, <2>3, <2>4, <1>2, <1>3, <1>4, <1>5, <1>6 DEF JobNext
<1> QED  BY <1>1, <1>7

\* A Guard job is recorded as succeeded only while the manifest on the host names a
\* generation of this job that is the active one, for every number of jobs,
\* executions, attempts, generations and troubles.
THEOREM SuccessesAreDeployed == Prompt = TRUE /\ JobSpec => SucceededIsDeployed
<1> SUFFICES ASSUME Prompt = TRUE PROVE JobSpec => SucceededIsDeployed  OBVIOUS
<1>1. JobInv /\ [JobNext]_jobVars =>
        [\A j \in Jobs : head[j].state # "succeeded" /\ head'[j].state = "succeeded" =>
           remote.man \in GensOf(j) /\ cert[remote.man].state = "active"]_jobVars
  <2> SUFFICES ASSUME JobInv, [JobNext]_jobVars, NEW j \in Jobs, head[j].state # "succeeded",
                      head'[j].state = "succeeded"
               PROVE  remote.man \in GensOf(j) /\ cert[remote.man].state = "active"
    OBVIOUS
  <2>1. PICK w \in Workers : Complete(w) /\ ex[w].job = j /\ head'[j].state = Terminal(w)
    BY OnlyCompleteEnds
  <2>2. Holds(w, {"active"})  BY <2>1, OutcomeIsTrue DEF Complete
  <2> QED  BY <2>1, <2>2 DEF Holds, GensOf
<1> QED  BY <1>1, JobsHold, PTL DEF JobSpec, SucceededIsDeployed

\* A Guard job that its owner records as failed or cancelled leaves nothing of
\* itself: no generation of it is staged or active, and none of them runs.  Excepted
\* is an execution that ended in an error the code does not answer (LeftLoose).
THEOREM GivenUpAreTornDown == Prompt = TRUE /\ JobSpec => GivenUpIsTornDown
<1> SUFFICES ASSUME Prompt = TRUE PROVE JobSpec => GivenUpIsTornDown  OBVIOUS
<1>1. JobInv /\ [JobNext]_jobVars =>
        [\A j \in Jobs :
           /\ ~LeftLoose(j)
           /\ head[j].leased /\ head'[j].state \in {"failed", "cancelled"}
           /\ head[j].state \notin {"failed", "cancelled"}
           => \A g \in GensOf(j) :
                cert[g].state \notin {"staged", "active"} /\ remote.run # g]_jobVars
  <2> SUFFICES ASSUME JobInv, [JobNext]_jobVars, NEW j \in Jobs, ~LeftLoose(j), head[j].leased,
                      head'[j].state \in {"failed", "cancelled"},
                      head[j].state \notin {"failed", "cancelled"}
               PROVE  \A g \in GensOf(j) : cert[g].state \notin {"staged", "active"} /\ remote.run # g
    OBVIOUS
  <2>1. head[j].leased = TRUE  BY DEF JobInv, JobTypeOK, Heads
  <2>2. PICK w \in Workers : Complete(w) /\ ex[w].job = j /\ head'[j].state = Terminal(w)
    BY <2>1, OnlyCompleteEnds
  <2>3. OwnRow(w) /\ (Gone(j) \/ ex[w].loose = TRUE)  BY <2>2, OutcomeIsTrue DEF Complete
  <2>4. Gone(j)  BY <2>2, <2>3 DEF LeftLoose
  <2> QED  BY <2>4 DEF Gone
<1> QED  BY <1>1, JobsHold, PTL DEF JobSpec, GivenUpIsTornDown
=============================================================================
