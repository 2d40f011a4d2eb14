--------------------------- MODULE AgentIdentity ----------------------------
(***************************************************************************)
(* Form's registry of agent identities and certificate generations,        *)
(* form/src/kcatta_form/agent_identity_store.py, and the issuing service   *)
(* over it, AgentIdentityService in agent_pki.py.                          *)
(*                                                                         *)
(* Every method of the repository is one BEGIN IMMEDIATE transaction, so   *)
(* one action.  Issuing is not one transaction: an issuer reads the        *)
(* generation of an identity, generates a private key and a leaf, and      *)
(* then stages the leaf, while other issuers, operators and Form processes *)
(* stage, activate, abort and revoke.  The private key exists only in the  *)
(* memory of the issuer and in the bundle it returns once.                 *)
(*                                                                         *)
(* Times are integers, NULL is Null = -1.  A caller reads the clock before *)
(* it waits for the transaction, so its reading may be ClockLag old;       *)
(* verify reads the clock after it has read the row.  A leaf is valid from *)
(* before its issue (CERTIFICATE_CLOCK_SKEW), so only its end matters; the *)
(* CA certificate, which would cut it short, outlives the model's times.   *)
(***************************************************************************)
EXTENDS Integers, FiniteSets

CONSTANTS
  Targets,        \* target ids; the agent id of a target is its own
  Hosts,          \* canonical host ids
  ScopeSets,      \* sets of scopes
  Issuers,        \* requests and worker attempts that issue a certificate
  NoIssuer,       \* no leaf
  DeployKeys,     \* idempotency keys, job id and attempt
  NoKey,          \* no idempotency key, or cleared
  None,           \* no binding
  Validity,       \* lifetime of a leaf
  Overlap,        \* how long a replaced generation stays accepted
  ClockLag,       \* how old a caller's reading may be
  MaxTime,        \* bound of the clock
  MaxGeneration   \* bound of the generations of an identity

ASSUME IdentityBounds ==
  /\ Validity \in Nat \ {0}
  /\ Overlap \in Nat
  /\ ClockLag \in Nat
  /\ MaxTime \in Nat
  /\ MaxGeneration \in Nat
ASSUME NullsAssumption ==
  NoIssuer \notin Issuers /\ NoKey \notin DeployKeys /\ None \notin Hosts \cup ScopeSets

VARIABLES
  identity,  \* agent_identities, by target
  cert,      \* agent_certificates, by target and generation
  issuing,   \* what every issuer has read and generated
  given,     \* history: who was given a private key for a generation
  clock      \* wall-clock time

idVars == <<identity, cert, issuing, given, clock>>

-----------------------------------------------------------------------------
(* Rows.                                                                   *)

Null == -1
Times == Nat \cup {Null}
Generations == 1 .. MaxGeneration

Identity == [state      : {"absent", "active", "revoked"},
             host       : Hosts \cup {None},
             scopes     : ScopeSets \cup {None},
             generation : Nat]

NoIdentity == [state |-> "absent", host |-> None, scopes |-> None, generation |-> 0]

Cert == [state    : {"absent", "staged", "active", "retired", "revoked"},
         leaf     : Issuers \cup {NoIssuer},
         key      : DeployKeys \cup {NoKey},
         notAfter : Times,
         overlap  : Times]

NoCert == [state |-> "absent", leaf |-> NoIssuer, key |-> NoKey,
           notAfter |-> Null, overlap |-> Null]

(* The generated material waits to be staged as this generation.           *)
Issue == [target : Targets, generation : Nat, key : DeployKeys \cup {NoKey},
          notAfter : Nat]

Idle == [target |-> None, generation |-> 0, key |-> NoKey, notAfter |-> 0]

Exists(t) == identity[t].state /= "absent"

Readings == {r \in 0 .. clock : r >= clock - ClockLag}

IdentityInit ==
  /\ identity = [t \in Targets |-> NoIdentity]
  /\ cert = [t \in Targets |-> [g \in Generations |-> NoCert]]
  /\ issuing = [i \in Issuers |-> Idle]
  /\ given = [t \in Targets |-> [g \in Generations |-> {}]]
  /\ clock = 0

-----------------------------------------------------------------------------
(* Bindings.                                                               *)

(* The unique index on canonical_host_id.                                  *)
HostFree(h) == \A t \in Targets : identity[t].host /= h

(* get_or_create of a target without an identity; with one it returns it,  *)
(* or reports a conflict, and writes nothing.                              *)
GetOrCreate(t, h, sc) ==
  /\ ~ Exists(t)
  /\ HostFree(h)
  /\ identity' = [identity EXCEPT ![t] = [state |-> "active", host |-> h,
                                          scopes |-> sc, generation |-> 0]]
  /\ UNCHANGED <<cert, issuing, given, clock>>

-----------------------------------------------------------------------------
(* Issuing.                                                                *)

(* get_by_idempotency_key *)
Reserved(t, k) == k /= NoKey /\ \E g \in Generations : cert[t][g].key = k

(* issue_staged (without key) and stage_for_target (with key), up to the   *)
(* generated material: the identity read here may change before the stage. *)
(* Only issue_staged looks at the state of the identity already.           *)
BeginIssue(i, t, k, r) ==
  /\ issuing[i] = Idle
  /\ Exists(t)
  /\ k = NoKey => identity[t].state = "active"
  /\ ~ Reserved(t, k)
  /\ issuing' = [issuing EXCEPT ![i] =
       [target |-> t, generation |-> identity[t].generation + 1, key |-> k,
        notAfter |-> r + Validity]]
  /\ UNCHANGED <<identity, cert, given, clock>>

(* Faulty: the state of the identity is not read again.                    *)
StageableRevoked(i) ==
  LET t == issuing[i].target
  IN  /\ ~ Reserved(t, issuing[i].key)
      /\ \A g \in Generations : cert[t][g].state /= "staged"
      /\ issuing[i].generation = identity[t].generation + 1

(* Faulty: a stale generation is accepted.                                 *)
StageableStale(i) ==
  LET t == issuing[i].target
  IN  /\ identity[t].state = "active"
      /\ ~ Reserved(t, issuing[i].key)
      /\ \A g \in Generations : cert[t][g].state /= "staged"

(* The checks of stage_certificate.                                        *)
Stageable(i) ==
  LET t == issuing[i].target
  IN  /\ identity[t].state = "active"
      /\ ~ Reserved(t, issuing[i].key)
      /\ \A g \in Generations : cert[t][g].state /= "staged"
      /\ issuing[i].generation = identity[t].generation + 1

StagedCert(i) == [state |-> "staged", leaf |-> i, key |-> issuing[i].key,
                  notAfter |-> issuing[i].notAfter, overlap |-> Null]

(* stage_certificate creates the generation, and its issuer returns the    *)
(* bundle with the private key.                                            *)
StageCertificate(i) ==
  LET t == issuing[i].target
      g == issuing[i].generation
  IN  /\ issuing[i] /= Idle
      /\ Stageable(i)
      /\ g \in Generations
      /\ cert' = [cert EXCEPT ![t][g] = StagedCert(i)]
      /\ identity' = [identity EXCEPT ![t].generation = g]
      /\ given' = [given EXCEPT ![t][g] = @ \cup {i}]
      /\ issuing' = [issuing EXCEPT ![i] = Idle]
      /\ UNCHANGED clock

(* Faulty: a replay returns the new private key with the persisted leaf.   *)
StageNothingWithKey(i) ==
  LET t == issuing[i].target
  IN  /\ issuing[i] /= Idle
      /\ ~ Stageable(i)
      /\ issuing' = [issuing EXCEPT ![i] = Idle]
      /\ given' = [given EXCEPT ![t] = [g \in Generations |->
           IF issuing[i].key /= NoKey /\ cert[t][g].key = issuing[i].key
           THEN @[g] \cup {i} ELSE @[g]]]
      /\ UNCHANGED <<identity, cert, clock>>

(* A conflict, a replay under the same key (metadata only: the unmatched   *)
(* private key is discarded), or the issuer died.                          *)
StageNothing(i) ==
  /\ issuing[i] /= Idle
  /\ issuing' = [issuing EXCEPT ![i] = Idle]
  /\ UNCHANGED <<identity, cert, given, clock>>

-----------------------------------------------------------------------------
(* The life of a generation.                                               *)

Smaller(a, b) == IF a < b THEN a ELSE b

(* Faulty: the generation before the last keeps its overlap.               *)
RotatedCertOpen(c, r) ==
  CASE c.state = "active" ->
         [c EXCEPT !.state = "retired", !.overlap = Smaller(c.notAfter, r + Overlap)]
    [] OTHER -> c

(* What activate does to the other generations: it closes the overlap of   *)
(* those retired before, and gives the active one an overlap.              *)
RotatedCert(c, r) ==
  CASE c.state = "retired" /\ c.overlap > r -> [c EXCEPT !.overlap = r]
    [] c.state = "active" ->
         [c EXCEPT !.state = "retired", !.overlap = Smaller(c.notAfter, r + Overlap)]
    [] OTHER -> c

Activatable(c) == c.state = "staged"

Activate(t, g, r) ==
  /\ identity[t].state = "active"
  /\ Activatable(cert[t][g])
  /\ cert[t][g].notAfter > r
  /\ cert' = [cert EXCEPT ![t] = [h \in Generations |->
                IF h = g THEN [cert[t][g] EXCEPT !.state = "active", !.overlap = Null]
                ELSE RotatedCert(cert[t][h], r)]]
  /\ UNCHANGED <<identity, issuing, given, clock>>

(* abort discards a staged generation and frees its key.                   *)
Abort(t, g) ==
  /\ cert[t][g].state = "staged"
  /\ cert' = [cert EXCEPT ![t][g].state = "revoked", ![t][g].overlap = Null,
                          ![t][g].key = NoKey]
  /\ UNCHANGED <<identity, issuing, given, clock>>

RevokedCert(c) ==
  IF c.state = "absent" THEN c ELSE [c EXCEPT !.state = "revoked", !.overlap = Null]

(* revoke of one generation: it keeps its key.                             *)
RevokeGeneration(t, g) ==
  /\ cert[t][g].state \in {"staged", "active", "retired"}
  /\ cert' = [cert EXCEPT ![t][g] = RevokedCert(@)]
  /\ UNCHANGED <<identity, issuing, given, clock>>

(* revoke of the identity, with all its generations.                       *)
RevokeIdentity(t) ==
  /\ identity[t].state = "active"
  /\ identity' = [identity EXCEPT ![t].state = "revoked"]
  /\ cert' = [cert EXCEPT ![t] = [g \in Generations |-> RevokedCert(cert[t][g])]]
  /\ UNCHANGED <<issuing, given, clock>>

(* revoke_certificates: the guard stop endpoint ends every credential, but *)
(* keeps the identity.                                                     *)
RevokeCertificates(t) ==
  /\ \E g \in Generations : cert[t][g].state \in {"staged", "active", "retired"}
  /\ cert' = [cert EXCEPT ![t] = [g \in Generations |->
                IF cert[t][g].state \in {"absent", "revoked"} THEN cert[t][g]
                ELSE [RevokedCert(cert[t][g]) EXCEPT !.key = NoKey]]]
  /\ UNCHANGED <<identity, issuing, given, clock>>

Tick ==
  /\ clock < MaxTime
  /\ clock' = clock + 1
  /\ UNCHANGED <<identity, cert, issuing, given>>

IssueStep(i) ==
  \/ \E t \in Targets, k \in DeployKeys \cup {NoKey}, r \in Readings : BeginIssue(i, t, k, r)
  \/ StageCertificate(i)
  \/ StageNothing(i)

OperatorStep(t) ==
  \/ \E h \in Hosts, sc \in ScopeSets : GetOrCreate(t, h, sc)
  \/ \E g \in Generations : Abort(t, g) \/ RevokeGeneration(t, g)
  \/ \E g \in Generations, r \in Readings : Activate(t, g, r)
  \/ RevokeIdentity(t)
  \/ RevokeCertificates(t)

IdentityNext ==
  \/ \E i \in Issuers : IssueStep(i)
  \/ \E t \in Targets : OperatorStep(t)
  \/ Tick

IdentitySpec == IdentityInit /\ [][IdentityNext]_idVars

-----------------------------------------------------------------------------
(* verify: whether a peer certificate is accepted at time v.  No caller    *)
(* passes allow_staged.                                                    *)
Accepted(t, g, v) ==
  LET c == cert[t][g]
  IN  /\ identity[t].state = "active"
      /\ v < c.notAfter
      /\ \/ c.state = "active"
         \/ c.state = "retired" /\ v < c.overlap

(* Type invariant.  The head counts exactly the generations that have a    *)
(* row.                                                                    *)
IdentityTypeOK ==
  /\ identity \in [Targets -> Identity]
  /\ cert \in [Targets -> [Generations -> Cert]]
  /\ \A t \in Targets : \A g \in Generations :
       cert[t][g].state = "absent" <=> g > identity[t].generation
  /\ issuing \in [Issuers -> Issue \cup {Idle}]
  /\ given \in [Targets -> [Generations -> SUBSET Issuers]]
  /\ clock \in Nat

(* Rapid rotations never make three credentials usable at once: besides    *)
(* the active generation at most one retired one is accepted by verify,    *)
(* however old the clock readings of the activations were.                 *)
RotationWindow ==
  \A t \in Targets : \A g, h \in Generations :
    Accepted(t, g, clock) /\ Accepted(t, h, clock) /\ cert[t][g].state = cert[t][h].state
      => g = h

(* A revoked identity has no usable credential and never gets one, though  *)
(* issuers read the identity before it was revoked and stage afterwards.   *)
RevokedIsDead ==
  \A t \in Targets : identity[t].state = "revoked" =>
    \A g \in Generations : cert[t][g].state \in {"absent", "revoked"}

(* Generations only advance: a staged one is newer than every other, and   *)
(* the active one is newer than every retired one, so no sequence of       *)
(* rotations and aborts puts an older key back into service.               *)
GenerationsAdvance ==
  \A t \in Targets : \A g, h \in Generations :
    /\ cert[t][g].state = "staged" /\ cert[t][h].state /= "absent" => h <= g
    /\ cert[t][g].state = "active" /\ cert[t][h].state = "retired" => h < g

(* The private key of a generation is given to nobody but the issuer of    *)
(* the persisted leaf, when several race under one idempotency key; and a  *)
(* key reserves one generation of the identity.                            *)
BundleMatchesLeaf ==
  \A t \in Targets : \A g, h \in Generations :
    /\ given[t][g] \subseteq {cert[t][g].leaf}
    /\ cert[t][g].key /= NoKey /\ cert[t][g].key = cert[t][h].key => g = h

(* A generation is never reused: its leaf does not change, and what has    *)
(* been revoked stays revoked.                                             *)
GenerationNeverReused ==
  [][\A t \in Targets : \A g \in Generations :
       /\ cert[t][g].state /= "absent" => cert'[t][g].leaf = cert[t][g].leaf
       /\ cert[t][g].state = "revoked" => cert'[t][g].state = "revoked"]_idVars
=============================================================================
