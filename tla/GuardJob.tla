-------------------------------- MODULE GuardJob -------------------------------
(***************************************************************************)
(* Guard jobs of one target as the scan worker runs them (form:            *)
(* scan_worker.py, Guard branches; api/scans.py, stop_guard).  A worker    *)
(* stages a certificate generation under the key job:attempt, deploys it,  *)
(* proves it against the remote manifest, and compensates a deployment     *)
(* nobody wants any more.  The deployment transaction itself is module     *)
(* GuardDeploy; here it is one step with the outcomes GuardDeploy allows:  *)
(* committed, restored, or uncertain, which leaves any mixture behind.  A  *)
(* daemon that is started again is taken to be of the generation that ran, *)
(* which is so unless an uncertain deployment left other files beside it.  *)
(***************************************************************************)
EXTENDS Naturals, FiniteSets

CONSTANTS
  Jobs,         \* guard jobs of the target
  Workers,      \* executions
  MaxAttempts,  \* attempts of a job; one more claim only reconciles
  MaxGen,       \* bound on certificate generations
  MaxTroubles,  \* bound on crashes, lost leases and answers, failed calls
  Prompt        \* TRUE: an execution notices a lost lease before its next step

ASSUME GuardJobAssumption ==
  /\ "none" \notin Jobs
  /\ MaxAttempts \in Nat \ {0} /\ MaxGen \in Nat \ {0} /\ MaxTroubles \in Nat
  /\ Prompt \in BOOLEAN

VARIABLES
  head,     \* [Jobs -> state, attempt, epoch (fencing token), leased]
  cert,     \* [1 .. MaxGen -> job and attempt of its key, state]
  remote,   \* [man, run]: the generation the manifest names and the one that runs
  spool,    \* [Jobs -> BOOLEAN]: a result is stored
  ex,       \* [Workers -> the execution]
  op,       \* the guard stop call: none, revoke or stop
  troubles

jobVars == <<head, cert, remote, spool, ex, op, troubles>>

Gens == 1 .. MaxGen
Queued == {"pending", "retrying"}
Active == {"running", "cancelling"}
Free == [job |-> "none", attempt |-> 0, state |-> "absent"]
Rest == [job |-> "none", attempt |-> 0, epoch |-> 0, stage |-> "rest", gen |-> 0,
         cancel |-> FALSE, error |-> "none", loose |-> FALSE]

\* _retryable: what may be tried again, and what may not (a missing or forbidden
\* file, an invalid value, an error of sqlite).
Errors == {"retry", "fatal"}

Trouble == troubles < MaxTroubles
Bad == Trouble /\ troubles' = troubles + 1
Fine == UNCHANGED troubles

OwnRow(w) == /\ head[ex[w].job].epoch = ex[w].epoch
             /\ head[ex[w].job].leased

\* Where execution w is; without a stall a fenced one is not anywhere any more.
At(w, s) == /\ ex[w].stage = s
            /\ s \notin {"rest", "finish"} /\ Prompt => OwnRow(w)
Go(w, s) == ex' = [ex EXCEPT ![w].stage = s]
Leave(w) == ex' = [ex EXCEPT ![w] = Rest]

\* The execution ends without a terminal transition: the head stays for its next owner.
Unresolved(w) == Leave(w) /\ UNCHANGED <<head, spool, op>>

(***************************************************************************)
(* The queue, as far as it decides who executes (module JobStore).         *)
(***************************************************************************)
Claim(w, j) ==
  /\ At(w, "rest") /\ op = "none"
  /\ \A k \in Jobs : ~head[k].leased
  /\ \/ head[j].state \in Queued /\ head[j].attempt < MaxAttempts
     \/ head[j].state \in Active
  /\ LET h == head[j]
         again == h.state = "cancelling"
         n == IF again \/ h.attempt > MaxAttempts THEN h.attempt ELSE h.attempt + 1
     IN  /\ head' = [head EXCEPT ![j] =
                       [state |-> IF again THEN "cancelling" ELSE "running", attempt |-> n,
                        epoch |-> h.epoch + 1, leased |-> TRUE]]
         /\ ex' = [ex EXCEPT ![w] = [Rest EXCEPT !.job = j, !.attempt = n,
                                       !.epoch = h.epoch + 1, !.stage = "load"]]
  /\ UNCHANGED <<cert, remote, spool, op, troubles>>

ExpireLease(j) ==
  /\ head[j].leased /\ Bad
  /\ head' = [head EXCEPT ![j].leased = FALSE]
  /\ UNCHANGED <<cert, remote, spool, ex, op>>

RequestCancel(j) ==
  /\ head[j].state \in Queued \union {"running"}
  /\ head' = [head EXCEPT ![j].state = IF @ \in Queued THEN "cancelled" ELSE "cancelling"]
  /\ UNCHANGED <<cert, remote, spool, ex, op, troubles>>

\* The Form process dies; the lease is left to expire.
CrashWorker(w) ==
  /\ ex[w].stage # "rest" /\ Bad
  /\ Leave(w)
  /\ UNCHANGED <<head, cert, remote, spool, op>>

(***************************************************************************)
(* _reconcile_guard_deployment.                                            *)
(***************************************************************************)
\* A variant: the generations of an interrupted deployment are overlooked.
CandidatesActive(w, last, states) ==
  {g \in Gens : cert[g].job = ex[w].job /\ cert[g].state \in states \ {"staged"}}

Candidates(w, last, states) ==
  {g \in Gens : /\ cert[g].job = ex[w].job /\ cert[g].attempt \in 1 .. last
                /\ cert[g].state \in states}

\* A variant: any manifest with a live daemon passes for the one of this job.
MatchedAny(gs) == remote.run = remote.man

Matched(gs) == remote.man \in gs /\ remote.run = remote.man

\* status.alive: the daemon runs and its readiness file names it, which may be missing.
Probes == IF remote.run = 0 THEN {FALSE} ELSE BOOLEAN

\* What the proof says of the candidates: nothing, unresolved or committed.
Reconciled(gs, alive) ==
  CASE gs = {} -> "nothing"
    [] gs # {} /\ remote.man = 0 ->
         IF alive \/ \E g \in gs : cert[g].state # "staged" THEN "unresolved" ELSE "nothing"
    [] gs # {} /\ remote.man # 0 ->
         IF alive /\ Matched(gs) THEN "committed" ELSE "unresolved"

\* An aborted generation stays taken, without its key.
Unkeyed == [job |-> "none", attempt |-> 0, state |-> "revoked"]
AbortedCert(c) == IF c.state = "staged" THEN Unkeyed ELSE c
ActivatedCerts(g) ==
  [h \in Gens |-> IF h = g THEN [cert[h] EXCEPT !.state = "active"]
                  ELSE IF cert[h].state = "active" THEN [cert[h] EXCEPT !.state = "retired"]
                  ELSE cert[h]]

\* The certificates after the reconciliation: unused ones aborted, a found one activated.
ReconciledCerts(gs, alive, activate) ==
  IF gs # {} /\ remote.man = 0 /\ ~alive
    THEN [g \in Gens |-> IF g \in gs THEN AbortedCert(cert[g]) ELSE cert[g]]
  ELSE IF activate /\ Reconciled(gs, alive) = "committed" /\ cert[remote.man].state = "staged"
    THEN ActivatedCerts(remote.man)
  ELSE cert

\* An unreadable certificate or manifest: reconciliation stays required.
ProofFails(w) ==
  /\ At(w, "load") \/ At(w, "collect") \/ At(w, "recheck")
  /\ Bad
  /\ Unresolved(w)
  /\ UNCHANGED <<cert, remote>>

(***************************************************************************)
(* _execute.                                                               *)
(***************************************************************************)
Cancelled(w) == ex[w].cancel \/ head[ex[w].job].state \in {"cancelling", "cancelled"}

\* An error before the deployments of the job are looked at: of the stored result,
\* of the head, of the target, its URL or its identity, or the time limit.
ReadFails(w, error) ==
  /\ At(w, "load") \/ At(w, "collect")
  /\ Bad
  /\ ex' = [ex EXCEPT ![w].stage = "finish", ![w].error = error, ![w].loose = TRUE]
  /\ UNCHANGED <<head, cert, remote, spool, op>>

\* Nothing stored and not cancelled: collect.
LoadNothing(w) ==
  /\ At(w, "load") /\ ~spool[ex[w].job] /\ ~Cancelled(w)
  /\ Go(w, "collect")
  /\ UNCHANGED <<head, cert, remote, spool, op, troubles>>

\* A cancelled execution first looks for what it may have to compensate.
LoadCancelled(w, alive) ==
  LET gs == Candidates(w, ex[w].attempt, {"staged", "active", "revoked"})
      seen == Reconciled(gs, alive)
  IN  /\ At(w, "load") /\ Cancelled(w)
      /\ cert' = ReconciledCerts(gs, alive, FALSE)
      /\ ex' = [ex EXCEPT ![w] =
           IF seen = "unresolved" \/ (seen = "nothing" /\ spool[ex[w].job]) THEN Rest
           ELSE IF seen = "committed"
             THEN [@ EXCEPT !.stage = "revoke", !.gen = remote.man, !.cancel = TRUE,
                            !.error = "cancel"]
           ELSE [@ EXCEPT !.stage = "finish", !.cancel = TRUE, !.error = "cancel"]]
      /\ UNCHANGED <<head, remote, spool, op, troubles>>

\* A stored result is used only when the live deployment backs it.
LoadStored(w, alive) ==
  LET gs == Candidates(w, ex[w].attempt, {"staged", "active"})
  IN  /\ At(w, "load") /\ spool[ex[w].job] /\ ~Cancelled(w)
      /\ cert' = ReconciledCerts(gs, alive, TRUE)
      /\ ex' = [ex EXCEPT ![w] =
           IF Reconciled(gs, alive) = "committed" THEN [@ EXCEPT !.stage = "forward", !.gen = remote.man]
           ELSE Rest]
      /\ UNCHANGED <<head, remote, spool, op, troubles>>

(***************************************************************************)
(* _collect_and_spool, Guard branch.                                       *)
(***************************************************************************)
Exhausted(w) == ex[w].attempt > MaxAttempts

\* Deployments of earlier attempts are settled before another one is tried.
Collect(w, alive) ==
  LET gs == Candidates(w, ex[w].attempt - 1,
                       {"staged", "active"} \union (IF Exhausted(w) THEN {"revoked"} ELSE {}))
      seen == Reconciled(gs, alive)
      found == [ex[w] EXCEPT !.gen = remote.man]
  IN  /\ At(w, "collect")
      /\ cert' = ReconciledCerts(gs, alive, TRUE)
      /\ ex' = [ex EXCEPT ![w] =
           CASE seen = "unresolved" -> Rest
             [] seen = "committed" /\ cert[remote.man].state = "revoked" ->
                  [found EXCEPT !.stage = "revoke", !.error = "fatal"]
             [] seen = "committed" /\ cert[remote.man].state # "revoked" ->
                  [found EXCEPT !.stage = "save"]
             [] seen = "nothing" /\ Exhausted(w) -> [@ EXCEPT !.stage = "finish", !.error = "fatal"]
             [] seen = "nothing" /\ ~Exhausted(w) -> [@ EXCEPT !.stage = "stage"]]
      /\ UNCHANGED <<head, remote, spool, op, troubles>>

\* stage_for_target: one staged generation per target, one per key.
StageGeneration(w) ==
  LET free == {g \in Gens : \A h \in Gens : h >= g => cert[h] = Free}
  IN  /\ At(w, "stage")
      /\ IF \E g \in Gens : \/ cert[g].state = "staged"
                            \/ cert[g].job = ex[w].job /\ cert[g].attempt = ex[w].attempt
           THEN /\ ex' = [ex EXCEPT ![w].stage = "finish", ![w].error = "retry"]
                /\ cert' = cert
           ELSE \E g \in free : /\ \A h \in free : g <= h
                                /\ cert' = [cert EXCEPT ![g] =
                                     [job |-> ex[w].job, attempt |-> ex[w].attempt,
                                      state |-> "staged"]]
                                /\ ex' = [ex EXCEPT ![w].stage = "deploy", ![w].gen = g]
      /\ UNCHANGED <<head, remote, spool, op, troubles>>

Owned(w) == cert[ex[w].gen].job = ex[w].job /\ cert[ex[w].gen].attempt = ex[w].attempt

\* run_guard commits: the generation is live, its manifest published and activated.
DeployCommits(w) ==
  /\ At(w, "deploy") /\ Owned(w) /\ cert[ex[w].gen].state = "staged"
  /\ remote' = [man |-> ex[w].gen, run |-> ex[w].gen]
  /\ cert' = ActivatedCerts(ex[w].gen)
  /\ Go(w, "recheck")
  /\ UNCHANGED <<head, spool, op, troubles>>

\* run_guard fails and proves that the previous deployment is back: abort.  So does
\* one whose generation was aborted or revoked meanwhile (activation refuses it).
DeployRestores(w, error) ==
  /\ At(w, "deploy")
  /\ IF Owned(w) /\ cert[ex[w].gen].state = "staged" THEN Bad ELSE Fine
  /\ cert' = IF Owned(w) THEN [cert EXCEPT ![ex[w].gen] = AbortedCert(@)] ELSE cert
  /\ ex' = [ex EXCEPT ![w].stage = "finish", ![w].gen = 0, ![w].error = error]
  /\ UNCHANGED <<head, remote, spool, op>>

\* The outcome is uncertain, or the process dies in the middle of the deployment.
DeployUncertain(w) ==
  /\ At(w, "deploy") /\ Bad
  /\ \E man \in {remote.man, ex[w].gen}, run \in {remote.run, ex[w].gen, 0} :
       remote' = [man |-> man, run |-> run]
  /\ Unresolved(w)
  /\ cert' = cert

\* The new deployment must be backed by its own live manifest; an abort is refused
\* for a generation that is active by now.
Recheck(w, alive) ==
  LET gs == Candidates(w, ex[w].attempt, {"staged", "active"})
  IN  /\ At(w, "recheck")
      /\ IF Reconciled(gs, alive) = "committed"
           THEN /\ ex' = [ex EXCEPT ![w].gen = remote.man,
                                    ![w].stage = IF Cancelled(w) THEN "revoke" ELSE "save",
                                    ![w].cancel = Cancelled(w),
                                    ![w].error = IF Cancelled(w) THEN "cancel" ELSE "none"]
                /\ cert' = cert
           ELSE /\ Leave(w)
                /\ cert' = IF Owned(w) THEN [cert EXCEPT ![ex[w].gen] = AbortedCert(@)] ELSE cert
      /\ UNCHANGED <<head, remote, spool, op, troubles>>

Save(w) ==
  /\ At(w, "save")
  /\ spool' = [spool EXCEPT ![ex[w].job] = TRUE]
  /\ Go(w, "forward")
  /\ UNCHANGED <<head, cert, remote, op, troubles>>

\* A result that cannot be stored: the last attempt takes its deployment down, an
\* earlier one leaves it, although the error may be the end of the job.
SaveFails(w, error) ==
  LET last == ex[w].attempt >= MaxAttempts
  IN  /\ At(w, "save") /\ Bad
      /\ ex' = [ex EXCEPT ![w].error = error, ![w].loose = ~last,
                          ![w].stage = IF last THEN "revoke" ELSE "finish"]
      /\ UNCHANGED <<head, cert, remote, spool, op>>

\* The head is read once more before the result is accepted.
Forward(w) ==
  /\ At(w, "forward")
  /\ ex' = [ex EXCEPT ![w].stage = IF Cancelled(w) THEN "revoke" ELSE "finish",
                      ![w].cancel = Cancelled(w),
                      ![w].error = IF Cancelled(w) THEN "cancel" ELSE "none"]
  /\ UNCHANGED <<head, cert, remote, spool, op, troubles>>

\* ... and cannot be read: the job fails, whatever the attempt, and the Guard stays.
ForwardFails(w) ==
  /\ At(w, "forward") /\ Bad
  /\ ex' = [ex EXCEPT ![w].stage = "finish", ![w].error = "fatal", ![w].loose = TRUE]
  /\ UNCHANGED <<head, cert, remote, spool, op>>

(***************************************************************************)
(* _compensate_guard_if_needed.                                            *)
(***************************************************************************)
RevokedCert(c) == IF c.state = "absent" THEN c ELSE [c EXCEPT !.state = "revoked"]

\* First the generation this job proved.
CompensateRevoke(w) ==
  /\ At(w, "revoke")
  /\ cert' = [cert EXCEPT ![ex[w].gen] = RevokedCert(@)]
  /\ Go(w, "stop")
  /\ UNCHANGED <<head, remote, spool, op, troubles>>

Expected(w) == remote.man = ex[w].gen

\* Then the deployment, only if the manifest is still the one that was proved.
CompensateStop(w) ==
  /\ At(w, "stop")
  /\ IF Expected(w)
       THEN /\ remote' = [man |-> 0, run |-> 0]
            /\ ex' = [ex EXCEPT ![w].stage = "finish", ![w].gen = 0]
       ELSE Leave(w) /\ remote' = remote
  /\ UNCHANGED <<head, cert, spool, op, troubles>>

\* Revocation or teardown fails, the latter perhaps after it took effect: stays pending.
CompensateFails(w) ==
  /\ At(w, "revoke") \/ At(w, "stop")
  /\ Bad
  /\ \/ remote' = remote
     \/ At(w, "stop") /\ Expected(w) /\ remote' = [man |-> 0, run |-> 0]
  /\ Unresolved(w)
  /\ cert' = cert

(***************************************************************************)
(* _finish_claim and _handle_completion_cancel_race.                       *)
(***************************************************************************)
Terminal(w) ==
  CASE Cancelled(w) -> "cancelled"
    [] ~Cancelled(w) /\ ex[w].error = "none" -> "succeeded"
    [] ~Cancelled(w) /\ ex[w].error = "retry" /\ ex[w].attempt < MaxAttempts -> "retrying"
    [] OTHER -> "failed"

\* A cancellation seen only now is compensated before it is recorded.
FinishCancelled(w) ==
  /\ At(w, "finish") /\ OwnRow(w) /\ Cancelled(w) /\ ex[w].gen # 0
  /\ ex' = [ex EXCEPT ![w].stage = "revoke", ![w].cancel = TRUE, ![w].error = "cancel",
                      ![w].loose = FALSE]
  /\ UNCHANGED <<head, cert, remote, spool, op, troubles>>

Complete(w) ==
  LET j == ex[w].job
  IN  /\ At(w, "finish") /\ OwnRow(w) /\ ~(Cancelled(w) /\ ex[w].gen # 0)
      /\ head' = [head EXCEPT ![j].state = Terminal(w), ![j].leased = FALSE]
      /\ spool' = [spool EXCEPT ![j] = @ /\ Terminal(w) = "retrying"]
      /\ Leave(w)
      /\ UNCHANGED <<cert, remote, op, troubles>>

\* A stale owner is fenced out.
Discarded(w) ==
  /\ ex[w].stage # "rest" /\ ~OwnRow(w)
  /\ At(w, "finish") \/ Prompt
  /\ Unresolved(w)
  /\ UNCHANGED <<cert, remote, troubles>>

(***************************************************************************)
(* stop_guard: the durable operation lease, revocation, teardown.          *)
(***************************************************************************)
BeginStop ==
  /\ op = "none" /\ \A j \in Jobs : ~head[j].leased
  /\ Bad
  /\ op' = "revoke"
  /\ head' = [j \in Jobs |-> IF head[j].state \in Active
                               THEN [head[j] EXCEPT !.epoch = @ + 1] ELSE head[j]]
  /\ UNCHANGED <<cert, remote, spool, ex>>

\* revoke_certificates takes the keys of what it revokes; if it fails the host is
\* still stopped.
StopRevokes(works) ==
  /\ op = "revoke"
  /\ op' = "stop"
  /\ IF works
       THEN /\ cert' = [g \in Gens |-> IF cert[g].state \in {"absent", "revoked"} THEN cert[g]
                                       ELSE Unkeyed]
            /\ Fine
       ELSE Bad /\ cert' = cert
  /\ UNCHANGED <<head, remote, spool, ex>>

StopRemoves(works) ==
  /\ op = "stop"
  /\ op' = "none"
  /\ IF works THEN Fine /\ remote' = [man |-> 0, run |-> 0] ELSE Bad /\ remote' = remote
  /\ UNCHANGED <<head, cert, spool, ex>>

\* The daemon dies on the host.
DaemonDies ==
  /\ remote.run # 0 /\ Bad
  /\ remote' = [remote EXCEPT !.run = 0]
  /\ UNCHANGED <<head, cert, spool, ex, op>>

JobInit ==
  /\ head = [j \in Jobs |-> [state |-> "pending", attempt |-> 0, epoch |-> 0, leased |-> FALSE]]
  /\ \E old \in BOOLEAN :
       /\ cert = [g \in Gens |-> IF old /\ g = 1
                                   THEN [job |-> "none", attempt |-> 0, state |-> "active"]
                                   ELSE Free]
       /\ remote = IF old THEN [man |-> 1, run |-> 1] ELSE [man |-> 0, run |-> 0]
  /\ spool = [j \in Jobs |-> FALSE]
  /\ ex = [w \in Workers |-> Rest]
  /\ op = "none" /\ troubles = 0

WorkerStep(w) ==
  \/ \E j \in Jobs : Claim(w, j)
  \/ CrashWorker(w) \/ ProofFails(w)
  \/ LoadNothing(w)
  \/ \E alive \in Probes :
       LoadCancelled(w, alive) \/ LoadStored(w, alive) \/ Collect(w, alive) \/ Recheck(w, alive)
  \/ \E error \in Errors : ReadFails(w, error) \/ DeployRestores(w, error) \/ SaveFails(w, error)
  \/ StageGeneration(w) \/ DeployCommits(w) \/ DeployUncertain(w)
  \/ Save(w) \/ Forward(w) \/ ForwardFails(w)
  \/ CompensateRevoke(w) \/ CompensateStop(w) \/ CompensateFails(w)
  \/ FinishCancelled(w) \/ Complete(w) \/ Discarded(w)

JobNext ==
  \/ \E w \in Workers : WorkerStep(w)
  \/ \E j \in Jobs : ExpireLease(j) \/ RequestCancel(j)
  \/ BeginStop
  \/ \E works \in BOOLEAN : StopRevokes(works) \/ StopRemoves(works)
  \/ DaemonDies

JobSpec == JobInit /\ [][JobNext]_jobVars

(***************************************************************************)
(* Properties.                                                             *)
(***************************************************************************)
GensOf(j) == {g \in Gens : cert[g].job = j}

\* A Guard job is recorded as succeeded only while the manifest on the host names
\* a generation of this job that is the active one: whatever crashed attempts,
\* stale owners and guard stops did in between.
SucceededIsDeployed ==
  [][\A j \in Jobs : head[j].state # "succeeded" /\ head'[j].state = "succeeded" =>
       remote.man \in GensOf(j) /\ cert[remote.man].state = "active"]_jobVars

\* The execution that has the job ended in an error that nobody answers by taking
\* down what the job deployed: it came before that was looked up, or after the last
\* point at which it is compensated.
LeftLoose(j) == \E w \in Workers : ex[w].job = j /\ OwnRow(w) /\ ex[w].loose

\* A Guard job that its owner records as failed or cancelled leaves no generation
\* of its keys staged or active, and none running: after a failed or exhausted
\* deployment, a failed save of the last attempt and a cancellation at any point,
\* over crashes and guard stops.  Errors outside the deployment (LeftLoose) are
\* excepted, since the code records them as they are; a retired generation may
\* still be within its overlap; and no stalled execution of the job goes on.
GivenUpIsTornDown ==
  [][\A j \in Jobs :
       /\ ~LeftLoose(j)
       /\ head[j].leased /\ head'[j].state \in {"failed", "cancelled"}
       /\ head[j].state \notin {"failed", "cancelled"}
       => \A g \in GensOf(j) : cert[g].state \notin {"staged", "active"} /\ remote.run # g]_jobVars

\* Cancelling a Guard job compensates its deployment: once the job is cancelled no
\* execution of it is under way and none of its generations is active.
CancelledLeavesNoGuard ==
  \A j \in Jobs : head[j].state = "cancelled" /\ (\A w \in Workers : ex[w].job # j) =>
    \A g \in GensOf(j) : cert[g].state # "active"

=============================================================================
