------------------------------ MODULE JobStore ------------------------------
(***************************************************************************)
(* The durable scan-job queue of Form, form/src/kcatta_form/job_store.py.  *)
(*                                                                         *)
(* ScanJobRepository keeps one head row per job and one row per target     *)
(* with a direct operation in progress.  Every public method is one        *)
(* BEGIN IMMEDIATE transaction, so every method is one action here.  What  *)
(* is not atomic is everything between two calls: a worker holds a         *)
(* ClaimedScanJob (a capability with a snapshot of the job) over many      *)
(* transactions of other workers, of the API and of other Form processes,  *)
(* and every call brings a `now` that its caller read from the clock       *)
(* before it waited for a thread, for the lock and for the transaction.    *)
(*                                                                         *)
(* Times are integers.  A NULL time column is Null = -1: SQL's             *)
(* `column > now` is false for NULL and `column IS NULL OR column <= now`  *)
(* is true, and so are the plain comparisons with -1.                      *)
(*                                                                         *)
(* A lease token is 32 random bytes known only to the caller that got it   *)
(* from claim_next or acquire_target_operation, and a new claim overwrites *)
(* the stored hash.  "The row's lease_owner and lease_token_hash are those *)
(* of my claim" is therefore modelled as "the row's holder is my slot",    *)
(* where a slot is the place in a worker (or an API request) that keeps    *)
(* one capability at a time.                                               *)
(***************************************************************************)
EXTENDS Integers, FiniteSets

CONSTANTS
  Jobs,         \* job ids, numbers: the order of ids breaks ties in claims
  Targets,      \* target ids
  TargetOf,     \* the target_id of a job
  Guards,       \* jobs whose capability is GUARD
  LegacyJobs,   \* jobs of the pre-repository store that startup imports
  KeyOf,        \* the Idempotency-Key of a submission (or NoKey)
  NoKey,        \* no Idempotency-Key header
  Slots,        \* execution slots of the workers of all Form processes
  NoSlot,       \* no lease token
  OwnerOf,      \* the worker_id a slot belongs to
  Ops,          \* direct operation requests (the guard stop endpoint)
  NoOp,         \* no direct operation
  NoTarget,     \* the request holds no lease
  MaxAttempts,  \* max_attempts of every job
  MaxRunning,   \* max_running of claim_next
  MaxJobs,      \* max_jobs, 0 when unlimited
  LeaseTTL,     \* lease_ttl
  RetryDelay,   \* backoff before a RETRYING job is available again
  ClockLag,     \* how old a caller's `now` may be when its call runs
  MaxTime,      \* bound of the clock
  MaxEpoch      \* bound of lease_epoch

ASSUME JobsAssumption == Jobs \subseteq Nat /\ IsFiniteSet(Jobs)
ASSUME LegacyAssumption == LegacyJobs \subseteq Jobs
ASSUME TargetAssumption == TargetOf \in [Jobs -> Targets]
ASSUME SlotAssumption == NoSlot \notin Slots /\ NoOp \notin Ops /\ NoTarget \notin Targets
ASSUME BoundAssumption ==
  /\ MaxAttempts \in Nat \ {0}
  /\ MaxRunning \in Nat \ {0}
  /\ MaxJobs \in Nat
  /\ LeaseTTL \in Nat \ {0}
  /\ RetryDelay \in Nat
  /\ ClockLag \in Nat
  /\ MaxTime \in Nat
  /\ MaxEpoch \in Nat

VARIABLES
  heads,    \* scan_job_heads: the row of every job
  opLease,  \* target_operation_leases: the row of every target
  claim,    \* the ClaimedScanJob each worker slot holds
  op,       \* the target whose TargetOperationLease each request holds
  clock     \* wall-clock time

vars == <<heads, opLease, claim, op, clock>>

-----------------------------------------------------------------------------
(* Rows.                                                                   *)

Null == -1
Times == Nat \cup {Null}

Queued == {"pending", "retrying"}
Active == {"running", "cancelling"}
Terminal == {"succeeded", "failed", "cancelled"}
Missing == {"absent", "evicted"}      \* no row: never created, or reclaimed

(* Whether the stored result still has Analyzer work open (derived_state   *)
(* pending or processing), is settled (complete, partial or not reported), *)
(* or there is no result.                                                  *)
DerivedStates == {"none", "open", "settled"}

(* cancel_requested_at, as set or not set.                                 *)
CancelMarks == {"none", "requested"}

Head == [state     : Queued \cup Active \cup Terminal \cup Missing,
         attempt   : Nat,
         epoch     : Nat,
         holder    : Slots \cup {NoSlot},
         expires   : Times,
         heartbeat : Times,
         avail     : Times,
         created   : Times,
         cancel    : CancelMarks,
         derived   : DerivedStates]

EmptyHead == [state |-> "absent", attempt |-> 0, epoch |-> 0,
              holder |-> NoSlot, expires |-> Null, heartbeat |-> Null,
              avail |-> Null, created |-> Null,
              cancel |-> "none", derived |-> "none"]

(* A ClaimedScanJob: the lease, and what its copy of the job says.         *)
Claims == [job : Jobs, epoch : Nat, attempt : Nat, cancel : CancelMarks]

EvictedHead == [EmptyHead EXCEPT !.state = "evicted"]

NoOpLease == [holder |-> NoOp, expires |-> Null]
NoJob == -1
NoClaim == [job |-> NoJob, epoch |-> 0, attempt |-> 0, cancel |-> "none"]

Exists(h) == h.state \notin Missing

(* A head whose lease is valid for a caller that believes the time is t.   *)
Leased(h, t) == h.state \in Active /\ h.expires > t

ClearLease(h) ==
  [h EXCEPT !.holder = NoSlot, !.expires = Null, !.heartbeat = Null]

(* The values `now` may have in a call that runs at the present instant.   *)
Readings == {t \in 0 .. clock : t >= clock - ClockLag}

-----------------------------------------------------------------------------
Init ==
  /\ heads = [j \in Jobs |-> EmptyHead]
  /\ opLease = [g \in Targets |-> NoOpLease]
  /\ claim = [s \in Slots |-> NoClaim]
  /\ op = [o \in Ops |-> NoTarget]
  /\ clock = 0

-----------------------------------------------------------------------------
(* Creating heads.                                                         *)

Present == {j \in Jobs : Exists(heads[j])}
(* Faulty: rows of unfinished jobs are reclaimed too.                      *)
EvictableUnfinished == Present

Evictable == {j \in Present : heads[j].state \in Terminal}

Smaller(a, b) == IF a < b THEN a ELSE b

(* _make_room_for_job: the sets of terminal heads that may go.  Which of   *)
(* the terminal heads is the oldest is left open.                          *)
Evictions ==
  LET count == Cardinality(Present)
      tenth == IF MaxJobs \div 10 > 1 THEN MaxJobs \div 10 ELSE 1
      lowWater == IF MaxJobs > tenth THEN MaxJobs - tenth ELSE 0
      remove == Smaller(count - lowWater, Cardinality(Evictable))
  IN  IF MaxJobs = 0 \/ count < MaxJobs
      THEN {{}}
      ELSE {E \in SUBSET Evictable : E /= {} /\ Cardinality(E) = remove}

(* create: insert the row, after reclaiming terminal rows at capacity.     *)
Insert(j, row) ==
  \E E \in Evictions :
    heads' = [k \in Jobs |->
                IF k = j THEN row
                ELSE IF k \in E THEN EvictedHead
                ELSE heads[k]]

NewHead(t) == [EmptyHead EXCEPT !.state = "pending", !.avail = t, !.created = t]

(* A submission with a fresh uuid.  A repeated Idempotency-Key returns the *)
(* stored job or a conflict and writes nothing.                            *)
Create(j, t) ==
  /\ j \notin LegacyJobs
  /\ heads[j].state = "absent"
  /\ KeyOf[j] = NoKey \/ \A k \in Present : KeyOf[k] /= KeyOf[j]
  /\ Insert(j, NewHead(t))
  /\ UNCHANGED <<opLease, claim, op, clock>>

(* import_legacy, at startup: a legacy job without a head is created in    *)
(* the state it was left in, in-flight work as failed.                     *)
LegacyHead(st, a) ==
  [EmptyHead EXCEPT !.state = IF st \in Active THEN "failed" ELSE st,
                    !.attempt = a,
                    !.avail = IF st \in Queued THEN 0 ELSE Null,
                    !.created = 0,
                    !.derived = IF st = "succeeded" THEN "settled" ELSE "none"]

ImportLegacy(j, st, a) ==
  /\ j \in LegacyJobs
  /\ ~ Exists(heads[j])
  /\ Insert(j, LegacyHead(st, a))
  /\ UNCHANGED <<opLease, claim, op, clock>>

-----------------------------------------------------------------------------
(* Claiming.                                                               *)

Exhausted(h, t) ==
  h.state \in Queued /\ h.attempt >= MaxAttempts /\ h.avail <= t

(* _fail_exhausted *)
FailedHead(h) == [ClearLease(h) EXCEPT !.state = "failed", !.avail = Null]

FailExhausted(t) ==
  [j \in Jobs |-> IF Exhausted(heads[j], t) THEN FailedHead(heads[j]) ELSE heads[j]]

(* DELETE FROM target_operation_leases WHERE lease_expires_at_us <= now    *)
SweepOps(t) ==
  [g \in Targets |-> IF opLease[g].expires > t THEN opLease[g] ELSE NoOpLease]

(* Faulty: the claim query does not look at the other jobs of the target.  *)
ClaimableAnyTarget(hs, ol, j, t) ==
  /\ \/ hs[j].state \in Queued /\ hs[j].attempt < MaxAttempts /\ hs[j].avail <= t
     \/ hs[j].state \in Active /\ hs[j].expires <= t
  /\ ~ ol[TargetOf[j]].expires > t

(* Faulty: a running job is claimed although its lease is valid.           *)
ClaimableStolen(hs, ol, j, t) ==
  \/ hs[j].state \in Queued /\ hs[j].attempt < MaxAttempts /\ hs[j].avail <= t
  \/ hs[j].state \in Active

(* The WHERE clause of the claim query.                                    *)
Claimable(hs, ol, j, t) ==
  /\ \/ /\ hs[j].state \in Queued
        /\ hs[j].attempt < MaxAttempts
        /\ hs[j].avail <= t
     \/ /\ hs[j].state \in Active
        /\ hs[j].expires <= t
  /\ \A k \in Jobs \ {j} :
        TargetOf[k] = TargetOf[j] => ~ Leased(hs[k], t)
  /\ ~ ol[TargetOf[j]].expires > t

(* exclude_job_ids: the jobs this worker_id is already executing.          *)
Executing(s) == {claim[r].job : r \in {r \in Slots : OwnerOf[r] = OwnerOf[s]}}

Candidates(hs, ol, t, exclude) ==
  {j \in Jobs \ exclude : Claimable(hs, ol, j, t)}

(* The ORDER BY of the claim query.                                        *)
Priority(h) ==
  CASE h.state = "cancelling" -> 0
    [] h.state = "running" -> 1
    [] OTHER -> 2

Due(h) == IF h.avail = Null THEN h.created ELSE h.avail

ClaimedBefore(hs, j, k) ==
  LET a == hs[j]
      b == hs[k]
  IN  \/ Priority(a) < Priority(b)
      \/ /\ Priority(a) = Priority(b)
         /\ \/ Due(a) < Due(b)
            \/ Due(a) = Due(b) /\ a.created < b.created
            \/ Due(a) = Due(b) /\ a.created = b.created /\ j < k

(* An expired final execution is claimed once more, as attempt max + 1,    *)
(* to hand over what it left behind.                                       *)
NextAttempt(h) ==
  IF h.state = "running" /\ h.attempt >= MaxAttempts
  THEN MaxAttempts + 1
  ELSE h.attempt + 1

ClaimedHead(h, s, t) ==
  LET cancelling == h.state = "cancelling"
  IN  [h EXCEPT !.state = IF cancelling THEN "cancelling" ELSE "running",
                !.attempt = IF cancelling THEN h.attempt ELSE NextAttempt(h),
                !.avail = IF cancelling THEN h.avail ELSE Null,
                !.epoch = h.epoch + 1,
                !.holder = s,
                !.expires = t + LeaseTTL,
                !.heartbeat = t]

(* Faulty: cancelling jobs are not counted.                                *)
RunningCountNarrow(hs, t) ==
  Cardinality({j \in Jobs : hs[j].state = "running" /\ hs[j].expires > t})

RunningCount(hs, t) == Cardinality({j \in Jobs : Leased(hs[j], t)})

(* claim_next, when it returns a claim on job j.                           *)
ClaimNext(s, j, t, exclude) ==
  LET hs == FailExhausted(t)
      ol == SweepOps(t)
      row == ClaimedHead(hs[j], s, t)
  IN  /\ claim[s] = NoClaim
      /\ RunningCount(hs, t) < MaxRunning
      /\ j \in Candidates(hs, ol, t, exclude)
      /\ \A k \in Candidates(hs, ol, t, exclude) \ {j} : ClaimedBefore(hs, j, k)
      /\ row.epoch <= MaxEpoch
      /\ heads' = [hs EXCEPT ![j] = row]
      /\ opLease' = ol
      /\ claim' = [claim EXCEPT ![s] =
                     [job |-> j, epoch |-> row.epoch,
                      attempt |-> row.attempt, cancel |-> row.cancel]]
      /\ UNCHANGED <<op, clock>>

(* claim_next, when it returns None: its clean-up is committed all the     *)
(* same.                                                                   *)
ClaimNone(s, t, exclude) ==
  LET hs == FailExhausted(t)
      ol == SweepOps(t)
  IN  /\ claim[s] = NoClaim
      /\ \/ RunningCount(hs, t) >= MaxRunning
         \/ Candidates(hs, ol, t, exclude) = {}
      /\ heads' = hs
      /\ opLease' = ol
      /\ UNCHANGED <<claim, op, clock>>

-----------------------------------------------------------------------------
(* Calls of a worker that holds a claim.                                   *)

(* _leased_row: the row of the claim in slot s, still leased to it.        *)
LeasedRow(s, t) ==
  LET c == claim[s]
      h == heads[c.job]
  IN  /\ c /= NoClaim
      /\ h.holder = s
      /\ h.epoch = c.epoch
      /\ h.state \in Active
      /\ h.expires > t
      /\ h.heartbeat <= t
      /\ ~ opLease[TargetOf[c.job]].expires > t

(* renew, which returns the claim with a fresh copy of the stored job.     *)
Renew(s, t) ==
  /\ LeasedRow(s, t)
  /\ heads' = [heads EXCEPT ![claim[s].job].expires = t + LeaseTTL,
                            ![claim[s].job].heartbeat = t]
  /\ claim' = [claim EXCEPT ![s].attempt = heads[claim[s].job].attempt,
                            ![s].cancel = heads[claim[s].job].cancel]
  /\ UNCHANGED <<opLease, op, clock>>

(* Faulty: the outcome of a worker wins over a cancellation.               *)
CompletableAlways(j, state) == TRUE

(* A cancelling head accepts a cancellation, a failure, or the result of a *)
(* host or trace scan that Analyzer has already acknowledged.              *)
Completable(j, state) ==
  \/ heads[j].state /= "cancelling"
  \/ state \in {"cancelled", "failed"}
  \/ state = "succeeded" /\ j \notin Guards

(* The job that complete writes is built from the claim's own snapshot.    *)
CompletedHead(h, c, t, state, derived) ==
  [ClearLease(h) EXCEPT !.state = state,
                        !.attempt = c.attempt,
                        !.cancel = c.cancel,
                        !.avail = IF state = "retrying" THEN t + RetryDelay ELSE Null,
                        !.derived = derived]

Complete(s, t, state, derived) ==
  LET j == claim[s].job
  IN  /\ LeasedRow(s, t)
      /\ Completable(j, state)
      /\ heads' = [heads EXCEPT ![j] = CompletedHead(@, claim[s], t, state, derived)]
      /\ claim' = [claim EXCEPT ![s] = NoClaim]
      /\ UNCHANGED <<opLease, op, clock>>

(* Faulty: a job is retried whatever its attempt.                          *)
OutcomesUnbudgeted(c) ==
  {<<"succeeded", "open">>, <<"succeeded", "settled">>, <<"failed", "none">>,
   <<"cancelled", "none">>, <<"retrying", "none">>}

(* What the callers of complete pass: a result exactly with SUCCEEDED, and *)
(* RETRYING only while attempts remain.                                    *)
Outcomes(c) ==
  {<<"succeeded", "open">>, <<"succeeded", "settled">>,
   <<"failed", "none">>, <<"cancelled", "none">>}
  \cup (IF c.attempt < MaxAttempts THEN {<<"retrying", "none">>} ELSE {})

(* The worker lets go of its claim without a transaction: its process      *)
(* died, it lost the lease, it shuts down, or the outcome is uncertain and *)
(* the lease must expire first.                                            *)
Abandon(s) ==
  /\ claim[s] /= NoClaim
  /\ claim' = [claim EXCEPT ![s] = NoClaim]
  /\ UNCHANGED <<heads, opLease, op, clock>>

-----------------------------------------------------------------------------
(* Calls of the API and of the derived-state reconciler.                   *)

(* Queued work is cancelled at once; a running head keeps its lease and    *)
(* waits for its worker.                                                   *)
CancelledHead(h) ==
  IF h.state \in Queued
  THEN [h EXCEPT !.state = "cancelled", !.cancel = "requested", !.avail = Null]
  ELSE [h EXCEPT !.state = "cancelling", !.cancel = "requested"]

RequestCancel(j) ==
  /\ heads[j].state \in Queued \cup {"running"}
  /\ heads' = [heads EXCEPT ![j] = CancelledHead(@)]
  /\ UNCHANGED <<opLease, claim, op, clock>>

RetriedHead(h, t) ==
  [ClearLease(h) EXCEPT !.state = "pending", !.attempt = 0,
                        !.avail = t, !.cancel = "none", !.derived = "none"]

ManualRetry(j, t) ==
  /\ heads[j].state \in {"failed", "cancelled"}
  /\ heads' = [heads EXCEPT ![j] = RetriedHead(@, t)]
  /\ UNCHANGED <<opLease, claim, op, clock>>

(* Faulty: a late answer overwrites a settled outcome.                     *)
UpdateDerivedLate(j, derived) ==
  /\ heads[j].state = "succeeded"
  /\ heads' = [heads EXCEPT ![j].derived = derived]
  /\ UNCHANGED <<opLease, claim, op, clock>>

UpdateDerivedResult(j, derived) ==
  /\ heads[j].state = "succeeded"
  /\ heads[j].derived = "open"
  /\ heads' = [heads EXCEPT ![j].derived = derived]
  /\ UNCHANGED <<opLease, claim, op, clock>>

-----------------------------------------------------------------------------
(* Direct operations on a target.                                          *)

(* Faulty: the fence spends the epoch and leaves the token.                *)
FencedHeadKeepsToken(h) == [h EXCEPT !.epoch = @ + 1]

(* The fence of acquire_target_operation: expired leases on the target are *)
(* cleared and their epoch is spent.                                       *)
FencedHead(h) == [ClearLease(h) EXCEPT !.epoch = @ + 1]

AcquireTargetOperation(o, g, t) ==
  /\ op[o] = NoTarget
  /\ \A j \in Jobs : TargetOf[j] = g => ~ Leased(heads[j], t)
  /\ SweepOps(t)[g] = NoOpLease
  /\ \A j \in Jobs : TargetOf[j] = g => heads[j].epoch < MaxEpoch
  /\ opLease' = [SweepOps(t) EXCEPT ![g] = [holder |-> o, expires |-> t + LeaseTTL]]
  /\ heads' = [j \in Jobs |->
                 IF TargetOf[j] = g /\ heads[j].state \in Active /\ heads[j].expires <= t
                 THEN FencedHead(heads[j])
                 ELSE heads[j]]
  /\ op' = [op EXCEPT ![o] = g]
  /\ UNCHANGED <<claim, clock>>

(* acquire_target_operation, when it returns None: the sweep is committed. *)
TargetOperationBusy(o, g, t) ==
  /\ op[o] = NoTarget
  /\ \/ \E j \in Jobs : TargetOf[j] = g /\ Leased(heads[j], t)
     \/ SweepOps(t)[g] /= NoOpLease
  /\ opLease' = SweepOps(t)
  /\ UNCHANGED <<heads, claim, op, clock>>

RenewTargetOperation(o, t) ==
  /\ op[o] /= NoTarget
  /\ opLease[op[o]].holder = o
  /\ opLease[op[o]].expires > t
  /\ opLease' = [opLease EXCEPT ![op[o]].expires = t + LeaseTTL]
  /\ UNCHANGED <<heads, claim, op, clock>>

(* release_target_operation deletes the row only if it is still the one    *)
(* acquired; the request ends either way.                                  *)
ReleaseTargetOperation(o) ==
  /\ op[o] /= NoTarget
  /\ opLease' = IF opLease[op[o]].holder = o
                THEN [opLease EXCEPT ![op[o]] = NoOpLease]
                ELSE opLease
  /\ op' = [op EXCEPT ![o] = NoTarget]
  /\ UNCHANGED <<heads, claim, clock>>

(* The API process dies: the row stays until it expires.                   *)
CrashTargetOperation(o) ==
  /\ op[o] /= NoTarget
  /\ op' = [op EXCEPT ![o] = NoTarget]
  /\ UNCHANGED <<heads, opLease, claim, clock>>

-----------------------------------------------------------------------------
Tick ==
  /\ clock < MaxTime
  /\ clock' = clock + 1
  /\ UNCHANGED <<heads, opLease, claim, op>>

ApiStep ==
  \/ \E j \in Jobs : \E t \in Readings : Create(j, t)
  \/ \E j \in LegacyJobs, st \in Queued \cup Active \cup Terminal,
        a \in 0 .. MaxAttempts : ImportLegacy(j, st, a)
  \/ \E j \in Jobs : RequestCancel(j)
  \/ \E j \in Jobs : \E t \in Readings : ManualRetry(j, t)
  \/ \E j \in Jobs, d \in {"open", "settled"} : UpdateDerivedResult(j, d)

WorkerStep(s) ==
  \/ \E j \in Jobs : \E t \in Readings : ClaimNext(s, j, t, Executing(s))
  \/ \E t \in Readings : ClaimNone(s, t, Executing(s))
  \/ \E t \in Readings : Renew(s, t)
  \/ \E t \in Readings : \E out \in Outcomes(claim[s]) : Complete(s, t, out[1], out[2])
  \/ Abandon(s)

OpStep(o) ==
  \/ \E g \in Targets : \E t \in Readings : AcquireTargetOperation(o, g, t)
  \/ \E g \in Targets : \E t \in Readings : TargetOperationBusy(o, g, t)
  \/ \E t \in Readings : RenewTargetOperation(o, t)
  \/ ReleaseTargetOperation(o)
  \/ CrashTargetOperation(o)

Next ==
  \/ ApiStep
  \/ \E s \in Slots : WorkerStep(s)
  \/ \E o \in Ops : OpStep(o)
  \/ Tick

Spec == Init /\ [][Next]_vars

-----------------------------------------------------------------------------
(* Type invariant.                                                         *)
TypeOK ==
  /\ heads \in [Jobs -> Head]
  /\ opLease \in [Targets -> [holder : Ops \cup {NoOp}, expires : Times]]
  /\ claim \in [Slots -> Claims \cup {NoClaim}]
  /\ op \in [Ops -> Targets \cup {NoTarget}]
  /\ clock \in Nat

(* Two jobs of one target never hold valid leases at the same time:        *)
(* claim_next and renew serialise the work on a target across workers and  *)
(* Form processes.                                                         *)
TargetSerialized ==
  \A j, k \in Jobs :
    j /= k /\ TargetOf[j] = TargetOf[k]
      => ~ (Leased(heads[j], clock) /\ Leased(heads[k], clock))

(* While a direct operation has its row on a target, no job of the target  *)
(* has a lease to renew or to complete with, however old the clock reading *)
(* its worker presents: the fence of acquire_target_operation.             *)
OperationFencesJobs ==
  \A g \in Targets : opLease[g] /= NoOpLease =>
    \A j \in Jobs : TargetOf[j] = g => heads[j].holder = NoSlot

(* The number of valid leases never exceeds max_running, although leases   *)
(* expire, are renewed and are reclaimed by different processes.           *)
RunningCapRespected ==
  Cardinality({j \in Jobs : Leased(heads[j], clock)}) <= MaxRunning

(* The claim whose token a head stores carries that head's epoch and       *)
(* attempt, so complete, which writes the whole snapshot back, cannot undo *)
(* a later claim.                                                          *)
SnapshotCurrent ==
  \A s \in Slots : \A j \in Jobs :
    heads[j].holder = s /\ claim[s].job = j
      => /\ heads[j].state \in Active
         /\ claim[s].epoch = heads[j].epoch
         /\ claim[s].attempt = heads[j].attempt

(* A job is executed at most max_attempts times plus one reconciliation    *)
(* claim, and a job that is queued again has an attempt left (only an      *)
(* imported one may not, and claim_next fails it).                         *)
AttemptBudget ==
  \A j \in Jobs :
    /\ heads[j].attempt <= MaxAttempts + 1
    /\ heads[j].state \in Queued /\ j \notin LegacyJobs => heads[j].attempt < MaxAttempts
    /\ heads[j].attempt = MaxAttempts + 1 => heads[j].state \in Active \cup Terminal

(* An accepted cancellation is never lost: a cancelling head is not queued *)
(* or run again, and ends cancelled, failed, or succeeded with a result    *)
(* that Analyzer already holds, which a Guard job cannot have.             *)
CancellationSticks ==
  [][\A j \in Jobs : heads[j].state = "cancelling" =>
       \/ heads'[j].state \in {"cancelling", "cancelled", "failed"}
       \/ heads'[j].state = "succeeded" /\ j \notin Guards]_vars

(* A recorded success is final, and its settled Analyzer outcome is not    *)
(* reopened; only reclaiming the row removes it.                           *)
SuccessIsFinal ==
  [][\A j \in Jobs : heads[j].state = "succeeded" =>
       \/ heads'[j].state = "evicted"
       \/ /\ heads'[j].state = "succeeded"
          /\ heads[j].derived = "settled" => heads'[j].derived = "settled"]_vars

(* Reclaiming rows at capacity never loses unfinished work, and fencing    *)
(* epochs only grow while the row exists.                                  *)
HeadsSurvive ==
  [][\A j \in Jobs :
       /\ heads[j].state \in Queued \cup Active => Exists(heads'[j])
       /\ Exists(heads[j]) /\ Exists(heads'[j]) => heads'[j].epoch >= heads[j].epoch]_vars
=============================================================================
