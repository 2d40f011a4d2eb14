---------------------------- MODULE IngestLedger ----------------------------
(***************************************************************************)
(* Analyzer's durable ingest ledger and the executors that derive results  *)
(* from it: analyzer/src/analyzer/api/ingest_queue.py and the processing   *)
(* half of analyzer/src/analyzer/api/ingest.py.                            *)
(*                                                                         *)
(* A row of the ledger is leased to one executor at a time: the background *)
(* worker of an Analyzer process, or a request handler where the results   *)
(* are derived inline.  The ledger is fenced by the lease token.  The raw  *)
(* and derived stores, which the executor writes in between, are not: they *)
(* are protected by looking before appending.                              *)
(*                                                                         *)
(* Time is abstract: a lease is valid until it expires, a retried row is   *)
(* not due until its backoff has elapsed.  Which executor holds the token  *)
(* of a row is recorded as its holder; an executor works on one row.  The  *)
(* result derived from a report is its detection result, from a batch the  *)
(* alert it raises: the batches considered raise one.                      *)
(***************************************************************************)
EXTENDS Naturals, FiniteSets

CONSTANTS
  Keys,          \* idempotency keys, kind:source:envelope id
  Reports,       \* the keys of asset reports; the others are batches
  Payloads,      \* payload digests
  Workers,       \* background workers, DerivedWorker
  Handlers,      \* request handlers that derive inline, _run_inline
  NoExecutor,    \* no lease token
  MaxCompleted,  \* max_completed: the deduplication window
  Faults,        \* what may go wrong, of FaultKinds
  MaxFaults      \* bound of the number of faults

Executors == Workers \cup Handlers

(* crash      an executor's process dies                                   *)
(* error      the processor fails or raises                                *)
(* heartbeat  an exception ends the heartbeat thread                       *)
(* stall      a lease expires although its heartbeat runs                  *)
FaultKinds == {"crash", "error", "heartbeat", "stall"}

ASSUME ExecutorAssumption == NoExecutor \notin Executors /\ Workers \cap Handlers = {}
ASSUME WindowAssumption == MaxCompleted \in Nat \ {0} /\ MaxFaults \in Nat
ASSUME LedgerFaultsAssumption == Faults \subseteq FaultKinds
ASSUME ReportsAssumption == Reports \subseteq Keys

VARIABLES
  task,     \* ingest_tasks: the row of every key
  ahead,    \* created_at: the rows that are older than the row of a key
  work,     \* what every executor is doing
  raw,      \* rows of the raw stores per key
  derived,  \* detection results (not failed ones) or alerts per key
  verdict,  \* what the newest result of a key says
  faults    \* faults so far

ledgerVars == <<task, ahead, work, raw, derived, verdict, faults>>

Final == {"complete", "partial"}
Open == {"pending", "processing"}

Task == [state   : Open \cup Final \cup {"absent"},
         payload : Payloads \cup {"none"},
         holder  : Executors \cup {NoExecutor},
         lease   : {"none", "valid", "expired"},
         due     : BOOLEAN]

NoTask == [state |-> "absent", payload |-> "none", holder |-> NoExecutor,
           lease |-> "none", due |-> FALSE]

Phases == {"idle", "claimed", "append", "recover", "derive", "write", "finish"}

Work == [phase   : Phases,
         key     : Keys \cup {"none"},
         beating : BOOLEAN,
         outcome : {"none", "failed"} \cup Final]

(* gaps: the detection is complete and not truncated, but a row of its     *)
(* coverage matrix is not.                                                 *)
Verdicts == {"complete", "partial", "gaps"}

IdleWork == [phase |-> "idle", key |-> "none", beating |-> FALSE, outcome |-> "none"]

Init ==
  /\ task = [k \in Keys |-> NoTask]
  /\ ahead = [k \in Keys |-> {}]
  /\ work = [x \in Executors |-> IdleWork]
  /\ raw = [k \in Keys |-> 0]
  /\ derived = [k \in Keys |-> 0]
  /\ verdict = [k \in Keys |-> "none"]
  /\ faults = 0

Fault(kind) ==
  /\ kind \in Faults
  /\ faults < MaxFaults
  /\ faults' = faults + 1

-----------------------------------------------------------------------------
(* The ledger.                                                             *)

Rows == {k \in Keys : task[k].state /= "absent"}

(* submit of a key without a row.  For a key with a row it replays the     *)
(* stored state, or reports a conflict, and writes nothing.                *)
Submit(k, p) ==
  /\ task[k] = NoTask
  /\ task' = [task EXCEPT ![k] = [NoTask EXCEPT !.state = "pending",
                                                !.payload = p, !.due = TRUE]]
  /\ ahead' = [ahead EXCEPT ![k] = Rows]
  /\ UNCHANGED <<work, raw, derived, verdict, faults>>

(* Faulty variant of Claimable: an abandoned row is not taken over.        *)
ClaimablePending(k) == task[k].state = "pending" /\ task[k].due

(* The WHERE clause of _claim.                                             *)
Claimable(k) ==
  \/ task[k].state = "pending" /\ task[k].due
  \/ task[k].state = "processing" /\ task[k].lease = "expired"

Claim(x, k) ==
  /\ work[x] = IdleWork
  /\ Claimable(k)
  /\ task' = [task EXCEPT ![k].state = "processing", ![k].holder = x, ![k].lease = "valid"]
  /\ work' = [work EXCEPT ![x] = [IdleWork EXCEPT !.phase = "claimed", !.key = k,
                                                  !.beating = TRUE]]
  /\ UNCHANGED <<ahead, raw, derived, verdict, faults>>

(* claim_next takes the oldest, claim the row of the request.              *)
ClaimNext(w) ==
  \E k \in Keys :
    /\ \A j \in ahead[k] : ~ Claimable(j)
    /\ Claim(w, k)

(* Faulty variant of Holds: the row is found by its key alone.             *)
HoldsByKey(x) == work[x] /= IdleWork /\ task[work[x].key].state /= "absent"

(* The condition of extend_lease, complete and retry: the row is being     *)
(* processed under the token of the executor.                              *)
Holds(x) ==
  LET k == work[x].key
  IN  work[x] /= IdleWork /\ task[k].state = "processing" /\ task[k].holder = x

(* extend_lease does not look at lease_until: an expired lease that nobody *)
(* has claimed is valid again.                                             *)
ExtendLease(x) ==
  /\ work[x].beating
  /\ Holds(x)
  /\ task[work[x].key].lease = "expired"
  /\ task' = [task EXCEPT ![work[x].key].lease = "valid"]
  /\ UNCHANGED <<ahead, work, raw, derived, verdict, faults>>

Excess(rows) ==
  IF Cardinality(rows) < MaxCompleted
  THEN {{}}
  ELSE {G \in SUBSET rows : Cardinality(rows \ G) = MaxCompleted - 1}

(* _prune_completed: what may be deleted when k has just been completed.   *)
(* The window holds k and the most recent of the other completed rows.     *)
Pruned(k) == Excess({j \in Keys \ {k} : task[j].state \in Final})

Complete(x) ==
  LET k == work[x].key
  IN  /\ work[x].phase = "finish"
      /\ work[x].outcome \in Final
      /\ Holds(x)
      /\ \E gone \in Pruned(k) :
           /\ task' = [j \in Keys |->
                         IF j = k
                         THEN [task[k] EXCEPT !.state = work[x].outcome,
                                              !.holder = NoExecutor, !.lease = "none"]
                         ELSE IF j \in gone THEN NoTask
                         ELSE task[j]]
           /\ ahead' = [j \in Keys |-> IF j \in gone THEN {} ELSE ahead[j] \ gone]
      /\ work' = [work EXCEPT ![x] = IdleWork]
      /\ UNCHANGED <<raw, derived, verdict, faults>>

(* retry: a background worker backs off, a handler does not.               *)
Retry(x) ==
  LET k == work[x].key
  IN  /\ work[x].phase = "finish"
      /\ work[x].outcome = "failed"
      /\ Holds(x)
      /\ task' = [task EXCEPT ![k].state = "pending", ![k].holder = NoExecutor,
                              ![k].lease = "none", ![k].due = x \in Handlers]
      /\ work' = [work EXCEPT ![x] = IdleWork]
      /\ UNCHANGED <<ahead, raw, derived, verdict, faults>>

(* complete or retry changed no row: the lease was lost.                   *)
Fenced(x) ==
  /\ work[x].phase = "finish"
  /\ ~ Holds(x)
  /\ work' = [work EXCEPT ![x] = IdleWork]
  /\ UNCHANGED <<task, ahead, raw, derived, verdict, faults>>

-----------------------------------------------------------------------------
(* The processor, _process_ingest_task.                                    *)

Step(x, phase) == work' = [work EXCEPT ![x].phase = phase]

EndWith(x, outcome) ==
  work' = [work EXCEPT ![x].phase = "finish", ![x].outcome = outcome]

(* Faulty variant of LookForRaw: the envelope is always appended.          *)
LookForRawNever(x) ==
  /\ work[x].phase = "claimed"
  /\ Step(x, "append")
  /\ UNCHANGED <<task, ahead, raw, derived, verdict, faults>>

(* _raw_already_stored *)
LookForRaw(x) ==
  /\ work[x].phase = "claimed"
  /\ Step(x, IF raw[work[x].key] > 0 THEN "recover" ELSE "append")
  /\ UNCHANGED <<task, ahead, raw, derived, verdict, faults>>

AppendRaw(x) ==
  /\ work[x].phase = "append"
  /\ raw' = [raw EXCEPT ![work[x].key] = @ + 1]
  /\ Step(x, IF work[x].key \in Reports THEN "write" ELSE "derive")
  /\ UNCHANGED <<task, ahead, derived, verdict, faults>>

(* The raw row was there: a report whose detection succeeded replays it,   *)
(* as complete unless the detection is partial or truncated.               *)
Replayed(k) == IF verdict[k] = "partial" THEN "partial" ELSE "complete"

(* Faulty variant of Recover: the raw row is taken for the result.         *)
RecoverTrustsRaw(x) ==
  /\ work[x].phase = "recover"
  /\ EndWith(x, Replayed(work[x].key))
  /\ UNCHANGED <<task, ahead, raw, derived, verdict, faults>>

Recover(x) ==
  LET k == work[x].key
  IN  /\ work[x].phase = "recover"
      /\ \/ /\ k \in Reports /\ derived[k] > 0
            /\ EndWith(x, Replayed(k))
         \/ /\ k \in Reports /\ derived[k] = 0
            /\ Step(x, "write")
         \/ /\ k \notin Reports
            /\ Step(x, "derive")
      /\ UNCHANGED <<task, ahead, raw, derived, verdict, faults>>

(* Faulty variant of LookForAlert: the alert is appended unseen.           *)
LookForAlertNever(x) ==
  /\ work[x].phase = "derive"
  /\ Step(x, "write")
  /\ UNCHANGED <<task, ahead, raw, derived, verdict, faults>>

(* _DerivedBudget.append of an alert looks for its alert_id first.         *)
LookForAlert(x) ==
  /\ work[x].phase = "derive"
  /\ \/ /\ derived[work[x].key] > 0
        /\ \E o \in Final : EndWith(x, o)
     \/ /\ derived[work[x].key] = 0
        /\ Step(x, "write")
  /\ UNCHANGED <<task, ahead, raw, derived, verdict, faults>>

(* _auto_detect is complete only if the whole coverage matrix is.          *)
Concluded(v) == IF v = "complete" THEN "complete" ELSE "partial"

WriteDerived(x) ==
  LET k == work[x].key
  IN  /\ work[x].phase = "write"
      /\ derived' = [derived EXCEPT ![k] = @ + 1]
      /\ \E v \in IF k \in Reports THEN Verdicts ELSE Final :
           verdict' = [verdict EXCEPT ![k] = v] /\ EndWith(x, Concluded(v))
      /\ UNCHANGED <<task, ahead, raw, faults>>

(* The processor raises, or detection or correlation fails.                *)
ProcessorFails(x) ==
  /\ work[x].phase \in Phases \ {"idle", "finish"}
  /\ Fault("error")
  /\ EndWith(x, "failed")
  /\ UNCHANGED <<task, ahead, raw, derived, verdict>>

-----------------------------------------------------------------------------
(* Time and failures.                                                      *)

Elapse(k) ==
  /\ task[k].state = "pending" /\ ~ task[k].due
  /\ task' = [task EXCEPT ![k].due = TRUE]
  /\ UNCHANGED <<ahead, work, raw, derived, verdict, faults>>

Heartbeats(k) == \E x \in Executors : work[x].key = k /\ work[x].beating /\ Holds(x)

Lapse(k) ==
  /\ task[k].state = "processing" /\ task[k].lease = "valid"
  /\ task' = [task EXCEPT ![k].lease = "expired"]
  /\ UNCHANGED <<ahead, work, raw, derived, verdict>>

Expire(k) == ~ Heartbeats(k) /\ Lapse(k) /\ UNCHANGED faults

Stall(k) == Heartbeats(k) /\ Lapse(k) /\ Fault("stall")

HeartbeatDies(x) ==
  /\ work[x].beating
  /\ Fault("heartbeat")
  /\ work' = [work EXCEPT ![x].beating = FALSE]
  /\ UNCHANGED <<task, ahead, raw, derived, verdict>>

Crash(x) ==
  /\ work[x] /= IdleWork
  /\ Fault("crash")
  /\ work' = [work EXCEPT ![x] = IdleWork]
  /\ UNCHANGED <<task, ahead, raw, derived, verdict>>

-----------------------------------------------------------------------------
ProcessStep(x) ==
  \/ LookForRaw(x)
  \/ AppendRaw(x)
  \/ Recover(x)
  \/ LookForAlert(x)
  \/ WriteDerived(x)
  \/ Complete(x)
  \/ Retry(x)
  \/ Fenced(x)

Environment ==
  \/ \E k \in Keys, p \in Payloads : Submit(k, p)
  \/ \E h \in Handlers, k \in Keys : Claim(h, k)
  \/ \E k \in Keys : Stall(k)
  \/ \E x \in Executors : ProcessorFails(x) \/ HeartbeatDies(x) \/ Crash(x)

Next ==
  \/ \E x \in Executors : ProcessStep(x) \/ ExtendLease(x)
  \/ \E w \in Workers : ClaimNext(w)
  \/ \E k \in Keys : Elapse(k) \/ Expire(k)
  \/ Environment

(* A started thread runs on, a background worker polls, time passes.       *)
Fairness ==
  /\ \A x \in Executors : WF_ledgerVars(ProcessStep(x))
  /\ \A w \in Workers : WF_ledgerVars(ClaimNext(w))
  /\ \A k \in Keys : WF_ledgerVars(Elapse(k)) /\ WF_ledgerVars(Expire(k))

Spec == Init /\ [][Next]_ledgerVars /\ Fairness

-----------------------------------------------------------------------------
(* Type invariant.  The age of the rows orders them, and no other keys.    *)
TypeOK ==
  /\ task \in [Keys -> Task]
  /\ ahead \in [Keys -> SUBSET Keys]
  /\ \A k \in Keys : ahead[k] \subseteq Rows /\ (k \notin Rows => ahead[k] = {})
  /\ \A j, k \in Rows : j \in ahead[k] <=> j /= k /\ k \notin ahead[j]
  /\ \A k \in Keys : \A j \in ahead[k] : ahead[j] \subseteq ahead[k]
  /\ work \in [Executors -> Work]
  /\ raw \in [Keys -> Nat]
  /\ derived \in [Keys -> Nat]
  /\ verdict \in [Keys -> Verdicts \cup {"none"}]
  /\ faults \in 0 .. MaxFaults

(* A recorded outcome has its envelope and its result in the stores,       *)
(* whichever executors processed the envelope and wherever they failed.    *)
OutcomeIsBacked ==
  \A k \in Keys : task[k].state \in Final => raw[k] > 0 /\ derived[k] > 0

(* An envelope and its result are stored once, although executors crash    *)
(* between any two writes and others take over.                            *)
StoredOnce == \A k \in Keys : raw[k] <= 1 /\ derived[k] <= 1

(* The outcome recorded for a report is the one its derivation concluded,  *)
(* also when a crash made another executor replay the stored result.       *)
OutcomeIsVerdict ==
  \A k \in Reports : task[k].state \in Final => task[k].state = Concluded(verdict[k])

(* A recorded outcome does not change, not even by an executor that lost   *)
(* its lease long ago; it can only age out of the window.                  *)
OutcomeIsFinal ==
  [][\A k \in Keys : task[k].state \in Final =>
       task'[k] = task[k] \/ task'[k] = NoTask]_ledgerVars

(* Every accepted envelope gets an outcome.                                *)
AcceptedIsFinished ==
  \A k \in Keys : task[k].state \in Open ~> task[k].state \in Final

(* The ledger implements the promise of DurableIngest.                     *)
Promise == INSTANCE DurableIngest WITH
  status <- [k \in Keys |-> CASE task[k].state \in Open -> "accepted"
                              [] task[k].state \in Final -> "done"
                              [] OTHER -> "unknown"]

KeepsPromise == Promise!Spec
=============================================================================
