----------------------------- MODULE ScanWorker -----------------------------
(***************************************************************************)
(* The scan workers of Form (form/src/kcatta_form/scan_worker.py) on host  *)
(* and trace jobs, the artifact spool between collection and hand-off      *)
(* (scan_artifacts.py), and the cancel and retry endpoints (api/scans.py). *)
(*                                                                         *)
(* A slot is one _process_claim task: the execution task (_execute), the   *)
(* heartbeat beside it and the completion after it.  Every await is a      *)
(* point where the other tasks, the other Form processes and the API run,  *)
(* so the code between two awaits is one action.  The queue is JobStore,   *)
(* whose actions are conjoined with what the worker does around the call.  *)
(*                                                                         *)
(* The spool and the requests to Analyzer are not fenced by the lease: a   *)
(* worker whose lease has expired saves and forwards like any other.       *)
(*                                                                         *)
(* An artifact is named by the lease epoch under which it was collected:   *)
(* an execution collects at most once, and a collected report or batch has *)
(* identifiers of its own.                                                 *)
(***************************************************************************)
EXTENDS JobStore

CONSTANTS
  Procs,  \* Form processes, the owners of the slots
  Faults  \* what may go wrong, of FaultKinds

(* stall    a live worker's lease expires before the worker renews it      *)
(* restart  a process ends, at any point, and starts again                 *)
(* stop     a process is told to stop                                      *)
(* timeout  an execution exceeds its time limit                            *)
(* error    the spool or the transport fails                               *)
(* haste    a job is retried before its last execution is cleaned up       *)
FaultKinds == {"stall", "restart", "stop", "timeout", "error", "haste"}

ASSUME ProcsAssumption == OwnerOf \in [Slots -> Procs]
ASSUME FaultsAssumption == Faults \subseteq FaultKinds
ASSUME WorkerJobsAssumption == Guards = {} /\ LegacyJobs = {}

VARIABLES
  exec,      \* the _process_claim task of every slot
  spool,     \* the artifact file of every job
  sweep,     \* the job whose file the reconciler is about to remove
  wire,      \* artifacts on their way to Analyzer, sender dead or alive
  accepted,  \* artifacts Analyzer has stored
  result,    \* the artifact that the result of a job names
  handler,   \* the cancel request each process is serving
  stopping,  \* ScanJobWorker._stopping of every process
  retried,   \* history: the epoch of a job at its last manual retry
  asked      \* history: a cancellation was accepted since that retry

workerVars == <<exec, spool, wire, accepted, result, handler, stopping, retried, asked, sweep>>
allVars == <<vars, workerVars>>

NoArtifact == 0

(* _execute is at one of these; then the task completes its claim.         *)
Working == {"load", "check", "collect", "save", "ready", "forward"}
Completing == {"done", "decide", "race", "raceCommit", "release", "cleanup"}

(* ExecutionControl *)
Signals == {"cancel", "timeout", "shutdown", "lost"}

Exec == [phase : {"idle"} \cup Working \cup Completing,
         job : Jobs \cup {NoJob},
         art : Nat,
         control : SUBSET Signals,
         outcome : {"none", "result", "retryable", "permanent"}]

IdleExec == [phase |-> "idle", job |-> NoJob, art |-> NoArtifact,
             control |-> {}, outcome |-> "none"]

(* inClaim: stop was called while the poll loop waits for claim_next.      *)
Stopping == {"no", "inClaim", "yes"}

NoHandler == [stage |-> "none", job |-> NoJob]

WorkerInit ==
  /\ Init
  /\ exec = [s \in Slots |-> IdleExec]
  /\ spool = [j \in Jobs |-> NoArtifact]
  /\ sweep = NoJob
  /\ wire = [j \in Jobs |-> {}]
  /\ accepted = [j \in Jobs |-> {}]
  /\ result = [j \in Jobs |-> NoArtifact]
  /\ handler = [p \in Procs |-> NoHandler]
  /\ stopping = [p \in Procs |-> "no"]
  /\ retried = [j \in Jobs |-> 0]
  /\ asked = [j \in Jobs |-> FALSE]

OnlyExec == UNCHANGED <<spool, wire, accepted, result, handler, stopping, retried, asked, sweep>>

(* claim_next returns to the poll loop, which then looks at _stopping.     *)
ClaimReturns(p) ==
  /\ stopping[p] /= "yes"
  /\ stopping' = IF stopping[p] = "inClaim" THEN [stopping EXCEPT ![p] = "yes"] ELSE stopping

SlotsOf(p) == {s \in Slots : OwnerOf[s] = p}

(* _active: also a job whose artifact is still being cleaned up.           *)
ActiveJobs(p) == {exec[s].job : s \in SlotsOf(p)}

-----------------------------------------------------------------------------
(* The poll loop.                                                          *)

CancelSeen(j) == IF heads[j].state = "cancelling" THEN {"cancel"} ELSE {}

Dispatch(s, j, t) ==
  /\ exec[s] = IdleExec
  /\ ClaimReturns(OwnerOf[s])
  /\ ClaimNext(s, j, t, ActiveJobs(OwnerOf[s]))
  /\ exec' = [exec EXCEPT ![s] = [IdleExec EXCEPT !.phase = "load", !.job = j,
                                                  !.control = CancelSeen(j)]]
  /\ UNCHANGED <<spool, wire, accepted, result, handler, retried, asked, sweep>>

DispatchNone(s, t) ==
  /\ exec[s] = IdleExec
  /\ ClaimReturns(OwnerOf[s])
  /\ ClaimNone(s, t, ActiveJobs(OwnerOf[s]))
  /\ UNCHANGED <<exec, spool, wire, accepted, result, handler, retried, asked, sweep>>

(* Faulty: the artifact of a cancelling job counts as stale.               *)
RetainsArtifactNarrow(j) == heads[j].state \in Queued \cup {"running"}

(* retains_artifact *)
RetainsArtifact(j) == heads[j].state \in Queued \cup Active

(* _reconcile_artifacts_if_due holds the lock of the spool, as load, save  *)
(* and delete do; it asks the queue about a file and then removes it.  A   *)
(* pass under way when its process stops goes on.                          *)
SpoolFree == sweep = NoJob

SelectStale(j) ==
  /\ SpoolFree
  /\ spool[j] /= NoArtifact
  /\ ~ RetainsArtifact(j)
  /\ sweep' = j
  /\ UNCHANGED <<vars, exec, spool, wire, accepted, result, handler, stopping, retried, asked>>

RemoveStale(j) ==
  /\ sweep = j
  /\ sweep' = NoJob
  /\ spool' = [spool EXCEPT ![j] = NoArtifact]
  /\ UNCHANGED <<vars, exec, wire, accepted, result, handler, stopping, retried, asked>>

-----------------------------------------------------------------------------
(* _execute.                                                               *)

(* The execution task ends, with a result or an exception.                 *)
EndWith(e, outcome) == [e EXCEPT !.phase = "done", !.outcome = outcome]

Load(s) ==
  /\ exec[s].phase = "load"
  /\ SpoolFree
  /\ exec' = [exec EXCEPT ![s].phase = "check", ![s].art = spool[exec[s].job]]
  /\ UNCHANGED vars /\ OnlyExec

(* An unreadable file: an I/O error, or a checksum that does not match.    *)
LoadFails(s, outcome) ==
  /\ "error" \in Faults
  /\ exec[s].phase = "load"
  /\ SpoolFree
  /\ spool[exec[s].job] /= NoArtifact
  /\ exec' = [exec EXCEPT ![s] = EndWith(@, outcome)]
  /\ UNCHANGED vars /\ OnlyExec

(* The control after _refresh_cancellation.                                *)
Refreshed(s) ==
  IF heads[exec[s].job].state \in {"cancelling", "cancelled"}
  THEN exec[s].control \cup {"cancel"}
  ELSE exec[s].control

(* The queue cannot be read: an error of sqlite is not tried again.        *)
RefreshFails(s) ==
  /\ "error" \in Faults
  /\ exec[s].phase \in {"check", "ready"}
  /\ exec' = [exec EXCEPT ![s] = EndWith(@, "permanent")]
  /\ UNCHANGED vars /\ OnlyExec

(* A stored artifact is handed off again; without one the target is        *)
(* collected, except by the reconciliation claim after the last attempt.   *)
CheckedExec(s) ==
  LET e == [exec[s] EXCEPT !.control = Refreshed(s)]
  IN  CASE e.control /= {} -> EndWith(e, "retryable")
        [] e.control = {} /\ e.art /= NoArtifact -> [e EXCEPT !.phase = "ready"]
        [] e.control = {} /\ e.art = NoArtifact /\ claim[s].attempt > MaxAttempts
             -> EndWith(e, "permanent")
        [] OTHER -> [e EXCEPT !.phase = "collect"]

Check(s) ==
  /\ exec[s].phase = "check"
  /\ exec' = [exec EXCEPT ![s] = CheckedExec(s)]
  /\ UNCHANGED vars /\ OnlyExec

(* The transport returns an envelope; an interrupted execution drops it.   *)
Collected(s) ==
  /\ exec[s].phase = "collect"
  /\ exec' = [exec EXCEPT ![s] =
                IF exec[s].control /= {}
                THEN EndWith(@, "retryable")
                ELSE [@ EXCEPT !.phase = "save", !.art = claim[s].epoch]]
  /\ UNCHANGED vars /\ OnlyExec

CollectFails(s, outcome) ==
  /\ "error" \in Faults
  /\ exec[s].phase = "collect"
  /\ exec' = [exec EXCEPT ![s] = EndWith(@, outcome)]
  /\ UNCHANGED vars /\ OnlyExec

(* Faulty: the artifact is forwarded without having been spooled.          *)
SaveSkipped(s) ==
  /\ exec[s].phase = "save"
  /\ exec' = [exec EXCEPT ![s].phase = "ready"]
  /\ UNCHANGED vars /\ OnlyExec

(* ScanArtifactStore.save replaces the file of the job.                    *)
Save(s) ==
  /\ exec[s].phase = "save"
  /\ SpoolFree
  /\ spool' = [spool EXCEPT ![exec[s].job] = exec[s].art]
  /\ exec' = [exec EXCEPT ![s].phase = "ready"]
  /\ UNCHANGED <<vars, wire, accepted, result, handler, stopping, retried, asked, sweep>>

(* The spool is full, or the directory cannot be written.                  *)
SaveFails(s, outcome) ==
  /\ "error" \in Faults
  /\ exec[s].phase = "save"
  /\ exec' = [exec EXCEPT ![s] = EndWith(@, outcome)]
  /\ UNCHANGED vars /\ OnlyExec

(* The last look at the head before the hand-off that cannot be revoked.   *)
Forward(s) ==
  LET e == [exec[s] EXCEPT !.control = Refreshed(s)]
      go == e.control = {}
  IN  /\ exec[s].phase = "ready"
      /\ exec' = [exec EXCEPT ![s] = IF go THEN [e EXCEPT !.phase = "forward"]
                                           ELSE EndWith(e, "retryable")]
      /\ wire' = IF go THEN [wire EXCEPT ![e.job] = @ \cup {e.art}] ELSE wire
      /\ UNCHANGED <<vars, spool, accepted, result, handler, stopping, retried, asked, sweep>>

(* Analyzer stores an envelope, whatever has become of the sender.         *)
AnalyzerStores(j) ==
  \E a \in wire[j] :
    /\ wire' = [wire EXCEPT ![j] = @ \ {a}]
    /\ accepted' = [accepted EXCEPT ![j] = @ \cup {a}]
    /\ UNCHANGED <<vars, exec, spool, result, handler, stopping, retried, asked, sweep>>

Acknowledged(s) ==
  /\ exec[s].phase = "forward"
  /\ exec[s].art \in accepted[exec[s].job]
  /\ exec' = [exec EXCEPT ![s] = EndWith(@, "result")]
  /\ UNCHANGED vars /\ OnlyExec

(* Faulty: a transport error is taken for an acknowledgement.              *)
AnswerLostAsResult(s) ==
  /\ exec[s].phase = "forward"
  /\ exec' = [exec EXCEPT ![s] = EndWith(@, "result")]
  /\ UNCHANGED vars /\ OnlyExec

(* The connection fails or times out; Analyzer may have the envelope.      *)
AnswerLost(s) ==
  /\ exec[s].phase = "forward"
  /\ exec' = [exec EXCEPT ![s] = EndWith(@, "retryable")]
  /\ UNCHANGED vars /\ OnlyExec

Rejected(s) ==
  /\ exec[s].phase = "forward"
  /\ exec[s].art \in wire[exec[s].job]
  /\ wire' = [wire EXCEPT ![exec[s].job] = @ \ {exec[s].art}]
  /\ exec' = [exec EXCEPT ![s] = EndWith(@, "permanent")]
  /\ UNCHANGED <<vars, spool, accepted, result, handler, stopping, retried, asked, sweep>>

-----------------------------------------------------------------------------
(* Beside the execution: _heartbeat_until_done and _mark_timeout.          *)

Heartbeat(s, t) ==
  /\ exec[s].phase \in Working
  /\ Renew(s, t)
  /\ exec' = [exec EXCEPT ![s].control = @ \cup CancelSeen(exec[s].job)]
  /\ OnlyExec

HeartbeatLost(s, t) ==
  /\ exec[s].phase \in Working
  /\ ~ LeasedRow(s, t)
  /\ exec' = [exec EXCEPT ![s].control = @ \cup {"lost"}]
  /\ UNCHANGED vars /\ OnlyExec

Timeout(s) ==
  /\ "timeout" \in Faults
  /\ exec[s].phase \in Working \cup {"done", "decide"}
  /\ exec' = [exec EXCEPT ![s].control = @ \cup {"timeout"}]
  /\ UNCHANGED vars /\ OnlyExec

-----------------------------------------------------------------------------
(* _finish_claim.                                                          *)

(* The refresh of the fenced head before the outcome is chosen.            *)
FinalRenew(s, t) ==
  /\ exec[s].phase = "done"
  /\ "lost" \notin exec[s].control
  /\ Renew(s, t)
  /\ exec' = [exec EXCEPT ![s].phase = "decide",
                          ![s].control = @ \cup CancelSeen(exec[s].job)]
  /\ OnlyExec

FinalRenewLost(s, t) ==
  /\ exec[s].phase = "done"
  /\ "lost" \in exec[s].control \/ ~ LeasedRow(s, t)
  /\ exec' = [exec EXCEPT ![s].phase = "release"]
  /\ UNCHANGED vars /\ OnlyExec

(* A shutdown leaves the head running, for the next owner of the lease.    *)
LeftRunning(e) ==
  "shutdown" \in e.control /\ "cancel" \notin e.control /\ e.outcome /= "result"

(* _set_failure_or_retry *)
FailureOrRetry(c, retryable) ==
  IF retryable /\ c.attempt < MaxAttempts THEN "retrying" ELSE "failed"

(* Faulty: a cancellation wins over an acknowledged envelope.              *)
DecisionCancelFirst(e, c) ==
  CASE "cancel" \in e.control -> "cancelled"
    [] "cancel" \notin e.control /\ e.outcome = "result" -> "succeeded"
    [] OTHER -> FailureOrRetry(c, e.outcome = "retryable" \/ "timeout" \in e.control)

(* An acknowledged envelope wins over a cancellation, a cancellation over  *)
(* a timeout, a timeout over the error it caused.                          *)
Decision(e, c) ==
  CASE e.outcome = "result" -> "succeeded"
    [] e.outcome /= "result" /\ "cancel" \in e.control -> "cancelled"
    [] e.outcome /= "result" /\ "cancel" \notin e.control /\ "timeout" \in e.control
         -> FailureOrRetry(c, TRUE)
    [] OTHER -> FailureOrRetry(c, e.outcome = "retryable")

(* The derived state in Analyzer's answer.                                 *)
DerivedOf(state) == IF state = "succeeded" THEN {"open", "settled"} ELSE {"none"}

LeaveRunning(s) ==
  /\ exec[s].phase = "decide"
  /\ LeftRunning(exec[s])
  /\ exec' = [exec EXCEPT ![s].phase = "release"]
  /\ UNCHANGED vars /\ OnlyExec

(* Only a retrying job keeps its artifact.                                 *)
Commit(s, t) ==
  LET e == exec[s]
      state == Decision(e, claim[s])
  IN  /\ e.phase = "decide"
      /\ ~ LeftRunning(e)
      /\ \E derived \in DerivedOf(state) : Complete(s, t, state, derived)
      /\ result' = IF state = "succeeded" THEN [result EXCEPT ![e.job] = e.art] ELSE result
      /\ exec' = [exec EXCEPT ![s] = IF state = "retrying"
                                     THEN IdleExec
                                     ELSE [@ EXCEPT !.phase = "cleanup"]]
      /\ UNCHANGED <<spool, wire, accepted, handler, stopping, retried, asked, sweep>>

(* complete raised LeaseLostError.                                         *)
CommitRefused(s, t) ==
  LET e == exec[s]
  IN  /\ e.phase = "decide"
      /\ ~ LeftRunning(e)
      /\ ~ (LeasedRow(s, t) /\ Completable(e.job, Decision(e, claim[s])))
      /\ exec' = [exec EXCEPT ![s].phase = "race"]
      /\ UNCHANGED vars /\ OnlyExec

(* _handle_completion_cancel_race *)
RaceRenew(s, t) ==
  /\ exec[s].phase = "race"
  /\ Renew(s, t)
  /\ exec' = [exec EXCEPT ![s].phase = IF heads[exec[s].job].state = "cancelling"
                                       THEN "raceCommit" ELSE "release"]
  /\ OnlyExec

RaceLost(s, t) ==
  /\ exec[s].phase \in {"race", "raceCommit"}
  /\ ~ LeasedRow(s, t)
  /\ exec' = [exec EXCEPT ![s].phase = "release"]
  /\ UNCHANGED vars /\ OnlyExec

RaceCommit(s, t) ==
  /\ exec[s].phase = "raceCommit"
  /\ Complete(s, t, "cancelled", "none")
  /\ exec' = [exec EXCEPT ![s].phase = "cleanup"]
  /\ OnlyExec

(* The artifact is deleted after the terminal commit, without the lease.   *)
Cleanup(s) ==
  /\ exec[s].phase = "cleanup"
  /\ SpoolFree
  /\ spool' = [spool EXCEPT ![exec[s].job] = NoArtifact]
  /\ exec' = [exec EXCEPT ![s] = IdleExec]
  /\ UNCHANGED <<vars, wire, accepted, result, handler, stopping, retried, asked, sweep>>

(* The task returns and the lease is left to expire.                       *)
Release(s) ==
  /\ exec[s].phase = "release"
  /\ Abandon(s)
  /\ exec' = [exec EXCEPT ![s] = IdleExec]
  /\ OnlyExec

-----------------------------------------------------------------------------
(* Processes.                                                              *)

(* Faulty: stopping cancels what is being executed.                        *)
StopAsCancel(p) ==
  /\ "stop" \in Faults
  /\ stopping[p] = "no"
  /\ \E last \in {"inClaim", "yes"} : stopping' = [stopping EXCEPT ![p] = last]
  /\ exec' = [s \in Slots |-> IF OwnerOf[s] = p /\ exec[s] /= IdleExec
                              THEN [exec[s] EXCEPT !.control = @ \cup {"cancel"}]
                              ELSE exec[s]]
  /\ UNCHANGED <<vars, spool, wire, accepted, result, handler, retried, asked, sweep>>

(* stop: no more claims, and every execution of the moment is told.  A     *)
(* claim_next under way may still bring one that is not.                   *)
Stop(p) ==
  /\ "stop" \in Faults
  /\ stopping[p] = "no"
  /\ \E last \in {"inClaim", "yes"} : stopping' = [stopping EXCEPT ![p] = last]
  /\ exec' = [s \in Slots |-> IF OwnerOf[s] = p /\ exec[s] /= IdleExec
                              THEN [exec[s] EXCEPT !.control = @ \cup {"shutdown"}]
                              ELSE exec[s]]
  /\ UNCHANGED <<vars, spool, wire, accepted, result, handler, retried, asked, sweep>>

(* A process ends, after the shutdown grace or by a crash at any point,    *)
(* and starts again: its tasks are gone, its leases stay.                  *)
Restart(p) ==
  /\ "restart" \in Faults
  /\ \/ stopping[p] /= "no"
     \/ handler[p] /= NoHandler
     \/ sweep /= NoJob
     \/ \E s \in SlotsOf(p) : exec[s] /= IdleExec
  /\ exec' = [s \in Slots |-> IF OwnerOf[s] = p THEN IdleExec ELSE exec[s]]
  /\ claim' = [s \in Slots |-> IF OwnerOf[s] = p THEN NoClaim ELSE claim[s]]
  /\ handler' = [handler EXCEPT ![p] = NoHandler]
  /\ stopping' = [stopping EXCEPT ![p] = "no"]
  /\ sweep' \in {sweep, NoJob}
  /\ UNCHANGED <<heads, opLease, op, clock, spool, wire, accepted, result, retried, asked>>

-----------------------------------------------------------------------------
(* Endpoints.                                                              *)

Submit(j, t) == Create(j, t) /\ UNCHANGED workerVars

(* The stage at which cancel_scan continues after request_cancel.          *)
AfterCancel(state) == IF state = "cancelled" THEN "delete" ELSE "notify"

(* cancel_scan of a queued or running job.                                 *)
CancelScan(p, j) ==
  /\ handler[p] = NoHandler
  /\ RequestCancel(j)
  /\ handler' = [handler EXCEPT ![p] = [stage |-> AfterCancel(heads'[j].state), job |-> j]]
  /\ asked' = [asked EXCEPT ![j] = TRUE]
  /\ UNCHANGED <<exec, spool, wire, accepted, result, stopping, retried, sweep>>

(* cancel_scan of any other job: request_cancel returns it as it is.       *)
CancelAgain(p, j) ==
  /\ handler[p] = NoHandler
  /\ heads[j].state \in Terminal \cup {"cancelling"}
  /\ handler' = [handler EXCEPT ![p] = [stage |-> AfterCancel(heads[j].state), job |-> j]]
  /\ UNCHANGED <<vars, exec, spool, wire, accepted, result, stopping, retried, asked, sweep>>

DeleteCancelled(p) ==
  /\ handler[p].stage = "delete"
  /\ SpoolFree
  /\ spool' = [spool EXCEPT ![handler[p].job] = NoArtifact]
  /\ handler' = [handler EXCEPT ![p].stage = "notify"]
  /\ UNCHANGED <<vars, exec, wire, accepted, result, stopping, retried, asked, sweep>>

(* notify_cancel reaches whatever this process is executing for the job.   *)
NotifyCancel(p) ==
  /\ handler[p].stage = "notify"
  /\ exec' = [s \in Slots |-> IF OwnerOf[s] = p /\ exec[s].job = handler[p].job
                              THEN [exec[s] EXCEPT !.control = @ \cup {"cancel"}]
                              ELSE exec[s]]
  /\ handler' = [handler EXCEPT ![p] = NoHandler]
  /\ UNCHANGED <<vars, spool, wire, accepted, result, stopping, retried, asked, sweep>>

(* Nothing of the previous execution is left to be deleted or notified.    *)
CleanedUp(j) ==
  /\ spool[j] = NoArtifact
  /\ \A s \in Slots : exec[s].job = j => exec[s].phase /= "cleanup"
  /\ \A p \in Procs : handler[p].job /= j

RetryScan(j, t) ==
  /\ "haste" \in Faults \/ CleanedUp(j)
  /\ ManualRetry(j, t)
  /\ result' = [result EXCEPT ![j] = NoArtifact]
  /\ retried' = [retried EXCEPT ![j] = heads[j].epoch]
  /\ asked' = [asked EXCEPT ![j] = FALSE]
  /\ UNCHANGED <<exec, spool, wire, accepted, handler, stopping, sweep>>

SettleDerived(j) == UpdateDerivedResult(j, "settled") /\ UNCHANGED workerVars

-----------------------------------------------------------------------------
HoldsLease(s) ==
  /\ claim[s] /= NoClaim
  /\ heads[claim[s].job].holder = s
  /\ heads[claim[s].job].epoch = claim[s].epoch

Passes ==
  /\ \/ "stall" \in Faults
     \/ \A s \in Slots : HoldsLease(s) => heads[claim[s].job].expires > clock + 1
  /\ Tick
  /\ UNCHANGED workerVars

ExecuteStep(s) ==
  \/ Load(s)
  \/ \E o \in {"retryable", "permanent"} :
       LoadFails(s, o) \/ CollectFails(s, o) \/ SaveFails(s, o)
  \/ RefreshFails(s)
  \/ Check(s)
  \/ Collected(s)
  \/ Save(s)
  \/ Forward(s)
  \/ Acknowledged(s)
  \/ AnswerLost(s)
  \/ Rejected(s)

ClaimStep(s) ==
  \/ \E t \in Readings :
       \/ \E j \in Jobs : Dispatch(s, j, t)
       \/ DispatchNone(s, t)
       \/ Heartbeat(s, t)
       \/ HeartbeatLost(s, t)
       \/ FinalRenew(s, t)
       \/ FinalRenewLost(s, t)
       \/ Commit(s, t)
       \/ CommitRefused(s, t)
       \/ RaceRenew(s, t)
       \/ RaceLost(s, t)
       \/ RaceCommit(s, t)
  \/ Timeout(s)
  \/ LeaveRunning(s)
  \/ Cleanup(s)
  \/ Release(s)

ProcessStep(p) ==
  \/ Stop(p)
  \/ Restart(p)
  \/ \E j \in Jobs : CancelScan(p, j)
  \/ \E j \in Jobs : CancelAgain(p, j)
  \/ DeleteCancelled(p)
  \/ NotifyCancel(p)

JobStep(j) ==
  \/ \E t \in Readings : Submit(j, t)
  \/ \E t \in Readings : RetryScan(j, t)
  \/ SettleDerived(j)
  \/ SelectStale(j)
  \/ RemoveStale(j)
  \/ AnalyzerStores(j)

WorkerNext ==
  \/ \E s \in Slots : ExecuteStep(s) \/ ClaimStep(s)
  \/ \E p \in Procs : ProcessStep(p)
  \/ \E j \in Jobs : JobStep(j)
  \/ Passes

WorkerSpec == WorkerInit /\ [][WorkerNext]_allVars

-----------------------------------------------------------------------------
(* Type invariant.  A slot holds a claim exactly while its task has not    *)
(* completed or released it, and the task works on the claimed job.        *)
WorkerTypeOK ==
  /\ TypeOK
  /\ exec \in [Slots -> Exec]
  /\ \A s \in Slots :
       IF exec[s].phase \in {"idle", "cleanup"}
       THEN claim[s] = NoClaim
       ELSE claim[s] /= NoClaim /\ exec[s].job = claim[s].job
  /\ spool \in [Jobs -> Nat]
  /\ sweep \in Jobs \cup {NoJob}
  /\ wire \in [Jobs -> SUBSET Nat]
  /\ accepted \in [Jobs -> SUBSET Nat]
  /\ result \in [Jobs -> Nat]
  /\ handler \in [Procs -> [stage : {"none", "delete", "notify"}, job : Jobs \cup {NoJob}]]
  /\ stopping \in [Procs -> Stopping]
  /\ retried \in [Jobs -> Nat]
  /\ asked \in [Jobs -> BOOLEAN]

(* A job is recorded as succeeded only with an envelope that Analyzer has  *)
(* stored, whoever collected, forwarded and completed it.                  *)
SucceededWasStored ==
  \A j \in Jobs : heads[j].state = "succeeded" => result[j] \in accepted[j]

(* Two workers never collect from one target at the same time.             *)
OneCollectionPerTarget ==
  \A r, s \in Slots :
    /\ r /= s
    /\ exec[r].phase = "collect"
    /\ exec[s].phase = "collect"
    => TargetOf[exec[r].job] /= TargetOf[exec[s].job]

(* Crashes, lost answers and retries never make Analyzer store a second    *)
(* envelope for one submission (or manual retry): the spool makes every    *)
(* later attempt send the artifact of the first.                           *)
OneReportPerRequest ==
  \A j \in Jobs : \A a, b \in accepted[j] :
    a > retried[j] /\ b > retried[j] => a = b

(* A job ends cancelled only if an operator's cancellation was accepted    *)
(* since it was submitted or last retried.                                 *)
CancelledWasAsked ==
  \A j \in Jobs : heads[j].state = "cancelled" => asked[j]

(* A job that becomes cancelled has no envelope stored in Analyzer, of     *)
(* those collected since it was submitted or last retried.                 *)
CancelledHasNoReport ==
  [][\A j \in Jobs :
       heads[j].state /= "cancelled" /\ heads'[j].state = "cancelled"
         => \A a \in accepted[j] : a <= retried[j]]_allVars

(* A spooled artifact is not removed while its job may still be executed,  *)
(* although deletions happen after the commit and without the lease, and   *)
(* the reconciler removes a file after it has asked the queue about it.    *)
ArtifactKept ==
  [][\A j \in Jobs :
       spool[j] /= NoArtifact /\ heads[j].state \in Queued \cup Active
         => spool'[j] /= NoArtifact]_allVars

(* An execution that Analyzer has acknowledged and whose lease holds is    *)
(* recorded as succeeded even when a cancellation came in between.         *)
AcknowledgedIsRecorded ==
  [][\A s \in Slots :
       /\ exec[s].outcome = "result"
       /\ claim[s] /= NoClaim
       /\ heads[claim[s].job] /= heads'[claim[s].job]
       /\ heads'[claim[s].job].state \in Terminal
       /\ HoldsLease(s)
       => heads'[claim[s].job].state = "succeeded"]_allVars
=============================================================================
