-------------------------- MODULE ScanWorkerProofs --------------------------
(***************************************************************************)
(* Proofs about the workers of ScanWorker, on top of those about the queue *)
(* (JobStoreProofs).  Every step of the workers, the endpoints and the     *)
(* processes is a step of the queue as far as the queue is concerned, so   *)
(* the guarantees of the queue hold in the composition; the rest follows   *)
(* from what an execution may carry from one await to the next.            *)
(***************************************************************************)
EXTENDS ScanWorker, JobStoreProofs

-----------------------------------------------------------------------------
(* The inductive invariants.                                               *)

(* The phases in which a task holds its claim.                             *)
Claimed == (Working \cup Completing) \ {"cleanup"}

Over == Terminal \cup {"evicted"}

(* A task knows its job and has an outcome only when its execution ended;  *)
(* claims carry a spent epoch; jobs are the only ones to lease targets.    *)
TaskShape ==
  /\ \A s \in Slots :
       /\ exec[s].phase /= "idle" => exec[s].job \in Jobs
       /\ exec[s].phase \in Working \cup {"idle"} => exec[s].outcome = "none"
       /\ claim[s] /= NoClaim => claim[s].epoch > 0
       /\ exec[s].phase = "save" => exec[s].art /= NoArtifact
  /\ \A p \in Procs : handler[p].stage /= "none" => handler[p].job \in Jobs
  /\ \A g \in Targets : opLease[g] = NoOpLease

(* An execution that ended with a result has its artifact in Analyzer.     *)
ResultWasStored ==
  \A s \in Slots : exec[s].outcome = "result" => exec[s].art \in accepted[exec[s].job]

WorkerInv ==
  /\ WorkerTypeOK /\ FenceInv /\ TaskShape
  /\ ResultWasStored /\ SucceededWasStored

(* Only a job that was submitted has a task or a file.                     *)
FilesOfJobs ==
  /\ \A s \in Slots : exec[s].phase /= "idle" => heads[exec[s].job].state /= "absent"
  /\ \A j \in Jobs : spool[j] /= NoArtifact => heads[j].state /= "absent"

(* Deletions that a commit, a cancellation or the reconciler left behind   *)
(* come before the job can run again (unless a retry is faster: "haste").  *)
(* The file that the reconciler found stale is there until it removes it.  *)
DeletionsInTime ==
  /\ FilesOfJobs
  /\ sweep \in Jobs => heads[sweep].state \in Over /\ spool[sweep] /= NoArtifact
  /\ \A s \in Slots : exec[s].phase = "cleanup" => heads[exec[s].job].state \in Over
  /\ \A p \in Procs : handler[p].stage = "delete" =>
       heads[handler[p].job].state \in {"cancelled", "evicted"}

(* Whoever can still end a job as cancelled was told so by a cancellation  *)
(* of the present run of the job.                                          *)
MayCancel(s) ==
  /\ claim[s] /= NoClaim
  /\ heads[claim[s].job].holder = s
  /\ "cancel" \in exec[s].control \/ exec[s].phase = "raceCommit"

CancelInv ==
  /\ \A j \in Jobs : heads[j].state \in {"cancelling", "cancelled"} => asked[j]
  /\ \A p \in Procs : handler[p].stage /= "none" =>
       asked[handler[p].job] \/ heads[handler[p].job].state \in Over
  /\ \A s \in Slots : MayCancel(s) => asked[claim[s].job]

(* Without stalls every claim holds its lease, one per target.             *)
LeaseKept(s) ==
  claim[s] /= NoClaim =>
    /\ heads[claim[s].job].holder = s
    /\ heads[claim[s].job].expires > clock

PunctualInv ==
  /\ \A s \in Slots : LeaseKept(s)
  /\ \A r, s \in Slots : r /= s /\ claim[r] /= NoClaim /\ claim[s] /= NoClaim =>
       TargetOf[claim[r].job] /= TargetOf[claim[s].job]

(* The artifact of a task: what it loaded, or what it collected because    *)
(* there was none.                                                         *)
ArtOK(e, file, epoch) ==
  /\ e.phase = "check" => e.art = file
  /\ e.phase \in {"collect", "save"} => file = NoArtifact
  /\ e.phase = "save" => e.art = epoch
  /\ e.phase \in {"ready", "forward"} => e.art = file

Sent(j) == wire[j] \cup accepted[j]

(* All that was sent for the present run of a job is one artifact, and it  *)
(* is in the spool while the job may be executed again.                    *)
ReportInv ==
  /\ \A s \in Slots : claim[s] /= NoClaim =>
       ArtOK(exec[s], spool[claim[s].job], claim[s].epoch)
  /\ \A j \in Jobs : heads[j].state = "absent" => heads[j].epoch = 0
  /\ \A j \in Jobs : heads[j].state /= "evicted" =>
       spool[j] <= heads[j].epoch /\ \A a \in Sent(j) : a <= heads[j].epoch
  /\ \A j \in Jobs : heads[j].state \in Queued \cup Active =>
       \A a \in Sent(j) : a > retried[j] => a = spool[j]
  /\ \A j \in Jobs : \A a, b \in Sent(j) : a > retried[j] /\ b > retried[j] => a = b

(* With fresh clock readings, a task that could not record a result has    *)
(* lost its lease for good.                                                *)
AckInv ==
  /\ \A j \in Jobs : heads[j].heartbeat <= clock
  /\ \A s \in Slots :
       exec[s].phase \in {"race", "raceCommit"} /\ exec[s].outcome = "result" =>
         ~ (heads[claim[s].job].holder = s /\ heads[claim[s].job].expires > clock)

-----------------------------------------------------------------------------
(* What the operators of the workers return.                               *)

(* The idle task and a task that has just ended are tasks.                 *)
LEMMA ExecFacts ==
  /\ IdleExec \in Exec
  /\ \A e \in Exec : \A o \in {"result", "retryable", "permanent"} :
       /\ EndWith(e, o) \in Exec
       /\ EndWith(e, o).phase = "done" /\ EndWith(e, o).outcome = o
       /\ EndWith(e, o).job = e.job /\ EndWith(e, o).art = e.art
       /\ EndWith(e, o).control = e.control
<1>1. IdleExec \in Exec
  BY DEF IdleExec, Exec, NoArtifact, Signals
<1>2. \A e \in Exec : \A o \in {"result", "retryable", "permanent"} :
        EndWith(e, o) \in Exec
  BY DEF EndWith, Exec, Completing
<1>3. \A e \in Exec : \A o \in {"result", "retryable", "permanent"} :
        /\ EndWith(e, o).phase = "done" /\ EndWith(e, o).outcome = o
        /\ EndWith(e, o).job = e.job /\ EndWith(e, o).art = e.art
        /\ EndWith(e, o).control = e.control
  BY DEF EndWith, Exec
<1> QED BY <1>1, <1>2, <1>3

(* A worker completes a claim with what complete accepts: success exactly  *)
(* with a result, a cancellation only when it was told of one.             *)
LEMMA DecisionFacts ==
  ASSUME NEW e, NEW c
  PROVE  /\ Decision(e, c) \in Terminal \cup {"retrying"}
         /\ \A d \in DerivedOf(Decision(e, c)) : <<Decision(e, c), d>> \in Outcomes(c)
         /\ Decision(e, c) = "succeeded" <=> e.outcome = "result"
         /\ Decision(e, c) = "cancelled" => "cancel" \in e.control
<1>1. FailureOrRetry(c, TRUE) \in {"retrying", "failed"}
  BY DEF FailureOrRetry
<1>2. FailureOrRetry(c, e.outcome = "retryable") \in {"retrying", "failed"}
  BY DEF FailureOrRetry
<1>3. \A b \in BOOLEAN : FailureOrRetry(c, b) = "retrying" => c.attempt < MaxAttempts
  BY DEF FailureOrRetry
<1>4. Decision(e, c) = "retrying" => c.attempt < MaxAttempts
  BY <1>3 DEF Decision
<1>5. /\ Decision(e, c) \in Terminal \cup {"retrying"}
      /\ Decision(e, c) = "succeeded" <=> e.outcome = "result"
      /\ Decision(e, c) = "cancelled" => "cancel" \in e.control
  BY <1>1, <1>2 DEF Decision, Terminal
<1>6. ASSUME NEW d \in DerivedOf(Decision(e, c))
      PROVE  <<Decision(e, c), d>> \in Outcomes(c)
  BY <1>4, <1>5 DEF DerivedOf, Outcomes, Terminal
<1> QED BY <1>5, <1>6

-----------------------------------------------------------------------------
(* The composition.                                                        *)

(* The steps that do not call the queue.                                   *)
LEMMA ExecuteLeavesStore ==
  ASSUME NEW s \in Slots, ExecuteStep(s)
  PROVE  UNCHANGED vars
  BY DEF ExecuteStep, Load, LoadFails, CollectFails, RefreshFails, Check, Collected, Save, SaveFails, Forward,
         Acknowledged, AnswerLost, Rejected

(* The calls a claim makes.                                                *)
LEMMA ClaimCallsStore ==
  ASSUME NEW s \in Slots, ClaimStep(s)
  PROVE  UNCHANGED vars \/ WorkerCall(s)
<1>1. ASSUME NEW t \in Readings, NEW j \in Jobs, Dispatch(s, j, t)
      PROVE  WorkerCall(s)
  BY <1>1 DEF Dispatch, WorkerCall
<1>2. ASSUME NEW t \in Readings, DispatchNone(s, t)
      PROVE  WorkerCall(s)
  BY <1>2 DEF DispatchNone, WorkerCall
<1>3. ASSUME NEW t \in Readings, Renew(s, t)
      PROVE  WorkerCall(s)
  BY <1>3 DEF WorkerCall
<1>4. ASSUME NEW t \in Readings, Commit(s, t)
      PROVE  WorkerCall(s)
  <2> DEFINE state == Decision(exec[s], claim[s])
  <2>1. PICK d \in DerivedOf(state) : Complete(s, t, state, d)
    BY <1>4 DEF Commit
  <2>2. <<state, d>> \in Outcomes(claim[s]) BY DecisionFacts
  <2> HIDE DEF state
  <2>3. Complete(s, t, <<state, d>>[1], <<state, d>>[2]) BY <2>1
  <2> QED BY <2>2, <2>3 DEF WorkerCall
<1>5. ASSUME NEW t \in Readings, RaceCommit(s, t)
      PROVE  WorkerCall(s)
  <2>1. <<"cancelled", "none">> \in Outcomes(claim[s]) BY DEF Outcomes
  <2>2. Complete(s, t, <<"cancelled", "none">>[1], <<"cancelled", "none">>[2])
    BY <1>5 DEF RaceCommit
  <2> QED BY <2>1, <2>2 DEF WorkerCall
<1>6. ASSUME Release(s) PROVE WorkerCall(s)
  BY <1>6 DEF Release, WorkerCall
<1>7. ASSUME NEW t \in Readings,
             HeartbeatLost(s, t) \/ FinalRenewLost(s, t) \/ CommitRefused(s, t) \/ RaceLost(s, t)
      PROVE  UNCHANGED vars
  BY <1>7 DEF HeartbeatLost, FinalRenewLost, CommitRefused, RaceLost
<1>8. ASSUME Timeout(s) \/ LeaveRunning(s) \/ Cleanup(s)
      PROVE  UNCHANGED vars
  BY <1>8 DEF Timeout, LeaveRunning, Cleanup
<1>9. ASSUME NEW t \in Readings, Heartbeat(s, t) \/ FinalRenew(s, t) \/ RaceRenew(s, t)
      PROVE  Renew(s, t)
  BY <1>9 DEF Heartbeat, FinalRenew, RaceRenew
<1> QED BY <1>1, <1>2, <1>3, <1>4, <1>5, <1>6, <1>7, <1>8, <1>9 DEF ClaimStep

(* Every step of the composition is a step of the queue, or none: what     *)
(* JobStoreProofs says of such steps holds in the composition.             *)
LEMMA ComposedStep == [WorkerNext]_allVars => StoreStep
<1> SUFFICES ASSUME [WorkerNext]_allVars PROVE StoreStep
  OBVIOUS
<1>1. ASSUME NEW s \in Slots, ExecuteStep(s) \/ ClaimStep(s)
      PROVE  StoreStep
  BY <1>1, ExecuteLeavesStore, ClaimCallsStore DEF StoreStep
<1>2. ASSUME NEW p \in Procs, ProcessStep(p)
      PROVE  StoreStep
  <2>1. ASSUME Restart(p) PROVE Forget
    <3>1. SlotsOf(p) \in SUBSET Slots BY DEF SlotsOf
    <3>2. claim' = [s \in Slots |-> IF s \in SlotsOf(p) THEN NoClaim ELSE claim[s]]
      BY <2>1 DEF Restart, SlotsOf
    <3>3. UNCHANGED <<heads, opLease, op, clock>> BY <2>1 DEF Restart
    <3> QED BY <3>1, <3>2, <3>3 DEF Forget
  <2>2. ASSUME NEW j \in Jobs, CancelScan(p, j) PROVE ApiStep
    BY <2>2 DEF CancelScan, ApiStep
  <2>3. ASSUME NEW j \in Jobs, CancelAgain(p, j) PROVE UNCHANGED vars
    BY <2>3 DEF CancelAgain
  <2>4. ASSUME Stop(p) \/ DeleteCancelled(p) \/ NotifyCancel(p) PROVE UNCHANGED vars
    BY <2>4 DEF Stop, DeleteCancelled, NotifyCancel
  <2> QED BY <1>2, <2>1, <2>2, <2>3, <2>4 DEF ProcessStep, StoreStep
<1>3. ASSUME NEW j \in Jobs, JobStep(j)
      PROVE  StoreStep
  <2>1. ASSUME NEW t \in Readings, Submit(j, t) PROVE ApiStep
    BY <2>1 DEF Submit, ApiStep
  <2>2. ASSUME NEW t \in Readings, RetryScan(j, t) PROVE ApiStep
    BY <2>2 DEF RetryScan, ApiStep
  <2>3. ASSUME SettleDerived(j) PROVE ApiStep
    BY <2>3 DEF SettleDerived, ApiStep
  <2>4. ASSUME SelectStale(j) \/ RemoveStale(j) \/ AnalyzerStores(j) PROVE UNCHANGED vars
    BY <2>4 DEF SelectStale, RemoveStale, AnalyzerStores
  <2> QED BY <1>3, <2>1, <2>2, <2>3, <2>4 DEF JobStep, StoreStep
<1>4. ASSUME Passes PROVE StoreStep
  BY <1>4 DEF Passes, StoreStep
<1>5. ASSUME UNCHANGED allVars PROVE StoreStep
  BY <1>5 DEF allVars, StoreStep
<1> QED BY <1>1, <1>2, <1>3, <1>4, <1>5 DEF WorkerNext

(* The fencing of the queue, with the workers, endpoints and processes     *)
(* around it, whatever goes wrong: operations exclude jobs, snapshots are  *)
(* current, and the attempts stay within their budget.                     *)
THEOREM StoreHolds == WorkerSpec => []FenceInv
<1>1. WorkerInit => FenceInv BY FenceInit DEF WorkerInit
<1> QED BY <1>1, FenceStep, ComposedStep, PTL DEF WorkerSpec

-----------------------------------------------------------------------------
(* What a task may make of itself between two awaits while it holds its    *)
(* claim: the facts about the pieces of _execute, _heartbeat_until_done    *)
(* and _finish_claim that the invariants need.                             *)

Advance(s, e) ==
  /\ e \in Exec /\ e.job = exec[s].job
  /\ exec[s].phase \in Claimed /\ e.phase \in Claimed
  /\ e.phase \in Working => e.outcome = "none"
  /\ e.phase = "save" =>
       (exec[s].phase = "save" /\ e.art = exec[s].art) \/ e.art = claim[s].epoch
  /\ e.outcome = "result" =>
       \/ exec[s].outcome = "result" /\ e.art = exec[s].art
       \/ e.art \in accepted[e.job]
  /\ "cancel" \in e.control =>
       "cancel" \in exec[s].control \/ heads[e.job].state \in {"cancelling", "cancelled"}
  /\ e.phase = "raceCommit" =>
       exec[s].phase = "raceCommit" \/ heads[e.job].state = "cancelling"
  /\ e.phase \in {"race", "raceCommit"} /\ e.outcome = "result" =>
       \/ exec[s].phase \in {"race", "raceCommit"} /\ exec[s].outcome = "result"
       \/ \E t \in Readings : ~ LeasedRow(s, t)

(* The artifact stays what the file of the job says.                       *)
ArtAdvance(s, e) ==
  ArtOK(exec[s], spool[e.job], claim[s].epoch) => ArtOK(e, spool[e.job], claim[s].epoch)

Moves(s, e) == Advance(s, e) /\ exec' = [exec EXCEPT ![s] = e]

(* A piece that touches nothing but its own task, and one that renews.     *)
Quiet(s) == \E e : Moves(s, e) /\ ArtAdvance(s, e) /\ UNCHANGED vars /\ OnlyExec
Beats(s) ==
  \E e : \E t \in Readings : Moves(s, e) /\ ArtAdvance(s, e) /\ Renew(s, t) /\ OnlyExec

LEMMA ExecuteMoves ==
  ASSUME WorkerTypeOK, TaskShape, NEW s \in Slots, ExecuteStep(s)
  PROVE  \/ Quiet(s)
         \/ Save(s) \/ Forward(s) \/ Rejected(s)
<1> DEFINE x == exec[s]
<1>1. x \in Exec /\ exec = [r \in Slots |-> exec[r]] BY DEF WorkerTypeOK
<1>2. /\ x.phase \in {"idle"} \cup Working \cup Completing
      /\ x.control \in SUBSET Signals /\ x.art \in Nat
      /\ x.outcome \in {"none", "result", "retryable", "permanent"}
  BY <1>1 DEF Exec
<1>3. x.phase \in Working => x.outcome = "none" BY DEF TaskShape
<1>4. ASSUME NEW o \in {"retryable", "permanent"}, x.phase \in Working,
             NEW c \in SUBSET Signals,
             "cancel" \in c =>
               "cancel" \in x.control \/ heads[x.job].state \in {"cancelling", "cancelled"},
             exec' = [exec EXCEPT ![s] = EndWith([x EXCEPT !.control = c], o)],
             UNCHANGED vars, OnlyExec
      PROVE  Quiet(s)
  <2> DEFINE y == [x EXCEPT !.control = c]
             e == EndWith(y, o)
  <2>1. y \in Exec /\ y.job = x.job /\ y.control = c BY <1>1 DEF Exec
  <2> HIDE DEF y
  <2>2. /\ e \in Exec /\ e.phase = "done" /\ e.outcome = o /\ e.job = x.job /\ e.control = c
    BY <2>1, ExecFacts
  <2> HIDE DEF e
  <2>3. exec' = [exec EXCEPT ![s] = e] BY <1>4 DEF e, y
  <2> HIDE DEF x
  <2>4. Advance(s, e)
    BY <1>4, <2>2 DEF Advance, Claimed, Completing, Working, x
  <2>5. ArtAdvance(s, e) BY <2>2 DEF ArtAdvance, ArtOK
  <2> QED BY <1>4, <2>3, <2>4, <2>5 DEF Quiet, Moves
<1>5. ASSUME NEW o \in {"retryable", "permanent"}, x.phase \in Working,
             exec' = [exec EXCEPT ![s] = EndWith(x, o)],
             UNCHANGED vars, OnlyExec
      PROVE  Quiet(s)
  <2>1. x = [x EXCEPT !.control = x.control] BY <1>1 DEF Exec
  <2> QED BY <1>2, <1>4, <1>5, <2>1
<1>6. CASE Load(s)
  <2> DEFINE e == [x EXCEPT !.phase = "check", !.art = spool[x.job]]
  <2>1. x.job \in Jobs /\ x.phase = "load" BY <1>6 DEF Load, TaskShape
  <2>2. spool[x.job] \in Nat BY <2>1 DEF WorkerTypeOK
  <2>3. exec' = [exec EXCEPT ![s] = e] BY <1>1, <1>6 DEF Load
  <2>4. /\ e \in Exec /\ e.phase = "check" /\ e.art = spool[x.job] /\ e.job = x.job
        /\ e.control = x.control /\ e.outcome = "none"
    BY <1>1, <1>3, <2>1, <2>2 DEF Exec, Working
  <2> HIDE DEF e
  <2>5. Advance(s, e) BY <2>1, <2>4 DEF Advance, Claimed, Working
  <2>6. ArtAdvance(s, e) BY <2>4 DEF ArtAdvance, ArtOK
  <2> QED BY <1>6, <2>3, <2>5, <2>6 DEF Quiet, Moves, Load
<1>7. ASSUME NEW o \in {"retryable", "permanent"},
             LoadFails(s, o) \/ CollectFails(s, o) \/ SaveFails(s, o)
      PROVE  Quiet(s)
  BY <1>5, <1>7 DEF LoadFails, CollectFails, SaveFails, Working
<1>8. CASE RefreshFails(s) \/ AnswerLost(s)
  BY <1>5, <1>8 DEF RefreshFails, AnswerLost, Working
<1>9. CASE Check(s)
  <2> DEFINE c == Refreshed(s)
             y == [x EXCEPT !.control = c]
  <2>1. x.phase = "check" BY <1>9 DEF Check
  <2>2. /\ c \in SUBSET Signals
        /\ "cancel" \in c =>
             "cancel" \in x.control \/ heads[x.job].state \in {"cancelling", "cancelled"}
    BY <1>2 DEF Refreshed, Signals
  <2> HIDE DEF c
  <2>3. /\ y \in Exec /\ y.control = c /\ y.job = x.job /\ y.art = x.art
        /\ y.phase = "check" /\ y.outcome = "none"
    BY <1>1, <1>3, <2>1, <2>2 DEF Exec, Working
  <2>4. \/ exec' = [exec EXCEPT ![s] = EndWith(y, "retryable")]
        \/ exec' = [exec EXCEPT ![s] = EndWith(y, "permanent")]
        \/ c = {} /\ y.art /= NoArtifact /\ exec' = [exec EXCEPT ![s] = [y EXCEPT !.phase = "ready"]]
        \/ c = {} /\ y.art = NoArtifact /\ exec' = [exec EXCEPT ![s] = [y EXCEPT !.phase = "collect"]]
    BY <1>9, <2>3 DEF Check, CheckedExec, c
  <2>5. UNCHANGED vars /\ OnlyExec BY <1>9 DEF Check
  <2>6. ASSUME NEW ph \in {"ready", "collect"},
               exec' = [exec EXCEPT ![s] = [y EXCEPT !.phase = ph]],
               ph = "collect" => y.art = NoArtifact
        PROVE  Quiet(s)
    <3> DEFINE e == [y EXCEPT !.phase = ph]
    <3>1. /\ e \in Exec /\ e.phase = ph /\ e.art = x.art /\ e.job = x.job
          /\ e.control = c /\ e.outcome = "none"
      BY <2>3 DEF Exec, Working
    <3>2. exec' = [exec EXCEPT ![s] = e] BY <2>6
    <3> HIDE DEF e, y
    <3>3. Advance(s, e) BY <2>1, <2>2, <3>1 DEF Advance, Claimed, Working
    <3>4. ArtAdvance(s, e) BY <2>1, <2>3, <2>6, <3>1 DEF ArtAdvance, ArtOK
    <3> QED BY <2>5, <3>2, <3>3, <3>4 DEF Quiet, Moves
  <2>7. x.phase \in Working BY <2>1 DEF Working
  <2> QED BY <1>4, <2>2, <2>4, <2>5, <2>6, <2>7
<1>10. CASE Collected(s)
  <2> DEFINE e == [x EXCEPT !.phase = "save", !.art = claim[s].epoch]
  <2>1. x.phase = "collect" BY <1>10 DEF Collected
  <2>2. claim[s].epoch \in Nat
    BY DEF WorkerTypeOK, TypeOK, Claims, NoClaim
  <2>3. \/ exec' = [exec EXCEPT ![s] = EndWith(x, "retryable")]
        \/ exec' = [exec EXCEPT ![s] = e]
    BY <1>1, <1>10 DEF Collected
  <2>4. CASE exec' = [exec EXCEPT ![s] = e]
    <3>1. /\ e \in Exec /\ e.phase = "save" /\ e.art = claim[s].epoch /\ e.job = x.job
          /\ e.control = x.control /\ e.outcome = "none"
      BY <1>1, <1>3, <2>1, <2>2 DEF Exec, Working
    <3>2. exec' = [exec EXCEPT ![s] = e] BY <2>4
    <3> HIDE DEF e
    <3>3. Advance(s, e) BY <2>1, <3>1 DEF Advance, Claimed, Working
    <3>4. ArtAdvance(s, e) BY <2>1, <3>1 DEF ArtAdvance, ArtOK
    <3> QED BY <1>10, <3>2, <3>3, <3>4 DEF Quiet, Moves, Collected
  <2> QED BY <1>5, <1>10, <2>1, <2>3, <2>4 DEF Collected, Working
<1>11. CASE Acknowledged(s)
  <2> DEFINE e == EndWith(x, "result")
  <2>1. /\ x.phase = "forward" /\ x.art \in accepted[x.job]
        /\ exec' = [exec EXCEPT ![s] = e]
    BY <1>11 DEF Acknowledged
  <2>2. /\ e \in Exec /\ e.phase = "done" /\ e.outcome = "result" /\ e.job = x.job
        /\ e.art = x.art /\ e.control = x.control
    BY <1>1, ExecFacts
  <2> HIDE DEF e
  <2>3. Advance(s, e) BY <2>1, <2>2 DEF Advance, Claimed, Working, Completing
  <2>4. ArtAdvance(s, e) BY <2>2 DEF ArtAdvance, ArtOK
  <2> QED BY <1>11, <2>1, <2>3, <2>4 DEF Quiet, Moves, Acknowledged
<1> QED BY <1>6, <1>7, <1>8, <1>9, <1>10, <1>11 DEF ExecuteStep

(* The pieces beside and after the execution change phase and control.     *)
LEMMA RestampMoves ==
  ASSUME WorkerTypeOK, TaskShape, NEW s \in Slots, NEW ph, NEW c \in SUBSET Signals,
         exec[s].phase \in Claimed,
         ph = exec[s].phase \/ ph \in {"decide", "race", "raceCommit", "release"},
         "cancel" \in c =>
           "cancel" \in exec[s].control \/ heads[exec[s].job].state \in {"cancelling", "cancelled"},
         ph = "raceCommit" =>
           exec[s].phase = "raceCommit" \/ heads[exec[s].job].state = "cancelling",
         ph \in {"race", "raceCommit"} =>
           exec[s].phase \in {"race", "raceCommit"} \/ \E t \in Readings : ~ LeasedRow(s, t)
                                                    \/ exec[s].outcome /= "result",
         exec' = [exec EXCEPT ![s] = [exec[s] EXCEPT !.phase = ph, !.control = c]]
  PROVE  \E e : Moves(s, e) /\ ArtAdvance(s, e)
<1> DEFINE e == [exec[s] EXCEPT !.phase = ph, !.control = c]
<1>1. exec[s] \in Exec BY DEF WorkerTypeOK
<1>2. ph \in Claimed /\ ph \in {"idle"} \cup Working \cup Completing
  BY DEF Claimed, Completing
<1>3. /\ e \in Exec /\ e.phase = ph /\ e.control = c /\ e.job = exec[s].job
      /\ e.art = exec[s].art /\ e.outcome = exec[s].outcome
  BY <1>1, <1>2 DEF Exec
<1>4. exec[s].phase \in Working => exec[s].outcome = "none" BY DEF TaskShape
<1>5. exec' = [exec EXCEPT ![s] = e] OBVIOUS
<1> HIDE DEF e
<1>6. Advance(s, e) BY <1>2, <1>3, <1>4 DEF Advance, Working
<1>7. ArtAdvance(s, e) BY <1>3 DEF ArtAdvance, ArtOK
<1> QED BY <1>5, <1>6, <1>7 DEF Moves

LEMMA ClaimMoves ==
  ASSUME WorkerTypeOK, TaskShape, NEW s \in Slots, ClaimStep(s)
  PROVE  \/ Quiet(s) \/ Beats(s)
         \/ \E t \in Readings : \/ \E j \in Jobs : Dispatch(s, j, t)
                                \/ DispatchNone(s, t) \/ Commit(s, t) \/ RaceCommit(s, t)
         \/ Cleanup(s) \/ Release(s)
<1> DEFINE x == exec[s]
<1>1. x \in Exec /\ exec = [r \in Slots |-> exec[r]] BY DEF WorkerTypeOK
<1>2. x.control \in SUBSET Signals BY <1>1 DEF Exec
<1>3. x = [x EXCEPT !.phase = x.phase] /\ x = [x EXCEPT !.control = x.control]
  BY <1>1 DEF Exec
<1>4. /\ \A j : CancelSeen(j) \in SUBSET Signals
      /\ \A j : "cancel" \in CancelSeen(j) => heads[j].state = "cancelling"
  BY DEF CancelSeen, Signals
<1>5. ASSUME NEW t \in Readings, Heartbeat(s, t) PROVE Beats(s)
  <2> DEFINE c == x.control \cup CancelSeen(x.job)
  <2>1. exec' = [exec EXCEPT ![s] = [x EXCEPT !.phase = x.phase, !.control = c]]
    BY <1>1, <1>3, <1>5 DEF Heartbeat
  <2>2. c \in SUBSET Signals /\ x.phase \in Claimed
    BY <1>2, <1>4, <1>5 DEF Heartbeat, Claimed, Working, Completing
  <2>3. "cancel" \in c => "cancel" \in x.control \/ heads[x.job].state = "cancelling"
    BY <1>4
  <2>4. \E e : Moves(s, e) /\ ArtAdvance(s, e)
    <3> HIDE DEF c
    <3> QED BY <1>5, <2>1, <2>2, <2>3, RestampMoves DEF Heartbeat, Working
  <2> QED BY <1>5, <2>4 DEF Beats, Heartbeat
<1>6. ASSUME NEW t \in Readings, FinalRenew(s, t) PROVE Beats(s)
  <2> DEFINE c == x.control \cup CancelSeen(x.job)
  <2>1. exec' = [exec EXCEPT ![s] = [x EXCEPT !.phase = "decide", !.control = c]]
    BY <1>1, <1>6 DEF FinalRenew
  <2>2. c \in SUBSET Signals /\ x.phase \in Claimed
    BY <1>2, <1>4, <1>6 DEF FinalRenew, Claimed, Working, Completing
  <2>3. "cancel" \in c => "cancel" \in x.control \/ heads[x.job].state = "cancelling"
    BY <1>4
  <2>4. \E e : Moves(s, e) /\ ArtAdvance(s, e)
    <3> HIDE DEF c
    <3> QED BY <2>1, <2>2, <2>3, RestampMoves
  <2> QED BY <1>6, <2>4 DEF Beats, FinalRenew
<1>7. ASSUME NEW t \in Readings, RaceRenew(s, t) PROVE Beats(s)
  <2> DEFINE ph == IF heads[x.job].state = "cancelling" THEN "raceCommit" ELSE "release"
  <2>1. exec' = [exec EXCEPT ![s] = [x EXCEPT !.phase = ph]]
    BY <1>1, <1>7 DEF RaceRenew
  <2>2. x.phase = "race" /\ x.phase \in Claimed
    BY <1>7 DEF RaceRenew, Claimed, Completing
  <2>3. [x EXCEPT !.phase = ph] = [x EXCEPT !.phase = ph, !.control = x.control]
    BY <1>1 DEF Exec
  <2>4. /\ ph \in {"raceCommit", "release"}
        /\ ph = "raceCommit" => heads[x.job].state = "cancelling"
    OBVIOUS
  <2>5. \E e : Moves(s, e) /\ ArtAdvance(s, e)
    <3> HIDE DEF ph
    <3> QED BY <1>2, <2>1, <2>2, <2>3, <2>4, RestampMoves
  <2> QED BY <1>7, <2>5 DEF Beats, RaceRenew
<1>8. ASSUME NEW c \in SUBSET Signals, "cancel" \in c => "cancel" \in x.control,
             x.phase \in Claimed, exec' = [exec EXCEPT ![s] = [x EXCEPT !.control = c]],
             UNCHANGED vars, OnlyExec
      PROVE  Quiet(s)
  <2>1. [x EXCEPT !.control = c] = [x EXCEPT !.phase = x.phase, !.control = c]
    BY <1>1 DEF Exec
  <2>2. \E e : Moves(s, e) /\ ArtAdvance(s, e)
    BY <1>8, <2>1, RestampMoves
  <2> QED BY <1>8, <2>2 DEF Quiet
<1>9. ASSUME NEW ph \in {"race", "release"}, x.phase \in Claimed,
             ph = "race" => \E t \in Readings : ~ LeasedRow(s, t) \/ x.outcome /= "result",
             exec' = [exec EXCEPT ![s] = [x EXCEPT !.phase = ph]],
             UNCHANGED vars, OnlyExec
      PROVE  Quiet(s)
  <2>1. [x EXCEPT !.phase = ph] = [x EXCEPT !.phase = ph, !.control = x.control]
    BY <1>1 DEF Exec
  <2>2. \E e : Moves(s, e) /\ ArtAdvance(s, e)
    BY <1>2, <1>9, <2>1, RestampMoves
  <2> QED BY <1>9, <2>2 DEF Quiet
<1>10. ASSUME NEW t \in Readings, HeartbeatLost(s, t) PROVE Quiet(s)
  <2>1. exec' = [exec EXCEPT ![s] = [x EXCEPT !.control = x.control \cup {"lost"}]]
    BY <1>1, <1>10 DEF HeartbeatLost
  <2>2. x.control \cup {"lost"} \in SUBSET Signals BY <1>2 DEF Signals
  <2>3. x.phase \in Claimed BY <1>10 DEF HeartbeatLost, Claimed, Working, Completing
  <2> QED BY <1>8, <1>10, <2>1, <2>2, <2>3 DEF HeartbeatLost
<1>11. CASE Timeout(s)
  <2>1. exec' = [exec EXCEPT ![s] = [x EXCEPT !.control = x.control \cup {"timeout"}]]
    BY <1>1, <1>11 DEF Timeout
  <2>2. x.control \cup {"timeout"} \in SUBSET Signals BY <1>2 DEF Signals
  <2>3. x.phase \in Claimed BY <1>11 DEF Timeout, Claimed, Working, Completing
  <2> QED BY <1>8, <1>11, <2>1, <2>2, <2>3 DEF Timeout
<1>12. ASSUME NEW t \in Readings, FinalRenewLost(s, t) PROVE Quiet(s)
  <2>1. exec' = [exec EXCEPT ![s] = [x EXCEPT !.phase = "release"]]
    BY <1>1, <1>12 DEF FinalRenewLost
  <2>2. x.phase \in Claimed BY <1>12 DEF FinalRenewLost, Claimed, Completing
  <2> QED BY <1>9, <1>12, <2>1, <2>2 DEF FinalRenewLost
<1>13. CASE LeaveRunning(s)
  <2>1. exec' = [exec EXCEPT ![s] = [x EXCEPT !.phase = "release"]]
    BY <1>1, <1>13 DEF LeaveRunning
  <2>2. x.phase \in Claimed BY <1>13 DEF LeaveRunning, Claimed, Completing
  <2> QED BY <1>9, <1>13, <2>1, <2>2 DEF LeaveRunning
<1>14. ASSUME NEW t \in Readings, RaceLost(s, t) PROVE Quiet(s)
  <2>1. exec' = [exec EXCEPT ![s] = [x EXCEPT !.phase = "release"]]
    BY <1>1, <1>14 DEF RaceLost
  <2>2. x.phase \in Claimed BY <1>14 DEF RaceLost, Claimed, Completing
  <2> QED BY <1>9, <1>14, <2>1, <2>2 DEF RaceLost
<1>15. ASSUME NEW t \in Readings, CommitRefused(s, t) PROVE Quiet(s)
  <2>1. exec' = [exec EXCEPT ![s] = [x EXCEPT !.phase = "race"]]
    BY <1>1, <1>15 DEF CommitRefused
  <2>2. x.phase \in Claimed BY <1>15 DEF CommitRefused, Claimed, Completing
  <2>3. ~ LeasedRow(s, t) \/ ~ Completable(x.job, Decision(x, claim[s]))
    BY <1>15 DEF CommitRefused
  <2>4. x.outcome = "result" => Completable(x.job, Decision(x, claim[s]))
    BY DecisionFacts, WorkerJobsAssumption DEF Completable
  <2> QED BY <1>9, <1>15, <2>1, <2>2, <2>3, <2>4 DEF CommitRefused
<1> QED BY <1>5, <1>6, <1>7, <1>10, <1>11, <1>12, <1>13, <1>14, <1>15 DEF ClaimStep

-----------------------------------------------------------------------------
(* Every step that moves one task on, as the invariants without the spool  *)
(* and the wire see it.                                                    *)
Works(s, e) ==
  /\ Moves(s, e)
  /\ UNCHANGED vars \/ \E t \in Readings : Renew(s, t)
  /\ spool' \in [Jobs -> Nat] /\ wire' \in [Jobs -> SUBSET Nat]
  /\ UNCHANGED <<accepted, result, handler, stopping, retried, asked, sweep>>

(* The hand-off, and the save before it.                                   *)
LEMMA SaveMoves ==
  ASSUME WorkerTypeOK, TaskShape, NEW s \in Slots, Save(s)
  PROVE  \E e : Moves(s, e) /\ e.phase = "ready" /\ e.art = exec[s].art
<1> DEFINE e == [exec[s] EXCEPT !.phase = "ready"]
<1>1. exec[s] \in Exec /\ exec[s].phase = "save" /\ exec[s].outcome = "none"
  BY DEF WorkerTypeOK, TaskShape, Save, Working
<1>2. /\ e \in Exec /\ e.phase = "ready" /\ e.control = exec[s].control
      /\ e.job = exec[s].job /\ e.art = exec[s].art /\ e.outcome = "none"
  BY <1>1 DEF Exec, Working
<1>3. exec' = [exec EXCEPT ![s] = e] BY DEF Save, WorkerTypeOK
<1> HIDE DEF e
<1>4. Advance(s, e) BY <1>1, <1>2 DEF Advance, Claimed, Working, Completing
<1> QED BY <1>2, <1>3, <1>4 DEF Moves

LEMMA ForwardMoves ==
  ASSUME WorkerTypeOK, TaskShape, NEW s \in Slots, Forward(s)
  PROVE  \E e : /\ Moves(s, e) /\ ArtAdvance(s, e)
                /\ \/ wire' = wire
                   \/ wire' = [wire EXCEPT ![exec[s].job] = @ \cup {exec[s].art}]
<1> DEFINE c == Refreshed(s)
           y == [exec[s] EXCEPT !.control = c]
           f == [y EXCEPT !.phase = "forward"]
           g == EndWith(y, "retryable")
<1>1. exec[s] \in Exec /\ exec[s].phase = "ready" /\ exec[s].outcome = "none"
  BY DEF WorkerTypeOK, TaskShape, Forward, Working
<1>2. /\ c \in SUBSET Signals
      /\ "cancel" \in c =>
           "cancel" \in exec[s].control \/ heads[exec[s].job].state \in {"cancelling", "cancelled"}
  BY <1>1 DEF Refreshed, Signals, Exec
<1> HIDE DEF c
<1>3. /\ y \in Exec /\ y.control = c /\ y.job = exec[s].job /\ y.art = exec[s].art
      /\ y.phase = "ready" /\ y.outcome = "none"
  BY <1>1, <1>2 DEF Exec
<1>4. \/ exec' = [exec EXCEPT ![s] = f]
         /\ wire' = [wire EXCEPT ![y.job] = @ \cup {y.art}]
      \/ exec' = [exec EXCEPT ![s] = g] /\ wire' = wire
  BY DEF Forward, c
<1> HIDE DEF y
<1>5. /\ f \in Exec /\ f.control = c /\ f.job = exec[s].job /\ f.art = exec[s].art
      /\ f.phase = "forward" /\ f.outcome = "none"
  BY <1>3 DEF Exec, Working
<1>6. /\ g \in Exec /\ g.control = c /\ g.job = exec[s].job
      /\ g.phase = "done" /\ g.outcome = "retryable"
  BY <1>3, ExecFacts
<1> HIDE DEF f, g
<1>7. Advance(s, f) BY <1>1, <1>2, <1>5 DEF Advance, Claimed, Working, Completing
<1>8. ArtAdvance(s, f) BY <1>1, <1>5 DEF ArtAdvance, ArtOK
<1>9. Advance(s, g) BY <1>1, <1>2, <1>6 DEF Advance, Claimed, Working, Completing
<1>10. ArtAdvance(s, g) BY <1>6 DEF ArtAdvance, ArtOK
<1> QED BY <1>3, <1>4, <1>7, <1>8, <1>9, <1>10 DEF Moves

LEMMA RejectedMoves ==
  ASSUME WorkerTypeOK, TaskShape, NEW s \in Slots, Rejected(s)
  PROVE  \E e : Moves(s, e) /\ ArtAdvance(s, e)
<1> DEFINE e == EndWith(exec[s], "permanent")
<1>1. exec[s] \in Exec /\ exec[s].phase = "forward"
  BY DEF WorkerTypeOK, Rejected
<1>2. /\ e \in Exec /\ e.control = exec[s].control /\ e.job = exec[s].job
      /\ e.phase = "done" /\ e.outcome = "permanent"
  BY <1>1, ExecFacts
<1>3. exec' = [exec EXCEPT ![s] = e] BY DEF Rejected
<1> HIDE DEF e
<1>4. Advance(s, e) BY <1>1, <1>2 DEF Advance, Claimed, Working, Completing
<1>5. ArtAdvance(s, e) BY <1>2 DEF ArtAdvance, ArtOK
<1> QED BY <1>3, <1>4, <1>5 DEF Moves

(* All of them are such steps.                                             *)
LEMMA AllWork ==
  ASSUME WorkerTypeOK, TaskShape, NEW s \in Slots,
         Quiet(s) \/ Beats(s) \/ Save(s) \/ Forward(s) \/ Rejected(s)
  PROVE  \E e : Works(s, e)
<1>0. /\ spool \in [Jobs -> Nat] /\ wire \in [Jobs -> SUBSET Nat]
      /\ exec[s] \in Exec
  BY DEF WorkerTypeOK
<1>1. exec[s].art \in Nat BY <1>0 DEF Exec
<1>2. CASE Quiet(s)
  BY <1>0, <1>2 DEF Quiet, Works, OnlyExec
<1>3. CASE Beats(s)
  BY <1>0, <1>3 DEF Beats, Works, OnlyExec
<1>4. CASE Save(s)
  BY <1>0, <1>1, <1>4, SaveMoves DEF Save, Works
<1>5. CASE Forward(s)
  <2>1. PICK e : /\ Moves(s, e)
                 /\ \/ wire' = wire
                    \/ wire' = [wire EXCEPT ![exec[s].job] = @ \cup {exec[s].art}]
    BY <1>5, ForwardMoves
  <2>2. wire' \in [Jobs -> SUBSET Nat] BY <1>0, <1>1, <2>1
  <2> QED BY <1>0, <1>5, <2>1, <2>2 DEF Forward, Works
<1>6. CASE Rejected(s)
  <2>1. wire' \in [Jobs -> SUBSET Nat] BY <1>0, <1>6 DEF Rejected
  <2> QED BY <1>0, <1>6, <2>1, RejectedMoves DEF Rejected, Works
<1> QED BY <1>2, <1>3, <1>4, <1>5, <1>6

(* Moving a task leaves the rows but for a renewal, and the claims but for *)
(* the snapshot.                                                           *)
LEMMA WorksStore ==
  ASSUME WorkerInv, NEW s \in Slots, NEW e, Works(s, e)
  PROVE  /\ \A k \in Jobs : /\ heads'[k].state = heads[k].state
                            /\ heads'[k].holder = heads[k].holder
                            /\ heads'[k].epoch = heads[k].epoch
         /\ \A r \in Slots : /\ claim'[r].job = claim[r].job
                             /\ claim'[r].epoch = claim[r].epoch
                             /\ claim'[r] = NoClaim <=> claim[r] = NoClaim
         /\ opLease' = opLease /\ clock' = clock
<1>0. TypeOK BY DEF WorkerInv, FenceInv
<1>1. CASE UNCHANGED vars BY <1>1 DEF vars
<1>2. ASSUME NEW t \in Readings, Renew(s, t)
      PROVE  /\ \A k \in Jobs : /\ heads'[k].state = heads[k].state
                                /\ heads'[k].holder = heads[k].holder
                                /\ heads'[k].epoch = heads[k].epoch
             /\ \A r \in Slots : /\ claim'[r].job = claim[r].job
                                 /\ claim'[r].epoch = claim[r].epoch
                                 /\ claim'[r] = NoClaim <=> claim[r] = NoClaim
             /\ opLease' = opLease /\ clock' = clock
  <2>1. claim[s] \in Claims /\ claim[s].job \in Jobs BY <1>0, <1>2, LeasedRowJob DEF Renew
  <2>2. \A k \in Jobs : /\ heads'[k].state = heads[k].state
                        /\ heads'[k].holder = heads[k].holder
                        /\ heads'[k].epoch = heads[k].epoch
    BY <1>0, <1>2 DEF Renew, TypeOK, Head
  <2>3. \A r \in Slots \ {s} : claim'[r] = claim[r]
    BY <1>0, <1>2 DEF Renew, TypeOK
  <2>4. claim'[s].job = claim[s].job /\ claim'[s].epoch = claim[s].epoch
    BY <1>0, <1>2, <2>1 DEF Renew, TypeOK, Claims
  <2>5. claim[s] /= NoClaim /\ claim'[s] /= NoClaim
    BY <2>1, <2>4, JobsAssumption DEF NoClaim, NoJob
  <2> QED BY <1>2, <2>2, <2>3, <2>4, <2>5 DEF Renew
<1> QED BY <1>1, <1>2 DEF Works

-----------------------------------------------------------------------------
(* What a success says, whatever goes wrong.                               *)

(* The part of the invariant about one task.                               *)
TaskOK(e, c, stored) ==
  /\ IF e.phase \in {"idle", "cleanup"} THEN c = NoClaim ELSE c /= NoClaim /\ e.job = c.job
  /\ e.phase /= "idle" => e.job \in Jobs
  /\ e.phase \in Working \cup {"idle"} => e.outcome = "none"
  /\ c /= NoClaim => c.epoch > 0
  /\ e.phase = "save" => e.art /= NoArtifact
  /\ e.outcome = "result" => e.art \in stored[e.job]

(* The part about the processes.                                           *)
Handlers == [stage : {"none", "delete", "notify"}, job : Jobs \cup {NoJob}]
HandlerOK(h) == h \in Handlers /\ (h.stage /= "none" => h.job \in Jobs)

LEMMA WorkerInvParts ==
  WorkerInv <=>
    /\ FenceInv
    /\ exec \in [Slots -> Exec]
    /\ \A r \in Slots : TaskOK(exec[r], claim[r], accepted)
    /\ spool \in [Jobs -> Nat] /\ wire \in [Jobs -> SUBSET Nat]
    /\ accepted \in [Jobs -> SUBSET Nat] /\ result \in [Jobs -> Nat]
    /\ handler \in [Procs -> Handlers] /\ \A p \in Procs : HandlerOK(handler[p])
    /\ stopping \in [Procs -> Stopping]
    /\ retried \in [Jobs -> Nat] /\ asked \in [Jobs -> BOOLEAN]
    /\ sweep \in Jobs \cup {NoJob}
    /\ \A g \in Targets : opLease[g] = NoOpLease
    /\ SucceededWasStored
  BY DEF WorkerInv, WorkerTypeOK, FenceInv, TaskShape, ResultWasStored, TaskOK, HandlerOK, Handlers

(* The same after a step.                                                  *)
LEMMA WorkerInvAfter ==
  ASSUME FenceInv', exec' \in [Slots -> Exec],
         \A r \in Slots : TaskOK(exec'[r], claim'[r], accepted'),
         spool' \in [Jobs -> Nat], wire' \in [Jobs -> SUBSET Nat],
         accepted' \in [Jobs -> SUBSET Nat], result' \in [Jobs -> Nat],
         handler' \in [Procs -> Handlers], \A p \in Procs : HandlerOK(handler'[p]),
         stopping' \in [Procs -> Stopping],
         retried' \in [Jobs -> Nat], asked' \in [Jobs -> BOOLEAN],
         sweep' \in Jobs \cup {NoJob},
         \A g \in Targets : opLease'[g] = NoOpLease,
         SucceededWasStored'
  PROVE  WorkerInv'
  BY DEF WorkerInv, WorkerTypeOK, FenceInv, TaskShape, ResultWasStored, TaskOK, HandlerOK, Handlers

LEMMA WorkerInvInit == WorkerInit => WorkerInv
<1> SUFFICES ASSUME WorkerInit PROVE WorkerInv OBVIOUS
<1>1. FenceInv BY FenceInit DEF WorkerInit
<1>2. exec \in [Slots -> Exec] BY ExecFacts DEF WorkerInit
<1>3. \A r \in Slots : TaskOK(exec[r], claim[r], accepted)
  BY DEF WorkerInit, Init, TaskOK, IdleExec
<1>4. handler \in [Procs -> Handlers] /\ \A p \in Procs : HandlerOK(handler[p])
  BY DEF WorkerInit, NoHandler, HandlerOK, Handlers
<1>5. SucceededWasStored /\ \A g \in Targets : opLease[g] = NoOpLease
  BY DEF WorkerInit, Init, SucceededWasStored, EmptyHead
<1> QED BY <1>1, <1>2, <1>3, <1>4, <1>5, WorkerInvParts
        DEF WorkerInit, NoArtifact, Stopping

(* The part about successes: nothing but a commit adds one.                *)
LEMMA SuccessesKept ==
  ASSUME SucceededWasStored,
         \A k \in Jobs : heads'[k].state = "succeeded" =>
           heads[k].state = "succeeded" /\ result'[k] = result[k],
         \A k \in Jobs : accepted[k] \subseteq accepted'[k]
  PROVE  SucceededWasStored'
  BY DEF SucceededWasStored

LEMMA WorksKeepsInv ==
  ASSUME WorkerInv, FenceInv', NEW s \in Slots, NEW e, Works(s, e)
  PROVE  WorkerInv'
<1>1. exec' = [exec EXCEPT ![s] = e] /\ Advance(s, e) BY DEF Works, Moves
<1>2. exec' \in [Slots -> Exec] BY <1>1, WorkerInvParts DEF Advance
<1>3. \A r \in Slots : TaskOK(exec[r], claim[r], accepted) BY WorkerInvParts
<1>4. ASSUME NEW r \in Slots PROVE TaskOK(exec'[r], claim'[r], accepted')
  <2>1. /\ claim'[r].job = claim[r].job /\ claim'[r].epoch = claim[r].epoch
        /\ claim'[r] = NoClaim <=> claim[r] = NoClaim
    BY WorksStore
  <2>2. accepted' = accepted BY DEF Works
  <2>3. CASE r /= s
    <3>1. exec'[r] = exec[r] BY <1>1, <2>3, WorkerInvParts
    <3> QED BY <1>3, <2>1, <2>2, <3>1 DEF TaskOK
  <2>4. CASE r = s
    <3>1. exec'[r] = e BY <1>1, <2>4, WorkerInvParts
    <3>2. TaskOK(exec[s], claim[s], accepted) BY <1>3
    <3> QED BY <1>1, <2>1, <2>2, <2>4, <3>1, <3>2
            DEF TaskOK, Advance, Claimed, Working, Completing, NoArtifact
  <2> QED BY <2>3, <2>4
<1>5. SucceededWasStored'
  BY WorksStore, SuccessesKept, WorkerInvParts DEF Works
<1>6. \A g \in Targets : opLease'[g] = NoOpLease BY WorksStore, WorkerInvParts
<1>7. /\ spool' \in [Jobs -> Nat] /\ wire' \in [Jobs -> SUBSET Nat]
      /\ UNCHANGED <<accepted, result, handler, stopping, retried, asked, sweep>>
  BY DEF Works
<1> QED BY <1>2, <1>4, <1>5, <1>6, <1>7, WorkerInvParts, WorkerInvAfter

LEMMA DispatchKeepsInv ==
  ASSUME WorkerInv, FenceInv', NEW s \in Slots, NEW j \in Jobs, NEW t \in Readings,
         Dispatch(s, j, t)
  PROVE  WorkerInv'
<1> DEFINE e == [IdleExec EXCEPT !.phase = "load", !.job = j, !.control = CancelSeen(j)]
<1>0. TypeOK /\ t \in Nat BY ReadingsNat DEF WorkerInv, FenceInv, TypeOK
<1>1. CancelSeen(j) \in SUBSET Signals BY DEF CancelSeen, Signals
<1>2. e \in Exec /\ e.phase = "load" /\ e.job = j /\ e.outcome = "none"
  BY <1>1 DEF IdleExec, Exec, Working, NoArtifact
<1>3. exec' = [exec EXCEPT ![s] = e] BY DEF Dispatch
<1> HIDE DEF e
<1>4. /\ heads[j].state \in Queued \cup Active
      /\ heads'[j] = ClaimedHead(heads[j], s, t)
      /\ \A k \in Jobs \ {j} : heads'[k] = heads[k] \/ heads'[k] = FailedHead(heads[k])
      /\ opLease' = SweepOps(t)
      /\ claim' = [claim EXCEPT ![s] = [job |-> j, epoch |-> heads'[j].epoch,
                                        attempt |-> heads'[j].attempt, cancel |-> heads'[j].cancel]]
  BY <1>0, ClaimNextStep DEF Dispatch
<1>5. heads'[j].epoch = heads[j].epoch + 1 /\ heads'[j].state \in Active
  BY <1>0, <1>4, ClaimedHeadRow DEF TypeOK
<1>6. claim'[s].job = j /\ claim'[s].epoch > 0 /\ claim'[s] /= NoClaim
  <2>1. heads[j].epoch \in Nat BY <1>0 DEF TypeOK, Head
  <2>2. claim'[s].job = j /\ claim'[s].epoch = heads[j].epoch + 1 BY <1>0, <1>4, <1>5 DEF TypeOK
  <2> QED BY <2>1, <2>2, JobsAssumption DEF NoClaim, NoJob
<1>7. exec' \in [Slots -> Exec] BY <1>2, <1>3, WorkerInvParts
<1>8. ASSUME NEW r \in Slots PROVE TaskOK(exec'[r], claim'[r], accepted')
  <2>1. accepted' = accepted BY DEF Dispatch
  <2>2. CASE r /= s
    <3>1. exec'[r] = exec[r] /\ claim'[r] = claim[r]
      BY <1>0, <1>3, <1>4, <2>2, WorkerInvParts DEF TypeOK
    <3> QED BY <2>1, <3>1, WorkerInvParts
  <2>3. CASE r = s
    <3>1. exec'[r] = e BY <1>3, <2>3, WorkerInvParts
    <3> QED BY <1>2, <1>6, <2>3, <3>1 DEF TaskOK
  <2> QED BY <2>2, <2>3
<1>9. SucceededWasStored'
  <2>1. ASSUME NEW k \in Jobs, heads'[k].state = "succeeded" PROVE heads[k].state = "succeeded"
    <3>1. FailedHead(heads[k]).state = "failed" BY <1>0, FailedHeadRow DEF TypeOK
    <3> QED BY <1>4, <1>5, <2>1, <3>1 DEF Active
  <2> QED BY <2>1, SuccessesKept, WorkerInvParts DEF Dispatch
<1>10. \A g \in Targets : opLease'[g] = NoOpLease
  BY <1>0, <1>4, SweepOpsLeases, WorkerInvParts
<1>11. stopping' \in [Procs -> Stopping]
  BY WorkerInvParts DEF Dispatch, ClaimReturns, Stopping
<1> QED BY <1>7, <1>8, <1>9, <1>10, <1>11, WorkerInvParts, WorkerInvAfter DEF Dispatch

LEMMA DispatchNoneKeepsInv ==
  ASSUME WorkerInv, FenceInv', NEW s \in Slots, NEW t \in Readings, DispatchNone(s, t)
  PROVE  WorkerInv'
<1>0. TypeOK /\ t \in Nat BY ReadingsNat DEF WorkerInv, FenceInv, TypeOK
<1>1. /\ \A k \in Jobs : heads'[k] = heads[k] \/ heads'[k] = FailedHead(heads[k])
      /\ opLease' = SweepOps(t) /\ claim' = claim
  BY <1>0, FailExhaustedHeads DEF DispatchNone, ClaimNone
<1>2. SucceededWasStored'
  <2>1. ASSUME NEW k \in Jobs, heads'[k].state = "succeeded" PROVE heads[k].state = "succeeded"
    <3>1. FailedHead(heads[k]).state = "failed" BY <1>0, FailedHeadRow DEF TypeOK
    <3> QED BY <1>1, <2>1, <3>1
  <2> QED BY <2>1, SuccessesKept, WorkerInvParts DEF DispatchNone
<1>3. \A g \in Targets : opLease'[g] = NoOpLease
  BY <1>0, <1>1, SweepOpsLeases, WorkerInvParts
<1>4. stopping' \in [Procs -> Stopping]
  BY WorkerInvParts DEF DispatchNone, ClaimReturns, Stopping
<1> QED BY <1>1, <1>2, <1>3, <1>4, WorkerInvParts, WorkerInvAfter DEF DispatchNone

(* A completed claim: the task is idle or cleans up, and the row has the   *)
(* chosen state.                                                           *)
LEMMA CommitStep ==
  ASSUME WorkerInv, NEW s \in Slots, NEW t \in Readings, Commit(s, t) \/ RaceCommit(s, t)
  PROVE  \E e \in Exec :
         LET j == exec[s].job
         IN  /\ exec' = [exec EXCEPT ![s] = e]
             /\ \/ e = IdleExec /\ heads'[j].state = "retrying"
                \/ /\ e.phase = "cleanup" /\ e.job = j /\ e.art = exec[s].art
                   /\ e.outcome = exec[s].outcome /\ heads'[j].state \in Terminal
             /\ claim' = [claim EXCEPT ![s] = NoClaim]
             /\ j \in Jobs /\ claim[s].job = j /\ claim[s] /= NoClaim
             /\ LeasedRow(s, t)
             /\ heads[j].state \in Active /\ heads[j].holder = s
             /\ heads'[j].holder = NoSlot /\ heads'[j].epoch = heads[j].epoch
             /\ heads'[j].expires = Null /\ heads'[j].heartbeat = Null
             /\ \A k \in Jobs \ {j} : heads'[k] = heads[k]
             /\ heads'[j].state = "succeeded" =>
                  exec[s].outcome = "result" /\ result' = [result EXCEPT ![j] = exec[s].art]
             /\ heads'[j].state /= "succeeded" => result' = result
             /\ heads'[j].state = "cancelled" =>
                  exec[s].phase = "raceCommit" \/ "cancel" \in exec[s].control
             /\ exec[s].outcome = "result" =>
                  exec[s].phase = "raceCommit" \/ heads'[j].state = "succeeded"
             /\ UNCHANGED <<opLease, clock, spool, wire, accepted, handler, stopping, retried, asked, sweep>>
<1> DEFINE j == exec[s].job
           cl == [exec[s] EXCEPT !.phase = "cleanup"]
<1>0. TypeOK /\ t \in Nat /\ exec[s] \in Exec /\ exec \in [Slots -> Exec]
  BY ReadingsNat, WorkerInvParts DEF FenceInv, TypeOK
<1>1. exec[s].phase \in {"decide", "raceCommit"} BY DEF Commit, RaceCommit
<1>2. j \in Jobs /\ claim[s].job = j /\ claim[s] /= NoClaim
  <2>1. TaskOK(exec[s], claim[s], accepted) BY WorkerInvParts
  <2> QED BY <1>1, <2>1 DEF TaskOK
<1>3. /\ cl \in Exec /\ cl.phase = "cleanup" /\ cl.job = j /\ cl.art = exec[s].art
      /\ cl.outcome = exec[s].outcome
  BY <1>0 DEF Exec, Completing
<1> HIDE DEF cl
<1> cl \in Exec BY <1>3
<1>4. ASSUME NEW out \in Outcomes(claim[s]), Complete(s, t, out[1], out[2])
      PROVE  /\ claim' = [claim EXCEPT ![s] = NoClaim]
             /\ LeasedRow(s, t)
             /\ heads[j].state \in Active /\ heads[j].holder = s
             /\ heads'[j].holder = NoSlot /\ heads'[j].epoch = heads[j].epoch
             /\ heads'[j].expires = Null /\ heads'[j].heartbeat = Null
             /\ heads'[j].state = out[1]
             /\ \A k \in Jobs \ {j} : heads'[k] = heads[k]
             /\ UNCHANGED <<opLease, clock>>
  <2> DEFINE row == CompletedHead(heads[j], claim[s], t, out[1], out[2])
  <2>1. /\ heads[j].holder = s /\ heads[j].state \in Active
        /\ row.holder = NoSlot /\ row.epoch = heads[j].epoch /\ row.state = out[1]
        /\ row.expires = Null
        /\ heads' = [heads EXCEPT ![j] = row]
        /\ claim' = [claim EXCEPT ![s] = NoClaim]
        /\ UNCHANGED <<opLease, clock>>
    BY <1>0, <1>2, <1>4, CompleteStep
  <2>2. row.heartbeat = Null
    <3>1. heads[j] \in Head BY <1>0, <1>2 DEF TypeOK
    <3>2. ClearLease(heads[j]) \in Head /\ ClearLease(heads[j]).heartbeat = Null
      BY <3>1, ClearLeaseRow DEF ClearLease, Head
    <3> QED BY <3>2 DEF CompletedHead, Head
  <2>3. LeasedRow(s, t) BY <1>4 DEF Complete
  <2> HIDE DEF row
  <2> QED BY <1>0, <1>2, <2>1, <2>2, <2>3 DEF TypeOK
<1>5. CASE Commit(s, t)
  <2> DEFINE state == Decision(exec[s], claim[s])
  <2>1. PICK d \in DerivedOf(state) : Complete(s, t, state, d) BY <1>5 DEF Commit
  <2>2. /\ <<state, d>> \in Outcomes(claim[s])
        /\ state \in Terminal \cup {"retrying"}
        /\ state = "succeeded" <=> exec[s].outcome = "result"
        /\ state = "cancelled" => "cancel" \in exec[s].control
    BY DecisionFacts
  <2>3. /\ result' = IF state = "succeeded" THEN [result EXCEPT ![j] = exec[s].art] ELSE result
        /\ exec' = [exec EXCEPT ![s] = IF state = "retrying" THEN IdleExec ELSE cl]
        /\ UNCHANGED <<spool, wire, accepted, handler, stopping, retried, asked, sweep>>
    BY <1>0, <1>5 DEF Commit, cl
  <2> HIDE DEF state
  <2>4. Complete(s, t, <<state, d>>[1], <<state, d>>[2]) BY <2>1
  <2>5. /\ claim' = [claim EXCEPT ![s] = NoClaim]
        /\ LeasedRow(s, t)
        /\ heads[j].state \in Active /\ heads[j].holder = s
        /\ heads'[j].holder = NoSlot /\ heads'[j].epoch = heads[j].epoch
        /\ heads'[j].expires = Null /\ heads'[j].heartbeat = Null
        /\ heads'[j].state = state
        /\ \A k \in Jobs \ {j} : heads'[k] = heads[k]
        /\ UNCHANGED <<opLease, clock>>
    BY <1>4, <2>2, <2>4
  <2>6. IdleExec \in Exec BY ExecFacts
  <2>7. CASE state = "retrying"
    <3> WITNESS IdleExec \in Exec
    <3> QED BY <1>2, <2>2, <2>3, <2>5, <2>7
  <2>8. CASE state \in Terminal
    <3> WITNESS cl \in Exec
    <3>1. exec' = [exec EXCEPT ![s] = cl] BY <2>3, <2>8 DEF Terminal
    <3> QED BY <1>2, <1>3, <2>2, <2>3, <2>5, <2>8, <3>1
  <2> QED BY <2>2, <2>7, <2>8
<1>6. CASE RaceCommit(s, t)
  <2>1. <<"cancelled", "none">> \in Outcomes(claim[s]) BY DEF Outcomes
  <2>2. Complete(s, t, <<"cancelled", "none">>[1], <<"cancelled", "none">>[2])
    BY <1>6 DEF RaceCommit
  <2>3. exec' = [exec EXCEPT ![s] = cl] /\ OnlyExec /\ exec[s].phase = "raceCommit"
    BY <1>0, <1>6 DEF RaceCommit, cl
  <2>4. /\ claim' = [claim EXCEPT ![s] = NoClaim]
        /\ LeasedRow(s, t)
        /\ heads[j].state \in Active /\ heads[j].holder = s
        /\ heads'[j].holder = NoSlot /\ heads'[j].epoch = heads[j].epoch
        /\ heads'[j].expires = Null /\ heads'[j].heartbeat = Null
        /\ heads'[j].state = "cancelled"
        /\ \A k \in Jobs \ {j} : heads'[k] = heads[k]
        /\ UNCHANGED <<opLease, clock>>
    BY <1>4, <2>1, <2>2
  <2> WITNESS cl \in Exec
  <2> QED BY <1>2, <1>3, <2>3, <2>4 DEF OnlyExec, Terminal
<1> QED BY <1>5, <1>6

LEMMA CommitKeepsInv ==
  ASSUME WorkerInv, FenceInv', NEW s \in Slots, NEW t \in Readings,
         Commit(s, t) \/ RaceCommit(s, t)
  PROVE  WorkerInv'
<1> DEFINE j == exec[s].job
<1>0. TypeOK /\ exec \in [Slots -> Exec] BY WorkerInvParts DEF FenceInv
<1>1. PICK e \in Exec :
        /\ exec' = [exec EXCEPT ![s] = e]
        /\ \/ e = IdleExec
           \/ /\ e.phase = "cleanup" /\ e.job = j /\ e.art = exec[s].art
              /\ e.outcome = exec[s].outcome
        /\ claim' = [claim EXCEPT ![s] = NoClaim]
        /\ j \in Jobs
        /\ \A k \in Jobs \ {j} : heads'[k] = heads[k]
        /\ heads'[j].state = "succeeded" =>
             exec[s].outcome = "result" /\ result' = [result EXCEPT ![j] = exec[s].art]
        /\ heads'[j].state /= "succeeded" => result' = result
        /\ UNCHANGED <<opLease, clock, spool, wire, accepted, handler, stopping, retried, asked, sweep>>
  BY CommitStep
<1>2. exec' \in [Slots -> Exec] BY <1>0, <1>1
<1>3. ASSUME NEW r \in Slots PROVE TaskOK(exec'[r], claim'[r], accepted')
  <2>1. TaskOK(exec[r], claim[r], accepted) BY WorkerInvParts
  <2>2. CASE r /= s
    <3>1. exec'[r] = exec[r] /\ claim'[r] = claim[r] BY <1>0, <1>1, <2>2 DEF TypeOK
    <3> QED BY <1>1, <2>1, <3>1
  <2>3. CASE r = s
    <3>1. exec'[s] = e /\ claim'[s] = NoClaim BY <1>0, <1>1 DEF TypeOK
    <3> QED BY <1>1, <2>1, <2>3, <3>1 DEF TaskOK, IdleExec, Working
  <2> QED BY <2>2, <2>3
<1>4. SucceededWasStored'
  <2> SUFFICES ASSUME NEW k \in Jobs, heads'[k].state = "succeeded"
               PROVE  result'[k] \in accepted[k]
    BY <1>1 DEF SucceededWasStored
  <2>1. result \in [Jobs -> Nat] BY WorkerInvParts
  <2>2. CASE k = j
    <3>1. TaskOK(exec[s], claim[s], accepted) BY WorkerInvParts
    <3>2. exec[s].art \in accepted[j] BY <1>1, <2>2, <3>1 DEF TaskOK
    <3> QED BY <1>1, <2>1, <2>2, <3>2
  <2>3. CASE k /= j
    <3>1. heads'[k] = heads[k] /\ result'[k] = result[k] BY <1>1, <2>1, <2>3
    <3> QED BY <3>1, WorkerInvParts DEF SucceededWasStored
  <2> QED BY <2>2, <2>3
<1>5. result' \in [Jobs -> Nat]
  <2>1. exec[s].art \in Nat BY <1>0 DEF Exec
  <2> QED BY <1>1, <2>1, WorkerInvParts
<1> QED BY <1>1, <1>2, <1>3, <1>4, <1>5, WorkerInvParts, WorkerInvAfter

LEMMA EndingKeepsInv ==
  ASSUME WorkerInv, FenceInv', NEW s \in Slots, Cleanup(s) \/ Release(s)
  PROVE  WorkerInv'
<1>0. TypeOK /\ exec \in [Slots -> Exec] BY WorkerInvParts DEF FenceInv
<1>1. /\ exec' = [exec EXCEPT ![s] = IdleExec]
      /\ heads' = heads /\ opLease' = opLease
      /\ UNCHANGED <<wire, accepted, result, handler, stopping, retried, asked, sweep>>
  BY DEF Cleanup, Release, Abandon, OnlyExec, vars
<1>2. exec' \in [Slots -> Exec] BY <1>0, <1>1, ExecFacts
<1>3. spool' \in [Jobs -> Nat]
  BY WorkerInvParts DEF Cleanup, Release, OnlyExec, NoArtifact
<1>4. claim'[s] = NoClaim /\ \A r \in Slots \ {s} : claim'[r] = claim[r]
  <2>1. CASE Cleanup(s)
    <3>1. TaskOK(exec[s], claim[s], accepted) BY WorkerInvParts
    <3> QED BY <2>1, <3>1 DEF Cleanup, TaskOK, vars
  <2>2. CASE Release(s) BY <1>0, <2>2 DEF Release, Abandon, TypeOK
  <2> QED BY <2>1, <2>2
<1>5. ASSUME NEW r \in Slots PROVE TaskOK(exec'[r], claim'[r], accepted')
  <2>1. CASE r /= s
    <3>1. exec'[r] = exec[r] /\ claim'[r] = claim[r] BY <1>0, <1>1, <1>4, <2>1
    <3> QED BY <1>1, <3>1, WorkerInvParts
  <2>2. CASE r = s
    <3>1. exec'[s] = IdleExec BY <1>0, <1>1
    <3> QED BY <1>4, <2>2, <3>1 DEF TaskOK, IdleExec
  <2> QED BY <2>1, <2>2
<1>6. SucceededWasStored' BY <1>1, SuccessesKept, WorkerInvParts
<1> QED BY <1>1, <1>2, <1>3, <1>5, <1>6, WorkerInvParts, WorkerInvAfter

(* A signal more in the control of a task.                                 *)
LEMMA SignalFacts ==
  ASSUME NEW e \in Exec, NEW c \in Signals
  PROVE  LET f == [e EXCEPT !.control = @ \cup {c}]
         IN  /\ f \in Exec /\ f.phase = e.phase /\ f.job = e.job /\ f.art = e.art
             /\ f.outcome = e.outcome /\ f.control = e.control \cup {c}
<1>1. e.control \cup {c} \in SUBSET Signals BY DEF Exec
<1> QED BY <1>1 DEF Exec

(* What the endpoints and the processes do to the tasks: a signal, or the  *)
(* end.                                                                    *)
LEMMA ProcessTasks ==
  ASSUME WorkerInv, NEW p \in Procs, ProcessStep(p)
  PROVE  /\ exec' \in [Slots -> Exec]
         /\ \A r \in Slots :
              \/ exec'[r] = exec[r] /\ claim'[r] = claim[r]
              \/ Restart(p) /\ exec'[r] = IdleExec /\ claim'[r] = NoClaim
              \/ /\ claim'[r] = claim[r]
                 /\ exec'[r].phase = exec[r].phase /\ exec'[r].job = exec[r].job
                 /\ exec'[r].art = exec[r].art /\ exec'[r].outcome = exec[r].outcome
                 /\ \/ Stop(p) /\ exec'[r].control = exec[r].control \cup {"shutdown"}
                    \/ /\ NotifyCancel(p) /\ exec[r].job = handler[p].job
                       /\ exec'[r].control = exec[r].control \cup {"cancel"}
<1>0. exec \in [Slots -> Exec] BY WorkerInvParts
<1>1. "shutdown" \in Signals /\ "cancel" \in Signals BY DEF Signals
<1>2. CASE Stop(p)
  <2>1. /\ exec' = [s \in Slots |-> IF OwnerOf[s] = p /\ exec[s] /= IdleExec
                                    THEN [exec[s] EXCEPT !.control = @ \cup {"shutdown"}]
                                    ELSE exec[s]]
        /\ claim' = claim
    BY <1>2 DEF Stop, vars
  <2>2. \A r \in Slots :
          LET f == [exec[r] EXCEPT !.control = @ \cup {"shutdown"}]
          IN  /\ f \in Exec /\ f.phase = exec[r].phase /\ f.job = exec[r].job
              /\ f.art = exec[r].art /\ f.outcome = exec[r].outcome
              /\ f.control = exec[r].control \cup {"shutdown"}
    BY <1>0, <1>1, SignalFacts
  <2> QED BY <1>0, <1>2, <2>1, <2>2
<1>3. CASE NotifyCancel(p)
  <2>1. /\ exec' = [s \in Slots |-> IF OwnerOf[s] = p /\ exec[s].job = handler[p].job
                                    THEN [exec[s] EXCEPT !.control = @ \cup {"cancel"}]
                                    ELSE exec[s]]
        /\ claim' = claim
    BY <1>3 DEF NotifyCancel, vars
  <2>2. \A r \in Slots :
          LET f == [exec[r] EXCEPT !.control = @ \cup {"cancel"}]
          IN  /\ f \in Exec /\ f.phase = exec[r].phase /\ f.job = exec[r].job
              /\ f.art = exec[r].art /\ f.outcome = exec[r].outcome
              /\ f.control = exec[r].control \cup {"cancel"}
    BY <1>0, <1>1, SignalFacts
  <2> QED BY <1>0, <1>3, <2>1, <2>2
<1>4. CASE Restart(p)
  BY <1>0, <1>4, ExecFacts DEF Restart
<1>5. CASE \E j \in Jobs : CancelScan(p, j) \/ CancelAgain(p, j)
  BY <1>0, <1>5 DEF CancelScan, CancelAgain, RequestCancel, vars
<1>6. CASE DeleteCancelled(p)
  BY <1>0, <1>6 DEF DeleteCancelled, vars
<1> QED BY <1>2, <1>3, <1>4, <1>5, <1>6 DEF ProcessStep

(* What a cancellation does to the row.                                    *)
LEMMA CancelRow ==
  ASSUME TypeOK, NEW j \in Jobs, RequestCancel(j)
  PROVE  /\ heads[j].state \in Queued => heads'[j].state = "cancelled"
         /\ heads[j].state \notin Queued => heads'[j].state = "cancelling"
         /\ heads[j].state \in Queued \cup {"running"}
         /\ heads'[j].holder = heads[j].holder /\ heads'[j].epoch = heads[j].epoch
         /\ heads'[j].expires = heads[j].expires /\ heads'[j].heartbeat = heads[j].heartbeat
         /\ \A k \in Jobs \ {j} : heads'[k] = heads[k]
         /\ UNCHANGED <<opLease, claim, clock>>
<1>1. heads[j] \in Head BY DEF TypeOK
<1>2. heads'[j] = CancelledHead(heads[j]) /\ \A k \in Jobs \ {j} : heads'[k] = heads[k]
  BY DEF RequestCancel, TypeOK
<1>3. CancelledHead(heads[j]).heartbeat = heads[j].heartbeat BY <1>1 DEF CancelledHead, Head
<1> QED BY <1>1, <1>2, <1>3, CancelledHeadRow DEF RequestCancel

(* Where a cancel request goes on.                                         *)
LEMMA HandlerFacts ==
  /\ HandlerOK(NoHandler)
  /\ \A st : \A j \in Jobs :
       /\ HandlerOK([stage |-> AfterCancel(st), job |-> j])
       /\ AfterCancel(st) = "delete" => st = "cancelled"
  BY DEF HandlerOK, Handlers, NoHandler, AfterCancel

LEMMA ProcessKeepsInv ==
  ASSUME WorkerInv, FenceInv', NEW p \in Procs, ProcessStep(p)
  PROVE  WorkerInv'
<1>0. TypeOK /\ handler \in [Procs -> Handlers] /\ \A q \in Procs : HandlerOK(handler[q])
  BY WorkerInvParts DEF FenceInv
<1>1. exec' \in [Slots -> Exec] BY ProcessTasks
<1>2. accepted' = accepted /\ wire' = wire /\ result' = result /\ retried' = retried
  BY DEF ProcessStep, Stop, Restart, CancelScan, CancelAgain, DeleteCancelled, NotifyCancel
<1>3. ASSUME NEW r \in Slots PROVE TaskOK(exec'[r], claim'[r], accepted')
  <2>1. TaskOK(exec[r], claim[r], accepted) BY WorkerInvParts
  <2> QED BY <1>2, <2>1, ProcessTasks DEF TaskOK, IdleExec
<1>4. spool' \in [Jobs -> Nat]
  BY WorkerInvParts
  DEF ProcessStep, Stop, Restart, CancelScan, CancelAgain, DeleteCancelled, NotifyCancel, NoArtifact
<1>5. stopping' \in [Procs -> Stopping]
  BY WorkerInvParts
  DEF ProcessStep, Stop, Restart, CancelScan, CancelAgain, DeleteCancelled, NotifyCancel, Stopping
<1>6. asked' \in [Jobs -> BOOLEAN] /\ sweep' \in Jobs \cup {NoJob}
  BY WorkerInvParts
  DEF ProcessStep, Stop, Restart, CancelScan, CancelAgain, DeleteCancelled, NotifyCancel
<1>7. \/ handler' = handler
      \/ \E h : HandlerOK(h) /\ handler' = [handler EXCEPT ![p] = h]
  <2>1. CASE Stop(p) BY <2>1 DEF Stop
  <2>2. CASE Restart(p) \/ NotifyCancel(p) BY <2>2, HandlerFacts DEF Restart, NotifyCancel
  <2>3. ASSUME NEW j \in Jobs, CancelScan(p, j) \/ CancelAgain(p, j)
        PROVE  \E h : HandlerOK(h) /\ handler' = [handler EXCEPT ![p] = h]
    BY <2>3, HandlerFacts DEF CancelScan, CancelAgain
  <2>4. CASE DeleteCancelled(p)
    <3> DEFINE h == [handler[p] EXCEPT !.stage = "notify"]
    <3>1. handler[p].job \in Jobs /\ handler[p] \in Handlers
      BY <1>0, <2>4 DEF HandlerOK, DeleteCancelled
    <3>2. h \in Handlers /\ h.job \in Jobs BY <3>1 DEF Handlers
    <3>3. handler' = [handler EXCEPT ![p] = h] BY <1>0, <2>4 DEF DeleteCancelled
    <3> HIDE DEF h
    <3> QED BY <3>2, <3>3 DEF HandlerOK
  <2> QED BY <2>1, <2>2, <2>3, <2>4 DEF ProcessStep
<1>8. handler' \in [Procs -> Handlers] /\ \A q \in Procs : HandlerOK(handler'[q])
  BY <1>0, <1>7 DEF HandlerOK
<1>9. opLease' = opLease /\ \A k \in Jobs : heads'[k].state = "succeeded" => heads[k].state = "succeeded"
  <2>1. ASSUME NEW j \in Jobs, CancelScan(p, j)
        PROVE  /\ opLease' = opLease
               /\ \A k \in Jobs : heads'[k].state = "succeeded" => heads[k].state = "succeeded"
    BY <1>0, <2>1, CancelRow DEF CancelScan
  <2>2. ASSUME NEW j \in Jobs, CancelAgain(p, j)
        PROVE  heads' = heads /\ opLease' = opLease
    BY <2>2 DEF CancelAgain, vars
  <2>3. CASE Stop(p) \/ Restart(p) \/ DeleteCancelled(p) \/ NotifyCancel(p)
    BY <2>3 DEF Stop, Restart, DeleteCancelled, NotifyCancel, vars
  <2> QED BY <2>1, <2>2, <2>3 DEF ProcessStep
<1>10. SucceededWasStored' BY <1>2, <1>9, SuccessesKept, WorkerInvParts
<1> QED BY <1>1, <1>2, <1>3, <1>4, <1>5, <1>6, <1>8, <1>9, <1>10, WorkerInvParts, WorkerInvAfter

(* What a submission and a manual retry do to the rows.                    *)
LEMMA SubmitRows ==
  ASSUME TypeOK, NEW j \in Jobs, NEW t \in Readings, Submit(j, t)
  PROVE  /\ \A k \in Jobs : \/ heads'[k] = heads[k]
                            \/ /\ heads'[k].state = "evicted" /\ heads[k].state \in Terminal
                               /\ heads'[k].holder = NoSlot /\ heads'[k].heartbeat = Null
                               /\ heads'[k].expires = Null
                            \/ /\ heads'[k].state = "pending" /\ heads[k].state = "absent"
                               /\ heads'[k].holder = NoSlot /\ heads'[k].heartbeat = Null
                               /\ heads'[k].expires = Null /\ heads'[k].epoch = 0
         /\ UNCHANGED <<opLease, claim, clock>> /\ UNCHANGED workerVars
<1>0. t \in Nat BY ReadingsNat DEF TypeOK
<1>1. /\ heads'[j] = NewHead(t) /\ heads[j].state = "absent"
      /\ \A k \in Jobs \ {j} : \/ heads'[k] = heads[k]
                               \/ heads'[k] = EvictedHead /\ heads[k].state \in Terminal
  BY InsertHeads DEF Submit, Create
<1>2. /\ NewHead(t).heartbeat = Null /\ NewHead(t).epoch = 0 /\ EvictedHead.heartbeat = Null
  BY DEF NewHead, EvictedHead, EmptyHead
<1> QED BY <1>0, <1>1, <1>2, NewHeadRow, EvictedHeadRow DEF Submit, Create

LEMMA RetryRows ==
  ASSUME TypeOK, NEW j \in Jobs, NEW t \in Readings, RetryScan(j, t)
  PROVE  /\ heads[j].state \in {"failed", "cancelled"} /\ heads'[j].state = "pending"
         /\ heads'[j].holder = NoSlot /\ heads'[j].epoch = heads[j].epoch
         /\ heads'[j].expires = Null /\ heads'[j].heartbeat = Null
         /\ \A k \in Jobs \ {j} : heads'[k] = heads[k]
         /\ UNCHANGED <<opLease, claim, clock, exec, spool, wire, accepted, handler, stopping>>
<1>0. t \in Nat /\ heads[j] \in Head BY ReadingsNat DEF TypeOK
<1>1. /\ heads'[j] = RetriedHead(heads[j], t) /\ \A k \in Jobs \ {j} : heads'[k] = heads[k]
      /\ heads[j].state \in {"failed", "cancelled"}
  BY DEF RetryScan, ManualRetry, TypeOK
<1>2. RetriedHead(heads[j], t).heartbeat = Null
  <2>1. ClearLease(heads[j]) \in Head /\ ClearLease(heads[j]).heartbeat = Null
    BY <1>0, ClearLeaseRow DEF ClearLease, Head
  <2> QED BY <2>1 DEF RetriedHead, Head
<1> QED BY <1>0, <1>1, <1>2, RetriedHeadRow DEF RetryScan, ManualRetry

LEMMA SettleRows ==
  ASSUME TypeOK, NEW j \in Jobs, SettleDerived(j)
  PROVE  /\ \A k \in Jobs : /\ heads'[k].state = heads[k].state
                            /\ heads'[k].holder = heads[k].holder
                            /\ heads'[k].epoch = heads[k].epoch
                            /\ heads'[k].expires = heads[k].expires
                            /\ heads'[k].heartbeat = heads[k].heartbeat
         /\ UNCHANGED <<opLease, claim, clock>> /\ UNCHANGED workerVars
  BY DEF SettleDerived, UpdateDerivedResult, TypeOK, Head

LEMMA JobKeepsInv ==
  ASSUME WorkerInv, FenceInv', NEW j \in Jobs, JobStep(j)
  PROVE  WorkerInv'
<1>0. TypeOK BY WorkerInvParts DEF FenceInv
<1>1. ASSUME claim' = claim, exec' = exec, opLease' = opLease, stopping' = stopping,
             handler' = handler,
             spool' \in [Jobs -> Nat], wire' \in [Jobs -> SUBSET Nat],
             accepted' \in [Jobs -> SUBSET Nat], result' \in [Jobs -> Nat],
             retried' \in [Jobs -> Nat], asked' \in [Jobs -> BOOLEAN],
             sweep' \in Jobs \cup {NoJob},
             \A k \in Jobs : heads'[k].state = "succeeded" =>
               heads[k].state = "succeeded" /\ result'[k] = result[k],
             \A k \in Jobs : accepted[k] \subseteq accepted'[k]
      PROVE  WorkerInv'
  <2>1. SucceededWasStored' BY <1>1, SuccessesKept, WorkerInvParts
  <2>2. ASSUME NEW r \in Slots PROVE TaskOK(exec'[r], claim'[r], accepted')
    <3>1. TaskOK(exec[r], claim[r], accepted) BY WorkerInvParts
    <3>2. exec[r].outcome = "result" => exec[r].job \in Jobs BY <3>1 DEF TaskOK
    <3> QED BY <1>1, <3>1, <3>2 DEF TaskOK
  <2> QED BY <1>1, <2>1, <2>2, WorkerInvParts, WorkerInvAfter
<1>2. /\ spool \in [Jobs -> Nat] /\ wire \in [Jobs -> SUBSET Nat]
      /\ accepted \in [Jobs -> SUBSET Nat] /\ result \in [Jobs -> Nat]
      /\ retried \in [Jobs -> Nat] /\ asked \in [Jobs -> BOOLEAN] /\ sweep \in Jobs \cup {NoJob}
  BY WorkerInvParts
<1>3. ASSUME NEW t \in Readings, Submit(j, t) PROVE WorkerInv'
  BY <1>0, <1>1, <1>2, <1>3, SubmitRows DEF workerVars
<1>4. ASSUME NEW t \in Readings, RetryScan(j, t) PROVE WorkerInv'
  <2>1. /\ result' = [result EXCEPT ![j] = NoArtifact]
        /\ retried' = [retried EXCEPT ![j] = heads[j].epoch]
        /\ asked' = [asked EXCEPT ![j] = FALSE]
    BY <1>4 DEF RetryScan
  <2>2. heads[j].epoch \in Nat BY <1>0 DEF TypeOK, Head
  <2>3. /\ result' \in [Jobs -> Nat] /\ retried' \in [Jobs -> Nat] /\ asked' \in [Jobs -> BOOLEAN]
    BY <1>2, <2>1, <2>2 DEF NoArtifact
  <2>4. \A k \in Jobs : heads'[k].state = "succeeded" =>
          heads[k].state = "succeeded" /\ result'[k] = result[k]
    BY <1>0, <1>2, <1>4, <2>1, RetryRows
  <2>5. sweep' = sweep BY <1>4 DEF RetryScan
  <2> QED BY <1>0, <1>1, <1>2, <1>4, <2>3, <2>4, <2>5, RetryRows
<1>5. ASSUME SettleDerived(j) PROVE WorkerInv'
  BY <1>0, <1>1, <1>2, <1>5, SettleRows DEF workerVars
<1>6. ASSUME SelectStale(j) \/ RemoveStale(j) PROVE WorkerInv'
  <2>1. spool' \in [Jobs -> Nat] /\ sweep' \in Jobs \cup {NoJob} BY <1>2, <1>6 DEF SelectStale, RemoveStale, NoArtifact
  <2> QED BY <1>1, <1>2, <1>6, <2>1 DEF SelectStale, RemoveStale, vars
<1>7. ASSUME AnalyzerStores(j) PROVE WorkerInv'
  <2>1. PICK a \in wire[j] : /\ wire' = [wire EXCEPT ![j] = @ \ {a}]
                             /\ accepted' = [accepted EXCEPT ![j] = @ \cup {a}]
                             /\ UNCHANGED <<vars, exec, spool, result, handler, stopping, retried, asked, sweep>>
    BY <1>7 DEF AnalyzerStores
  <2>2. wire' \in [Jobs -> SUBSET Nat] /\ accepted' \in [Jobs -> SUBSET Nat] BY <1>2, <2>1
  <2>3. \A k \in Jobs : accepted[k] \subseteq accepted'[k] BY <1>2, <2>1
  <2> QED BY <1>1, <1>2, <2>1, <2>2, <2>3 DEF vars
<1> QED BY <1>3, <1>4, <1>5, <1>6, <1>7 DEF JobStep

LEMMA WorkerInvStep == WorkerInv /\ [WorkerNext]_allVars => WorkerInv'
<1> SUFFICES ASSUME WorkerInv, [WorkerNext]_allVars PROVE WorkerInv'
  OBVIOUS
<1>0. FenceInv' /\ WorkerTypeOK /\ TaskShape BY FenceStep, ComposedStep DEF WorkerInv
<1>1. ASSUME NEW s \in Slots, ExecuteStep(s) \/ ClaimStep(s) PROVE WorkerInv'
  <2>1. \/ \E e : Works(s, e)
        \/ \E t \in Readings : \/ \E j \in Jobs : Dispatch(s, j, t)
                               \/ DispatchNone(s, t) \/ Commit(s, t) \/ RaceCommit(s, t)
        \/ Cleanup(s) \/ Release(s)
    BY <1>0, <1>1, ExecuteMoves, ClaimMoves, AllWork
  <2> QED BY <1>0, <2>1, WorksKeepsInv, DispatchKeepsInv, DispatchNoneKeepsInv, CommitKeepsInv,
             EndingKeepsInv
<1>2. ASSUME heads' = heads, claim' = claim, opLease' = opLease, UNCHANGED workerVars
      PROVE  WorkerInv'
  <2>1. SucceededWasStored' BY <1>2, SuccessesKept, WorkerInvParts DEF workerVars
  <2> QED BY <1>0, <1>2, <2>1, WorkerInvParts, WorkerInvAfter DEF workerVars
<1>3. CASE Passes BY <1>2, <1>3 DEF Passes, Tick
<1>4. CASE UNCHANGED allVars BY <1>2, <1>4 DEF allVars, vars
<1> QED BY <1>0, <1>1, <1>3, <1>4, ProcessKeepsInv, JobKeepsInv DEF WorkerNext

(* The tasks, files, messages and requests are well formed, and a task     *)
(* works on the job its slot has claimed, whatever goes wrong.             *)
THEOREM WorkersTypeCorrect == WorkerSpec => []WorkerTypeOK
<1>1. WorkerInv => WorkerTypeOK BY DEF WorkerInv
<1> QED BY <1>1, WorkerInvInit, WorkerInvStep, PTL DEF WorkerSpec

(* A job is recorded as succeeded only with an envelope that Analyzer has  *)
(* stored: for every combination of faults, with expired leases, restarts, *)
(* lost answers and retries that overtake the clean-up.                    *)
THEOREM SuccessesAreStored == WorkerSpec => []SucceededWasStored
<1>1. WorkerInv => SucceededWasStored BY DEF WorkerInv
<1> QED BY <1>1, WorkerInvInit, WorkerInvStep, PTL DEF WorkerSpec

-----------------------------------------------------------------------------
(* What every kind of step does, for the invariants that follow.           *)

LEMMA StepCases ==
  ASSUME WorkerInv, [WorkerNext]_allVars
  PROVE  \/ \E s \in Slots :
              \/ \E e : Works(s, e)
              \/ \E t \in Readings : \/ \E j \in Jobs : Dispatch(s, j, t)
                                     \/ DispatchNone(s, t) \/ Commit(s, t) \/ RaceCommit(s, t)
              \/ Cleanup(s) \/ Release(s)
         \/ \E p \in Procs : ProcessStep(p)
         \/ \E j \in Jobs : JobStep(j)
         \/ Passes
         \/ UNCHANGED allVars
<1>0. WorkerTypeOK /\ TaskShape BY DEF WorkerInv
<1>1. ASSUME NEW s \in Slots, ExecuteStep(s) \/ ClaimStep(s)
      PROVE  \/ \E e : Works(s, e)
             \/ \E t \in Readings : \/ \E j \in Jobs : Dispatch(s, j, t)
                                    \/ DispatchNone(s, t) \/ Commit(s, t) \/ RaceCommit(s, t)
             \/ Cleanup(s) \/ Release(s)
  BY <1>0, <1>1, ExecuteMoves, ClaimMoves, AllWork
<1> QED BY <1>1 DEF WorkerNext

(* The rows a claim changes.                                               *)
LEMMA DispatchRows ==
  ASSUME WorkerInv, NEW s \in Slots, NEW j \in Jobs, NEW t \in Readings, Dispatch(s, j, t)
  PROVE  /\ heads[j].state \in Queued \cup Active
         /\ heads'[j].state = IF heads[j].state = "cancelling" THEN "cancelling" ELSE "running"
         /\ heads'[j].holder = s /\ heads'[j].epoch = heads[j].epoch + 1
         /\ heads'[j].expires = t + LeaseTTL /\ heads'[j].heartbeat = t
         /\ \A k \in Jobs \ {j} :
              \/ heads'[k] = heads[k]
              \/ /\ heads[k].state \in Queued /\ heads'[k].state = "failed"
                 /\ heads'[k].holder = NoSlot /\ heads'[k].epoch = heads[k].epoch
                 /\ heads'[k].expires = Null /\ heads'[k].heartbeat = Null
         /\ claim'[s].job = j /\ claim'[s].epoch = heads'[j].epoch /\ claim'[s] /= NoClaim
         /\ \A r \in Slots \ {s} : claim'[r] = claim[r] /\ exec'[r] = exec[r]
         /\ clock' = clock
<1>0. TypeOK /\ t \in Nat /\ exec \in [Slots -> Exec]
  BY ReadingsNat, WorkerInvParts DEF FenceInv, TypeOK
<1>1. /\ heads[j].state \in Queued \cup Active
      /\ heads'[j] = ClaimedHead(heads[j], s, t)
      /\ \A k \in Jobs \ {j} : \/ heads'[k] = heads[k]
                               \/ heads'[k] = FailedHead(heads[k]) /\ heads[k].state \in Queued
      /\ claim' = [claim EXCEPT ![s] = [job |-> j, epoch |-> heads'[j].epoch,
                                        attempt |-> heads'[j].attempt, cancel |-> heads'[j].cancel]]
      /\ clock' = clock
  BY <1>0, ClaimNextStep DEF Dispatch
<1>2. /\ ClaimedHead(heads[j], s, t).state =
           IF heads[j].state = "cancelling" THEN "cancelling" ELSE "running"
      /\ ClaimedHead(heads[j], s, t).holder = s
      /\ ClaimedHead(heads[j], s, t).epoch = heads[j].epoch + 1
      /\ ClaimedHead(heads[j], s, t).expires = t + LeaseTTL
      /\ ClaimedHead(heads[j], s, t).heartbeat = t
  BY <1>0 DEF ClaimedHead, TypeOK, Head
<1>3. \A k \in Jobs : /\ FailedHead(heads[k]).state = "failed"
                      /\ FailedHead(heads[k]).holder = NoSlot
                      /\ FailedHead(heads[k]).epoch = heads[k].epoch
                      /\ FailedHead(heads[k]).expires = Null
                      /\ FailedHead(heads[k]).heartbeat = Null
  <2> SUFFICES ASSUME NEW k \in Jobs
               PROVE  /\ FailedHead(heads[k]).state = "failed"
                      /\ FailedHead(heads[k]).holder = NoSlot
                      /\ FailedHead(heads[k]).epoch = heads[k].epoch
                      /\ FailedHead(heads[k]).expires = Null
                      /\ FailedHead(heads[k]).heartbeat = Null
    OBVIOUS
  <2>1. heads[k] \in Head BY <1>0 DEF TypeOK
  <2>2. ClearLease(heads[k]) \in Head /\ ClearLease(heads[k]).heartbeat = Null
    BY <2>1, ClearLeaseRow DEF ClearLease, Head
  <2>3. FailedHead(heads[k]).heartbeat = Null BY <2>2 DEF FailedHead, Head
  <2> QED BY <2>1, <2>3, FailedHeadRow
<1>4. claim'[s].job = j /\ claim'[s].epoch = heads'[j].epoch
  BY <1>0, <1>1 DEF TypeOK
<1>5. claim'[s] /= NoClaim BY <1>4, JobsAssumption DEF NoClaim, NoJob
<1>6. \A r \in Slots \ {s} : claim'[r] = claim[r] BY <1>0, <1>1 DEF TypeOK
<1>7. \A r \in Slots \ {s} : exec'[r] = exec[r] BY <1>0 DEF Dispatch
<1> QED BY <1>1, <1>2, <1>3, <1>4, <1>5, <1>6, <1>7

LEMMA NoneRows ==
  ASSUME TypeOK, NEW s \in Slots, NEW t \in Readings, DispatchNone(s, t)
  PROVE  /\ \A k \in Jobs :
              \/ heads'[k] = heads[k]
              \/ /\ heads[k].state \in Queued /\ heads'[k].state = "failed"
                 /\ heads'[k].holder = NoSlot /\ heads'[k].epoch = heads[k].epoch
                 /\ heads'[k].expires = Null /\ heads'[k].heartbeat = Null
         /\ claim' = claim /\ exec' = exec /\ clock' = clock
<1>0. t \in Nat BY ReadingsNat DEF TypeOK
<1>1. \A k \in Jobs : \/ heads'[k] = heads[k]
                      \/ heads'[k] = FailedHead(heads[k]) /\ heads[k].state \in Queued
  BY <1>0, FailExhaustedHeads DEF DispatchNone, ClaimNone
<1>2. ASSUME NEW k \in Jobs
      PROVE  /\ FailedHead(heads[k]).state = "failed"
             /\ FailedHead(heads[k]).holder = NoSlot
             /\ FailedHead(heads[k]).epoch = heads[k].epoch
             /\ FailedHead(heads[k]).expires = Null
             /\ FailedHead(heads[k]).heartbeat = Null
  <2>1. heads[k] \in Head BY DEF TypeOK
  <2>2. ClearLease(heads[k]) \in Head /\ ClearLease(heads[k]).heartbeat = Null
    BY <2>1, ClearLeaseRow DEF ClearLease, Head
  <2>3. FailedHead(heads[k]).heartbeat = Null BY <2>2 DEF FailedHead, Head
  <2> QED BY <2>1, <2>3, FailedHeadRow
<1> QED BY <1>1, <1>2 DEF DispatchNone, ClaimNone

(* The steps once more, with the pieces that touch the files and the wire. *)
LEMMA StepPieces ==
  ASSUME WorkerInv, [WorkerNext]_allVars
  PROVE  \/ \E s \in Slots :
              \/ Quiet(s) \/ Beats(s) \/ Save(s) \/ Forward(s) \/ Rejected(s)
              \/ \E t \in Readings : \/ \E j \in Jobs : Dispatch(s, j, t)
                                     \/ DispatchNone(s, t) \/ Commit(s, t) \/ RaceCommit(s, t)
              \/ Cleanup(s) \/ Release(s)
         \/ \E p \in Procs : ProcessStep(p)
         \/ \E j \in Jobs : JobStep(j)
         \/ Passes
         \/ UNCHANGED allVars
<1>0. WorkerTypeOK /\ TaskShape BY DEF WorkerInv
<1>1. ASSUME NEW s \in Slots, ExecuteStep(s) \/ ClaimStep(s)
      PROVE  \/ Quiet(s) \/ Beats(s) \/ Save(s) \/ Forward(s) \/ Rejected(s)
             \/ \E t \in Readings : \/ \E j \in Jobs : Dispatch(s, j, t)
                                    \/ DispatchNone(s, t) \/ Commit(s, t) \/ RaceCommit(s, t)
             \/ Cleanup(s) \/ Release(s)
  BY <1>0, <1>1, ExecuteMoves, ClaimMoves
<1> QED BY <1>1 DEF WorkerNext

(* What becomes of a row: it is reclaimed, it lives on, or it is created.  *)
RowKept(k) ==
  \/ heads'[k].state = "evicted"
  \/ /\ heads[k].state /= "evicted" /\ heads'[k].epoch >= heads[k].epoch
     /\ heads'[k].state \in Queued \cup Active => heads[k].state \in Queued \cup Active
     /\ heads'[k].state = "absent" =>
          heads[k].state = "absent" /\ heads'[k].epoch = heads[k].epoch
  \/ heads[k].state = "absent" /\ heads'[k].state = "pending" /\ heads'[k].epoch = 0

(* Only a manual retry brings a job back.                                  *)
LEMMA RowStep ==
  ASSUME WorkerInv, [WorkerNext]_allVars, NEW k \in Jobs
  PROVE  RowKept(k) \/ \E t \in Readings : RetryScan(k, t)
<1>0. /\ TypeOK /\ heads[k] \in Head /\ heads[k].epoch \in Nat
  BY DEF WorkerInv, FenceInv, TypeOK, Head
<1>1. /\ "evicted" \notin Queued \cup Active \cup Terminal
      /\ "absent" \notin Queued \cup Active \cup Terminal
      /\ Terminal \cap (Queued \cup Active) = {}
      /\ "failed" \in Terminal /\ "cancelled" \in Terminal
  BY DEF Queued, Active, Terminal
<1>2. ASSUME heads'[k].state = heads[k].state, heads'[k].epoch = heads[k].epoch PROVE RowKept(k)
  BY <1>0, <1>2 DEF RowKept
<1>3. ASSUME heads[k].state \in Queued \cup Active, heads'[k].epoch >= heads[k].epoch,
             heads'[k].state \in Queued \cup Active \cup Terminal
      PROVE  RowKept(k)
  BY <1>1, <1>3 DEF RowKept
<1>4. ASSUME NEW s \in Slots, NEW e, Works(s, e) PROVE RowKept(k)
  BY <1>2, <1>4, WorksStore
<1>5. ASSUME NEW s \in Slots, NEW j \in Jobs, NEW t \in Readings, Dispatch(s, j, t)
      PROVE  RowKept(k)
  <2>1. CASE k = j
    <3>1. heads'[k].state \in Active BY <1>5, <2>1, DispatchRows DEF Active
    <3> QED BY <1>0, <1>3, <1>5, <2>1, <3>1, DispatchRows
  <2>2. CASE k /= j BY <1>0, <1>1, <1>2, <1>3, <1>5, <2>2, DispatchRows
  <2> QED BY <2>1, <2>2
<1>6. ASSUME NEW s \in Slots, NEW t \in Readings, DispatchNone(s, t) PROVE RowKept(k)
  BY <1>0, <1>1, <1>2, <1>3, <1>6, NoneRows
<1>7. ASSUME NEW s \in Slots, NEW t \in Readings, Commit(s, t) \/ RaceCommit(s, t)
      PROVE  RowKept(k)
  <2>1. PICK e \in Exec :
          LET j == exec[s].job
          IN  /\ heads'[j].state = "retrying" \/ heads'[j].state \in Terminal
              /\ heads[j].state \in Active /\ heads'[j].epoch = heads[j].epoch
              /\ \A i \in Jobs \ {j} : heads'[i] = heads[i]
    BY <1>7, CommitStep
  <2>2. CASE k = exec[s].job BY <1>0, <1>3, <2>1, <2>2 DEF Queued
  <2>3. CASE k /= exec[s].job BY <1>2, <2>1, <2>3
  <2> QED BY <2>2, <2>3
<1>8. ASSUME NEW s \in Slots, Cleanup(s) \/ Release(s) PROVE RowKept(k)
  BY <1>2, <1>8 DEF Cleanup, Release, Abandon, vars
<1>9. ASSUME NEW p \in Procs, ProcessStep(p) PROVE RowKept(k)
  <2>1. ASSUME NEW j \in Jobs, CancelScan(p, j) PROVE RowKept(k)
    <3>1. CASE k = j
      <4>1. /\ heads'[k].state \in {"cancelled", "cancelling"} /\ heads'[k].epoch = heads[k].epoch
            /\ heads[k].state \in Queued \cup Active
        BY <1>0, <2>1, <3>1, CancelRow DEF CancelScan, Active
      <4> QED BY <1>0, <1>3, <4>1 DEF Active, Terminal
    <3>2. CASE k /= j BY <1>0, <1>2, <2>1, <3>2, CancelRow DEF CancelScan
    <3> QED BY <3>1, <3>2
  <2>2. ASSUME NEW j \in Jobs, CancelAgain(p, j) PROVE heads' = heads
    BY <2>2 DEF CancelAgain, vars
  <2>3. ASSUME Stop(p) \/ Restart(p) \/ DeleteCancelled(p) \/ NotifyCancel(p) PROVE heads' = heads
    BY <2>3 DEF Stop, Restart, DeleteCancelled, NotifyCancel, vars
  <2> QED BY <1>2, <1>9, <2>1, <2>2, <2>3 DEF ProcessStep
<1>10. ASSUME NEW j \in Jobs, JobStep(j) PROVE RowKept(k) \/ \E t \in Readings : RetryScan(k, t)
  <2>1. ASSUME NEW t \in Readings, Submit(j, t) PROVE RowKept(k)
    <3>1. \/ heads'[k] = heads[k] \/ heads'[k].state = "evicted"
          \/ heads'[k].state = "pending" /\ heads[k].state = "absent" /\ heads'[k].epoch = 0
      BY <1>0, <2>1, SubmitRows
    <3> QED BY <1>2, <3>1 DEF RowKept
  <2>2. ASSUME NEW t \in Readings, RetryScan(j, t), j /= k PROVE RowKept(k)
    BY <1>0, <1>2, <2>2, RetryRows
  <2>3. ASSUME SettleDerived(j) PROVE RowKept(k) BY <1>0, <1>2, <2>3, SettleRows
  <2>4. ASSUME SelectStale(j) \/ RemoveStale(j) \/ AnalyzerStores(j) PROVE RowKept(k)
    BY <1>2, <2>4 DEF SelectStale, RemoveStale, AnalyzerStores, vars
  <2> QED BY <1>10, <2>1, <2>2, <2>3, <2>4 DEF JobStep
<1>11. ASSUME Passes \/ UNCHANGED allVars PROVE RowKept(k)
  BY <1>2, <1>11 DEF Passes, Tick, allVars, vars
<1> QED BY <1>4, <1>5, <1>6, <1>7, <1>8, <1>9, <1>10, <1>11, StepCases

-----------------------------------------------------------------------------
(* Deletions and cancellations, unless retries overtake the clean-up.      *)

NoHaste == "haste" \notin Faults

(* A job that is over stays over until it is retried.                      *)
LEMMA OverStays ==
  ASSUME WorkerInv, [WorkerNext]_allVars, NEW k \in Jobs, heads[k].state \in Over
  PROVE  \/ heads'[k].state = heads[k].state
         \/ heads'[k].state = "evicted"
         \/ \E t \in Readings : RetryScan(k, t)
<1>0. TypeOK BY DEF WorkerInv, FenceInv
<1>1. heads[k].state \notin Queued \cup Active /\ heads[k].state /= "absent"
  BY DEF Over, Terminal, Queued, Active
<1>2. ASSUME NEW s \in Slots, NEW e, Works(s, e) PROVE heads'[k].state = heads[k].state
  BY <1>2, WorksStore
<1>3. ASSUME NEW s \in Slots, NEW j \in Jobs, NEW t \in Readings, Dispatch(s, j, t)
      PROVE  heads'[k].state = heads[k].state
  BY <1>1, <1>3, DispatchRows
<1>4. ASSUME NEW s \in Slots, NEW t \in Readings, DispatchNone(s, t)
      PROVE  heads'[k].state = heads[k].state
  BY <1>0, <1>1, <1>4, NoneRows
<1>5. ASSUME NEW s \in Slots, NEW t \in Readings, Commit(s, t) \/ RaceCommit(s, t)
      PROVE  heads'[k].state = heads[k].state
  <2>1. /\ heads[exec[s].job].state \in Active
        /\ \A i \in Jobs \ {exec[s].job} : heads'[i] = heads[i]
    BY <1>5, CommitStep
  <2> QED BY <1>1, <2>1
<1>6. ASSUME NEW s \in Slots, Cleanup(s) \/ Release(s)
      PROVE  heads'[k].state = heads[k].state
  BY <1>6 DEF Cleanup, Release, Abandon, vars
<1>7. ASSUME NEW p \in Procs, ProcessStep(p)
      PROVE  heads'[k].state = heads[k].state
  <2>1. ASSUME NEW j \in Jobs, CancelScan(p, j) PROVE heads'[k].state = heads[k].state
    BY <1>0, <1>1, <2>1, CancelRow DEF CancelScan, Active
  <2>2. ASSUME NEW j \in Jobs, CancelAgain(p, j) PROVE heads'[k].state = heads[k].state
    BY <2>2 DEF CancelAgain, vars
  <2>3. CASE Stop(p) \/ Restart(p) \/ DeleteCancelled(p) \/ NotifyCancel(p)
    BY <2>3 DEF Stop, Restart, DeleteCancelled, NotifyCancel, vars
  <2> QED BY <1>7, <2>1, <2>2, <2>3 DEF ProcessStep
<1>8. ASSUME NEW j \in Jobs, JobStep(j)
      PROVE  \/ heads'[k].state = heads[k].state
             \/ heads'[k].state = "evicted"
             \/ \E t \in Readings : RetryScan(k, t)
  <2>1. ASSUME NEW t \in Readings, Submit(j, t)
        PROVE  heads'[k].state = heads[k].state \/ heads'[k].state = "evicted"
    BY <1>0, <1>1, <2>1, SubmitRows
  <2>2. ASSUME NEW t \in Readings, RetryScan(j, t), k /= j
        PROVE  heads'[k].state = heads[k].state
    BY <1>0, <2>2, RetryRows
  <2>3. ASSUME SettleDerived(j) PROVE heads'[k].state = heads[k].state
    BY <1>0, <2>3, SettleRows
  <2>4. CASE SelectStale(j) \/ RemoveStale(j) \/ AnalyzerStores(j)
    BY <2>4 DEF SelectStale, RemoveStale, AnalyzerStores, vars
  <2> QED BY <1>8, <2>1, <2>2, <2>3, <2>4 DEF JobStep
<1>9. CASE Passes \/ UNCHANGED allVars
  BY <1>9 DEF Passes, Tick, allVars, vars
<1> QED BY <1>2, <1>3, <1>4, <1>5, <1>6, <1>7, <1>8, <1>9, StepCases

(* A task that cleans up did so before, or has just ended its job.         *)
LEMMA CleanupStep ==
  ASSUME WorkerInv, [WorkerNext]_allVars, NEW r \in Slots, exec'[r].phase = "cleanup"
  PROVE  \/ exec[r].phase = "cleanup" /\ exec'[r].job = exec[r].job
         \/ exec'[r].job \in Jobs /\ heads'[exec'[r].job].state \in Terminal
<1>0. TypeOK /\ exec \in [Slots -> Exec] BY WorkerInvParts DEF FenceInv
<1>1. CASE exec'[r] = exec[r] BY <1>1
<1>2. ASSUME NEW s \in Slots, NEW e, Works(s, e)
      PROVE  exec'[r] = exec[r]
  <2>1. exec' = [exec EXCEPT ![s] = e] /\ e.phase /= "cleanup"
    BY <1>2 DEF Works, Moves, Advance, Claimed
  <2> QED BY <1>0, <2>1
<1>3. ASSUME NEW s \in Slots, NEW j \in Jobs, NEW t \in Readings, Dispatch(s, j, t)
      PROVE  exec'[r] = exec[r]
  <2>1. exec'[s].phase = "load" BY <1>0, <1>3 DEF Dispatch, IdleExec
  <2> QED BY <1>3, <2>1, DispatchRows
<1>4. ASSUME NEW s \in Slots, NEW t \in Readings, DispatchNone(s, t)
      PROVE  exec'[r] = exec[r]
  BY <1>4 DEF DispatchNone
<1>5. ASSUME NEW s \in Slots, NEW t \in Readings, Commit(s, t) \/ RaceCommit(s, t)
      PROVE  \/ exec'[r] = exec[r]
             \/ exec'[r].job \in Jobs /\ heads'[exec'[r].job].state \in Terminal
  <2>1. PICK e \in Exec :
          /\ exec' = [exec EXCEPT ![s] = e]
          /\ \/ e = IdleExec
             \/ e.job = exec[s].job /\ heads'[exec[s].job].state \in Terminal
          /\ exec[s].job \in Jobs
    BY <1>5, CommitStep
  <2>2. IdleExec.phase /= "cleanup" BY DEF IdleExec
  <2> QED BY <1>0, <2>1, <2>2
<1>6. ASSUME NEW s \in Slots, Cleanup(s) \/ Release(s)
      PROVE  exec'[r] = exec[r]
  <2>1. exec' = [exec EXCEPT ![s] = IdleExec] BY <1>6 DEF Cleanup, Release
  <2>2. IdleExec.phase /= "cleanup" BY DEF IdleExec
  <2> QED BY <1>0, <2>1, <2>2
<1>7. ASSUME NEW p \in Procs, ProcessStep(p)
      PROVE  exec[r].phase = "cleanup" /\ exec'[r].job = exec[r].job
  <2>1. IdleExec.phase /= "cleanup" BY DEF IdleExec
  <2> QED BY <1>7, <2>1, ProcessTasks
<1>8. ASSUME NEW j \in Jobs, JobStep(j) PROVE exec'[r] = exec[r]
  BY <1>8 DEF JobStep, Submit, RetryScan, SettleDerived, SelectStale, RemoveStale, AnalyzerStores, workerVars
<1>9. CASE Passes \/ UNCHANGED allVars
  BY <1>1, <1>9 DEF Passes, workerVars, allVars
<1> QED BY <1>1, <1>2, <1>3, <1>4, <1>5, <1>6, <1>7, <1>8, <1>9, StepCases

(* A cancel request that is being served was so before, or begins now.     *)
LEMMA HandlerStep ==
  ASSUME WorkerInv, [WorkerNext]_allVars, NEW q \in Procs, handler'[q].stage /= "none"
  PROVE  \/ /\ handler[q].stage /= "none" /\ handler'[q].job = handler[q].job
            /\ handler'[q].stage = "delete" => handler[q].stage = "delete"
         \/ \E j \in Jobs :
              /\ CancelScan(q, j) \/ CancelAgain(q, j)
              /\ handler'[q].job = j
              /\ handler'[q].stage = "delete" => heads'[j].state = "cancelled"
<1>0. handler \in [Procs -> Handlers] BY WorkerInvParts
<1>1. CASE handler' = handler BY <1>1
<1>2. ASSUME NEW s \in Slots, NEW e, Works(s, e) PROVE handler' = handler
  BY <1>2 DEF Works
<1>3. ASSUME NEW s \in Slots, NEW t \in Readings,
             \/ \E j \in Jobs : Dispatch(s, j, t)
             \/ DispatchNone(s, t) \/ Commit(s, t) \/ RaceCommit(s, t)
      PROVE  handler' = handler
  BY <1>3 DEF Dispatch, DispatchNone, Commit, RaceCommit, OnlyExec
<1>4. ASSUME NEW s \in Slots, Cleanup(s) \/ Release(s) PROVE handler' = handler
  BY <1>4 DEF Cleanup, Release, OnlyExec
<1>5. ASSUME NEW p \in Procs, ProcessStep(p)
      PROVE  \/ /\ handler[q].stage /= "none" /\ handler'[q].job = handler[q].job
                /\ handler'[q].stage = "delete" => handler[q].stage = "delete"
             \/ \E j \in Jobs :
                  /\ CancelScan(q, j) \/ CancelAgain(q, j)
                  /\ handler'[q].job = j
                  /\ handler'[q].stage = "delete" => heads'[j].state = "cancelled"
  <2>1. CASE Stop(p) BY <1>1, <2>1 DEF Stop
  <2>2. CASE Restart(p) \/ NotifyCancel(p)
    <3>1. handler' = [handler EXCEPT ![p] = NoHandler] BY <2>2 DEF Restart, NotifyCancel
    <3>2. NoHandler.stage = "none" BY DEF NoHandler
    <3> QED BY <1>0, <3>1, <3>2
  <2>3. ASSUME NEW j \in Jobs, NEW st, handler' = [handler EXCEPT ![p] = [stage |-> AfterCancel(st), job |-> j]],
               st = "cancelled" => heads'[j].state = "cancelled",
               CancelScan(p, j) \/ CancelAgain(p, j)
        PROVE  \/ /\ handler[q].stage /= "none" /\ handler'[q].job = handler[q].job
                  /\ handler'[q].stage = "delete" => handler[q].stage = "delete"
               \/ /\ CancelScan(q, j) \/ CancelAgain(q, j)
                  /\ handler'[q].job = j
                  /\ handler'[q].stage = "delete" => heads'[j].state = "cancelled"
    <3>1. CASE q /= p BY <1>0, <2>3, <3>1
    <3>2. CASE q = p
      <4>1. handler'[q] = [stage |-> AfterCancel(st), job |-> j] BY <1>0, <2>3, <3>2
      <4>2. handler'[q].job = j /\ handler'[q].stage = AfterCancel(st) BY <4>1
      <4> QED BY <2>3, <3>2, <4>2, HandlerFacts
    <3> QED BY <3>1, <3>2
  <2>4. ASSUME NEW j \in Jobs, CancelScan(p, j)
        PROVE  handler' = [handler EXCEPT ![p] = [stage |-> AfterCancel(heads'[j].state), job |-> j]]
    BY <2>4 DEF CancelScan
  <2>5. ASSUME NEW j \in Jobs, CancelAgain(p, j)
        PROVE  /\ handler' = [handler EXCEPT ![p] = [stage |-> AfterCancel(heads[j].state), job |-> j]]
               /\ heads' = heads
    BY <2>5 DEF CancelAgain, vars
  <2>6. CASE DeleteCancelled(p)
    BY <1>0, <2>6 DEF DeleteCancelled, Handlers
  <2> QED BY <1>5, <2>1, <2>2, <2>3, <2>4, <2>5, <2>6 DEF ProcessStep
<1>6. ASSUME NEW j \in Jobs, JobStep(j) PROVE handler' = handler
  BY <1>6 DEF JobStep, Submit, RetryScan, SettleDerived, SelectStale, RemoveStale, AnalyzerStores, workerVars
<1>7. CASE Passes \/ UNCHANGED allVars
  BY <1>1, <1>7 DEF Passes, workerVars, allVars
<1> QED BY <1>1, <1>2, <1>3, <1>4, <1>5, <1>6, <1>7, StepCases

(* A task works on a job that it had before or has just claimed.           *)
LEMMA TaskOfJob ==
  ASSUME WorkerInv, [WorkerNext]_allVars, NEW r \in Slots, exec'[r].phase /= "idle"
  PROVE  \/ exec[r].phase /= "idle" /\ exec'[r].job = exec[r].job
         \/ heads'[exec'[r].job].state \in Active
<1>0. TypeOK /\ exec \in [Slots -> Exec] BY WorkerInvParts DEF FenceInv
<1>1. CASE exec'[r] = exec[r] BY <1>1
<1>2. ASSUME NEW s \in Slots, NEW e, Works(s, e)
      PROVE  exec'[r] = exec[r] \/ (exec[r].phase /= "idle" /\ exec'[r].job = exec[r].job)
  <2>1. /\ exec' = [exec EXCEPT ![s] = e]
        /\ exec[s].phase /= "idle" /\ e.job = exec[s].job
    BY <1>2 DEF Works, Moves, Advance, Claimed, Working, Completing
  <2> QED BY <1>0, <2>1
<1>3. ASSUME NEW s \in Slots, NEW j \in Jobs, NEW t \in Readings, Dispatch(s, j, t)
      PROVE  exec'[r] = exec[r] \/ heads'[exec'[r].job].state \in Active
  <2>1. heads'[j].state \in Active BY <1>3, DispatchRows DEF Active
  <2>2. exec'[s].job = j BY <1>0, <1>3 DEF Dispatch, IdleExec
  <2> QED BY <1>3, <2>1, <2>2, DispatchRows
<1>4. ASSUME NEW s \in Slots, NEW t \in Readings, DispatchNone(s, t)
      PROVE  exec'[r] = exec[r]
  BY <1>4 DEF DispatchNone
<1>5. ASSUME NEW s \in Slots, NEW t \in Readings, Commit(s, t) \/ RaceCommit(s, t)
      PROVE  exec'[r] = exec[r] \/ (exec[r].phase /= "idle" /\ exec'[r].job = exec[r].job)
  <2>1. PICK e \in Exec :
          /\ exec' = [exec EXCEPT ![s] = e]
          /\ e = IdleExec \/ e.job = exec[s].job
    BY <1>5, CommitStep
  <2>2. exec[s].phase /= "idle" BY <1>5 DEF Commit, RaceCommit
  <2>3. IdleExec.phase = "idle" BY DEF IdleExec
  <2> QED BY <1>0, <2>1, <2>2, <2>3
<1>6. ASSUME NEW s \in Slots, Cleanup(s) \/ Release(s)
      PROVE  exec'[r] = exec[r]
  <2>1. exec' = [exec EXCEPT ![s] = IdleExec] BY <1>6 DEF Cleanup, Release
  <2>2. IdleExec.phase = "idle" BY DEF IdleExec
  <2> QED BY <1>0, <2>1, <2>2
<1>7. ASSUME NEW p \in Procs, ProcessStep(p)
      PROVE  exec[r].phase /= "idle" /\ exec'[r].job = exec[r].job
  <2>1. IdleExec.phase = "idle" BY DEF IdleExec
  <2> QED BY <1>7, <2>1, ProcessTasks
<1>8. ASSUME NEW j \in Jobs, JobStep(j) PROVE exec'[r] = exec[r]
  BY <1>8 DEF JobStep, Submit, RetryScan, SettleDerived, SelectStale, RemoveStale, AnalyzerStores, workerVars
<1>9. CASE Passes \/ UNCHANGED allVars
  BY <1>1, <1>9 DEF Passes, workerVars, allVars
<1> QED BY <1>1, <1>2, <1>3, <1>4, <1>5, <1>6, <1>7, <1>8, <1>9, StepCases

(* A file is left alone, removed, or written by a task of its job.         *)
LEMMA FileMoves ==
  ASSUME WorkerInv, [WorkerNext]_allVars, NEW k \in Jobs
  PROVE  \/ spool'[k] = spool[k] \/ spool'[k] = NoArtifact
         \/ \E s \in Slots : exec[s].phase /= "idle" /\ exec[s].job = k
<1>0. spool \in [Jobs -> Nat] BY WorkerInvParts
<1>1. ASSUME NEW s \in Slots, Save(s)
      PROVE  spool'[k] = spool[k] \/ (exec[s].phase /= "idle" /\ exec[s].job = k)
  BY <1>0, <1>1 DEF Save
<1>2. ASSUME NEW s \in Slots, Cleanup(s) PROVE spool'[k] = spool[k] \/ spool'[k] = NoArtifact
  BY <1>0, <1>2 DEF Cleanup
<1>3. ASSUME NEW s \in Slots, Quiet(s) \/ Beats(s) \/ Forward(s) \/ Rejected(s) \/ Release(s)
      PROVE  spool' = spool
  BY <1>3 DEF Quiet, Beats, Forward, Rejected, Release, OnlyExec
<1>4. ASSUME NEW s \in Slots, NEW t \in Readings,
             \/ \E j \in Jobs : Dispatch(s, j, t)
             \/ DispatchNone(s, t) \/ Commit(s, t) \/ RaceCommit(s, t)
      PROVE  spool' = spool
  BY <1>4 DEF Dispatch, DispatchNone, Commit, RaceCommit, OnlyExec
<1>5. ASSUME NEW p \in Procs, ProcessStep(p)
      PROVE  spool'[k] = spool[k] \/ spool'[k] = NoArtifact
  BY <1>0, <1>5 DEF ProcessStep, Stop, Restart, CancelScan, CancelAgain, DeleteCancelled, NotifyCancel
<1>6. ASSUME NEW j \in Jobs, JobStep(j) PROVE spool'[k] = spool[k] \/ spool'[k] = NoArtifact
  BY <1>0, <1>6
  DEF JobStep, Submit, RetryScan, SettleDerived, SelectStale, RemoveStale, AnalyzerStores, workerVars
<1>7. ASSUME Passes \/ UNCHANGED allVars PROVE spool' = spool
  BY <1>7 DEF Passes, workerVars, allVars
<1> QED BY <1>1, <1>2, <1>3, <1>4, <1>5, <1>6, <1>7, StepPieces

(* A job that was submitted is never unknown again.                        *)
LEMMA StaysKnown ==
  ASSUME WorkerInv, [WorkerNext]_allVars, NEW k \in Jobs, heads[k].state /= "absent"
  PROVE  heads'[k].state /= "absent"
<1>0. TypeOK BY DEF WorkerInv, FenceInv
<1>1. CASE RowKept(k) BY <1>1 DEF RowKept
<1>2. ASSUME NEW t \in Readings, RetryScan(k, t) PROVE heads'[k].state /= "absent"
  BY <1>0, <1>2, RetryRows
<1> QED BY <1>1, <1>2, RowStep

LEMMA FilesStep ==
  ASSUME WorkerInv, FilesOfJobs, [WorkerNext]_allVars
  PROVE  FilesOfJobs'
<1>0. \A r \in Slots : TaskOK(exec[r], claim[r], accepted) BY WorkerInvParts
<1>1. ASSUME NEW r \in Slots, exec'[r].phase /= "idle"
      PROVE  heads'[exec'[r].job].state /= "absent"
  <2>1. CASE exec[r].phase /= "idle" /\ exec'[r].job = exec[r].job
    <3>1. exec[r].job \in Jobs BY <1>0, <2>1 DEF TaskOK
    <3> QED BY <2>1, <3>1, StaysKnown DEF FilesOfJobs
  <2> QED BY <1>1, <2>1, TaskOfJob DEF Active
<1>2. ASSUME NEW k \in Jobs, spool'[k] /= NoArtifact PROVE heads'[k].state /= "absent"
  <2>1. heads[k].state /= "absent" BY <1>2, FileMoves DEF FilesOfJobs
  <2> QED BY <2>1, StaysKnown
<1> QED BY <1>1, <1>2 DEF FilesOfJobs

(* The reconciler goes on with the file it chose, which nobody else        *)
(* touches, or has just found one stale.                                   *)
LEMMA SweepStep ==
  ASSUME WorkerInv, [WorkerNext]_allVars, sweep' \in Jobs
  PROVE  \/ sweep' = sweep /\ (spool[sweep] /= NoArtifact => spool'[sweep] /= NoArtifact)
         \/ SelectStale(sweep')
<1>0. /\ spool \in [Jobs -> Nat] /\ WorkerTypeOK /\ TaskShape /\ NoJob \notin Jobs
  BY WorkerInvParts, JobsAssumption DEF WorkerInv, NoJob
<1>1. CASE sweep' = sweep /\ spool' = spool BY <1>1
<1>2. ASSUME NEW s \in Slots, Save(s) \/ Cleanup(s) PROVE FALSE
  BY <1>0, <1>2 DEF Save, Cleanup, SpoolFree
<1>3. ASSUME NEW s \in Slots, Quiet(s) \/ Beats(s) \/ Forward(s) \/ Rejected(s) \/ Release(s)
      PROVE  sweep' = sweep /\ spool' = spool
  BY <1>3 DEF Quiet, Beats, Forward, Rejected, Release, OnlyExec
<1>4. ASSUME NEW s \in Slots, NEW t \in Readings,
             \/ \E j \in Jobs : Dispatch(s, j, t)
             \/ DispatchNone(s, t) \/ Commit(s, t) \/ RaceCommit(s, t)
      PROVE  sweep' = sweep /\ spool' = spool
  BY <1>4 DEF Dispatch, DispatchNone, Commit, RaceCommit, OnlyExec
<1>5. ASSUME NEW p \in Procs, ProcessStep(p) PROVE sweep' = sweep /\ spool' = spool
  BY <1>0, <1>5 DEF ProcessStep, Stop, Restart, CancelScan, CancelAgain, DeleteCancelled,
                    NotifyCancel, SpoolFree
<1>6. ASSUME NEW j \in Jobs, JobStep(j)
      PROVE  (sweep' = sweep /\ spool' = spool) \/ (SelectStale(j) /\ sweep' = j)
  BY <1>0, <1>6
  DEF JobStep, Submit, RetryScan, SettleDerived, SelectStale, RemoveStale, AnalyzerStores, workerVars
<1>7. ASSUME Passes \/ UNCHANGED allVars PROVE sweep' = sweep /\ spool' = spool
  BY <1>7 DEF Passes, workerVars, allVars
<1> QED BY <1>1, <1>2, <1>3, <1>4, <1>5, <1>6, <1>7, StepPieces

LEMMA DeletionsInit == WorkerInit => DeletionsInTime
<1> SUFFICES ASSUME WorkerInit PROVE DeletionsInTime OBVIOUS
<1>1. FilesOfJobs BY DEF WorkerInit, FilesOfJobs, IdleExec
<1>2. sweep \notin Jobs BY JobsAssumption DEF WorkerInit, NoJob
<1> QED BY <1>1, <1>2 DEF WorkerInit, DeletionsInTime, IdleExec, NoHandler

LEMMA DeletionsStep ==
  ASSUME NoHaste, WorkerInv, DeletionsInTime, [WorkerNext]_allVars
  PROVE  DeletionsInTime'
<1>0. /\ exec \in [Slots -> Exec] /\ \A r \in Slots : TaskOK(exec[r], claim[r], accepted)
      /\ \A p \in Procs : HandlerOK(handler[p])
  BY WorkerInvParts
<1>1. ASSUME NEW r \in Slots, exec'[r].phase = "cleanup"
      PROVE  heads'[exec'[r].job].state \in Over
  <2>1. CASE exec[r].phase = "cleanup" /\ exec'[r].job = exec[r].job
    <3> DEFINE k == exec[r].job
    <3>1. k \in Jobs BY <1>0, <2>1 DEF TaskOK
    <3>2. heads[k].state \in Over BY <2>1 DEF DeletionsInTime
    <3>3. \A t \in Readings : ~ RetryScan(k, t)
      BY <2>1 DEF RetryScan, NoHaste, CleanedUp
    <3> QED BY <2>1, <3>1, <3>2, <3>3, OverStays DEF Over
  <2> QED BY <1>1, <2>1, CleanupStep DEF Over
<1>2. ASSUME NEW q \in Procs, handler'[q].stage = "delete"
      PROVE  heads'[handler'[q].job].state \in {"cancelled", "evicted"}
  <2>1. CASE handler[q].stage = "delete" /\ handler'[q].job = handler[q].job
    <3> DEFINE k == handler[q].job
    <3>1. k \in Jobs BY <1>0, <2>1 DEF HandlerOK
    <3>2. heads[k].state \in {"cancelled", "evicted"} BY <2>1 DEF DeletionsInTime
    <3>3. \A t \in Readings : ~ RetryScan(k, t)
      BY DEF RetryScan, NoHaste, CleanedUp
    <3>4. heads[k].state \in Over BY <3>2 DEF Over, Terminal
    <3> QED BY <2>1, <3>1, <3>2, <3>3, <3>4, OverStays
  <2> QED BY <1>2, <2>1, HandlerStep
<1>3. ASSUME sweep' \in Jobs
      PROVE  heads'[sweep'].state \in Over /\ spool'[sweep'] /= NoArtifact
  <2>1. CASE sweep' = sweep /\ (spool[sweep] /= NoArtifact => spool'[sweep] /= NoArtifact)
    <3>1. sweep \in Jobs /\ heads[sweep].state \in Over /\ spool[sweep] /= NoArtifact
      BY <1>3, <2>1 DEF DeletionsInTime
    <3>2. \A t \in Readings : ~ RetryScan(sweep, t)
      BY <3>1 DEF RetryScan, NoHaste, CleanedUp
    <3> QED BY <2>1, <3>1, <3>2, OverStays DEF Over
  <2>2. CASE SelectStale(sweep')
    <3>1. /\ spool[sweep'] /= NoArtifact /\ ~ RetainsArtifact(sweep')
          /\ heads' = heads /\ spool' = spool
      BY <2>2 DEF SelectStale, vars
    <3>2. heads[sweep'].state /= "absent" BY <1>3, <3>1 DEF DeletionsInTime, FilesOfJobs
    <3>3. heads[sweep'] \in Head BY <1>3 DEF WorkerInv, FenceInv, TypeOK
    <3>4. heads[sweep'].state \in Over
      BY <3>1, <3>2, <3>3 DEF RetainsArtifact, Head, Missing, Over
    <3> QED BY <3>1, <3>4
  <2> QED BY <1>3, <2>1, <2>2, SweepStep
<1>4. FilesOfJobs' BY FilesStep DEF DeletionsInTime
<1> QED BY <1>1, <1>2, <1>3, <1>4 DEF DeletionsInTime

(* Unless a retry overtakes the clean-up, a spooled artifact is not        *)
(* removed while its job may still be executed: with stalled workers,      *)
(* restarts, lost leases and cancellations, although nothing checks the    *)
(* lease when a file is deleted.                                           *)
THEOREM ArtifactsAreKept == NoHaste /\ WorkerSpec => ArtifactKept
<1> SUFFICES ASSUME NoHaste PROVE WorkerSpec => ArtifactKept
  OBVIOUS
<1>1. WorkerInv /\ DeletionsInTime /\ [WorkerNext]_allVars =>
        [\A j \in Jobs :
           spool[j] /= NoArtifact /\ heads[j].state \in Queued \cup Active
             => spool'[j] /= NoArtifact]_allVars
  <2> SUFFICES ASSUME WorkerInv, DeletionsInTime, [WorkerNext]_allVars, NEW j \in Jobs,
                      spool[j] /= NoArtifact, heads[j].state \in Queued \cup Active
               PROVE  spool'[j] /= NoArtifact
    OBVIOUS
  <2>0. /\ spool \in [Jobs -> Nat] /\ \A r \in Slots : TaskOK(exec[r], claim[r], accepted)
        /\ WorkerTypeOK /\ TaskShape
    BY WorkerInvParts DEF WorkerInv
  <2>1. heads[j].state \notin Over BY DEF Over, Terminal, Queued, Active
  <2>2. CASE spool' = spool BY <2>2
  <2>3. ASSUME NEW s \in Slots, ExecuteStep(s) PROVE spool'[j] /= NoArtifact
    <3>1. CASE Save(s)
      <4>1. exec[s].art /= NoArtifact BY <2>0, <3>1 DEF Save, TaskOK
      <4> QED BY <2>0, <3>1, <4>1 DEF Save
    <3>2. CASE Quiet(s) \/ Forward(s) \/ Rejected(s)
      BY <2>2, <3>2 DEF Quiet, Forward, Rejected, OnlyExec
    <3> QED BY <2>0, <2>3, <3>1, <3>2, ExecuteMoves
  <2>4. ASSUME NEW s \in Slots, ClaimStep(s) PROVE spool'[j] /= NoArtifact
    <3>1. CASE Cleanup(s)
      <4>1. exec[s].job /= j BY <2>1, <3>1 DEF Cleanup, DeletionsInTime
      <4> QED BY <2>0, <3>1, <4>1 DEF Cleanup
    <3>2. CASE Quiet(s) \/ Beats(s) \/ Release(s)
      BY <2>2, <3>2 DEF Quiet, Beats, Release, OnlyExec
    <3>3. ASSUME NEW t \in Readings,
                 \/ \E i \in Jobs : Dispatch(s, i, t)
                 \/ DispatchNone(s, t) \/ Commit(s, t) \/ RaceCommit(s, t)
          PROVE  spool' = spool
      BY <3>3 DEF Dispatch, DispatchNone, Commit, RaceCommit, OnlyExec
    <3> QED BY <2>0, <2>2, <2>4, <3>1, <3>2, <3>3, ClaimMoves
  <2>5. ASSUME NEW p \in Procs, ProcessStep(p) PROVE spool'[j] /= NoArtifact
    <3>1. CASE DeleteCancelled(p)
      <4>1. handler[p].job /= j
        BY <2>1, <3>1 DEF DeleteCancelled, DeletionsInTime, Over, Terminal
      <4> QED BY <2>0, <3>1, <4>1 DEF DeleteCancelled
    <3> QED BY <2>2, <2>5, <3>1
            DEF ProcessStep, Stop, Restart, CancelScan, CancelAgain, NotifyCancel
  <2>6. ASSUME NEW i \in Jobs, JobStep(i) PROVE spool'[j] /= NoArtifact
    <3>1. CASE RemoveStale(i)
      BY <2>0, <2>1, <3>1 DEF RemoveStale, DeletionsInTime
    <3> QED BY <2>2, <2>6, <3>1
            DEF JobStep, Submit, RetryScan, SettleDerived, SelectStale, AnalyzerStores, workerVars
  <2>7. CASE Passes \/ UNCHANGED allVars
    BY <2>2, <2>7 DEF Passes, workerVars, allVars
  <2> QED BY <2>3, <2>4, <2>5, <2>6, <2>7 DEF WorkerNext
<1> QED BY <1>1, WorkerInvInit, WorkerInvStep, DeletionsInit, DeletionsStep, PTL
        DEF WorkerSpec, ArtifactKept

(* The states of a cancellation come from a request or from a worker.      *)
LEMMA CancelStates ==
  ASSUME WorkerInv, [WorkerNext]_allVars, NEW k \in Jobs,
         heads'[k].state \in {"cancelling", "cancelled"}
  PROVE  \/ heads[k].state \in {"cancelling", "cancelled"}
         \/ \E p \in Procs : CancelScan(p, k)
         \/ \E s \in Slots : /\ exec[s].job = k /\ MayCancel(s) /\ asked' = asked
<1>0. TypeOK BY DEF WorkerInv, FenceInv
<1>2. ASSUME NEW s \in Slots, NEW e, Works(s, e) PROVE heads'[k].state = heads[k].state
  BY <1>2, WorksStore
<1>3. ASSUME NEW s \in Slots, NEW j \in Jobs, NEW t \in Readings, Dispatch(s, j, t)
      PROVE  heads[k].state \in {"cancelling", "cancelled"}
  BY <1>3, DispatchRows
<1>4. ASSUME NEW s \in Slots, NEW t \in Readings, DispatchNone(s, t)
      PROVE  heads[k].state \in {"cancelling", "cancelled"}
  BY <1>0, <1>4, NoneRows
<1>5. ASSUME NEW s \in Slots, NEW t \in Readings, Commit(s, t) \/ RaceCommit(s, t)
      PROVE  \/ heads[k].state \in {"cancelling", "cancelled"}
             \/ exec[s].job = k /\ MayCancel(s) /\ asked' = asked
  <2> DEFINE j == exec[s].job
  <2>1. /\ \A i \in Jobs \ {j} : heads'[i] = heads[i]
        /\ claim[s].job = j /\ claim[s] /= NoClaim /\ heads[j].holder = s
        /\ heads'[j].state \in {"retrying"} \cup Terminal
        /\ heads'[j].state = "cancelled" =>
             exec[s].phase = "raceCommit" \/ "cancel" \in exec[s].control
        /\ asked' = asked
    BY <1>5, CommitStep
  <2> QED BY <2>1 DEF MayCancel, Terminal
<1>6. ASSUME NEW s \in Slots, Cleanup(s) \/ Release(s)
      PROVE  heads'[k].state = heads[k].state
  BY <1>6 DEF Cleanup, Release, Abandon, vars
<1>7. ASSUME NEW p \in Procs, ProcessStep(p)
      PROVE  heads[k].state \in {"cancelling", "cancelled"} \/ CancelScan(p, k)
  <2>1. ASSUME NEW j \in Jobs, CancelScan(p, j), j /= k PROVE heads'[k] = heads[k]
    BY <1>0, <2>1, CancelRow DEF CancelScan
  <2>2. ASSUME NEW j \in Jobs, CancelAgain(p, j) PROVE heads' = heads
    BY <2>2 DEF CancelAgain, vars
  <2>3. CASE Stop(p) \/ Restart(p) \/ DeleteCancelled(p) \/ NotifyCancel(p)
    BY <2>3 DEF Stop, Restart, DeleteCancelled, NotifyCancel, vars
  <2> QED BY <1>7, <2>1, <2>2, <2>3 DEF ProcessStep
<1>8. ASSUME NEW j \in Jobs, JobStep(j)
      PROVE  heads[k].state \in {"cancelling", "cancelled"}
  <2>1. ASSUME NEW t \in Readings, Submit(j, t)
        PROVE  heads[k].state \in {"cancelling", "cancelled"}
    BY <1>0, <2>1, SubmitRows
  <2>2. ASSUME NEW t \in Readings, RetryScan(j, t)
        PROVE  heads[k].state \in {"cancelling", "cancelled"}
    BY <1>0, <2>2, RetryRows
  <2>3. ASSUME SettleDerived(j) PROVE heads'[k].state = heads[k].state
    BY <1>0, <2>3, SettleRows
  <2>4. CASE SelectStale(j) \/ RemoveStale(j) \/ AnalyzerStores(j)
    BY <2>4 DEF SelectStale, RemoveStale, AnalyzerStores, vars
  <2> QED BY <1>8, <2>1, <2>2, <2>3, <2>4 DEF JobStep
<1>9. CASE Passes \/ UNCHANGED allVars
  BY <1>9 DEF Passes, Tick, allVars, vars
<1> QED BY <1>2, <1>3, <1>4, <1>5, <1>6, <1>7, <1>8, <1>9, StepCases

(* The history of requests is reset by a manual retry only.                *)
LEMMA AskedStep ==
  ASSUME WorkerInv, [WorkerNext]_allVars, NEW k \in Jobs, asked[k]
  PROVE  asked'[k] \/ \E t \in Readings : RetryScan(k, t)
<1>0. asked \in [Jobs -> BOOLEAN] BY WorkerInvParts
<1>1. CASE asked' = asked BY <1>1
<1>2. ASSUME NEW s \in Slots, NEW e, Works(s, e) PROVE asked' = asked
  BY <1>2 DEF Works
<1>3. ASSUME NEW s \in Slots, NEW t \in Readings,
             \/ \E j \in Jobs : Dispatch(s, j, t)
             \/ DispatchNone(s, t) \/ Commit(s, t) \/ RaceCommit(s, t)
      PROVE  asked' = asked
  BY <1>3 DEF Dispatch, DispatchNone, Commit, RaceCommit, OnlyExec
<1>4. ASSUME NEW s \in Slots, Cleanup(s) \/ Release(s) PROVE asked' = asked
  BY <1>4 DEF Cleanup, Release, OnlyExec
<1>5. ASSUME NEW p \in Procs, ProcessStep(p) PROVE asked'[k]
  BY <1>0, <1>5
  DEF ProcessStep, Stop, Restart, CancelScan, CancelAgain, DeleteCancelled, NotifyCancel
<1>6. ASSUME NEW j \in Jobs, JobStep(j) PROVE asked'[k] \/ \E t \in Readings : RetryScan(k, t)
  <2>1. ASSUME NEW t \in Readings, RetryScan(j, t), j /= k PROVE asked'[k]
    BY <1>0, <2>1 DEF RetryScan
  <2> QED BY <1>1, <1>6, <2>1
          DEF JobStep, Submit, SettleDerived, SelectStale, RemoveStale, AnalyzerStores, workerVars
<1>7. CASE Passes \/ UNCHANGED allVars
  BY <1>1, <1>7 DEF Passes, workerVars, allVars
<1> QED BY <1>1, <1>2, <1>3, <1>4, <1>5, <1>6, <1>7, StepCases

(* Who may cancel after a step was asked to before it.                     *)
LEMMA MayCancelStep ==
  ASSUME WorkerInv, CancelInv, [WorkerNext]_allVars, NEW r \in Slots, MayCancel(r)'
  PROVE  claim'[r].job \in Jobs /\ asked[claim'[r].job]
<1> DEFINE k == claim'[r].job
<1>0. /\ TypeOK /\ TypeOK' /\ exec \in [Slots -> Exec]
      /\ \A s \in Slots : TaskOK(exec[s], claim[s], accepted)
  BY WorkerInvParts, WorkerInvStep DEF WorkerInv, FenceInv
<1>1. /\ claim'[r] /= NoClaim /\ heads'[k].holder = r
      /\ "cancel" \in exec'[r].control \/ exec'[r].phase = "raceCommit"
  BY DEF MayCancel
<1>2. k \in Jobs /\ r /= NoSlot BY <1>0, <1>1, SlotAssumption DEF TypeOK, Claims
<1>3. ASSUME claim[r] /= NoClaim, claim[r].job = k, heads[k].holder = r,
             "cancel" \in exec[r].control \/ exec[r].phase = "raceCommit"
      PROVE  asked[k]
  BY <1>3 DEF CancelInv, MayCancel
<1>4. ASSUME heads[k].state \in {"cancelling", "cancelled"} PROVE asked[k]
  BY <1>2, <1>4 DEF CancelInv
<1>5. ASSUME NEW s \in Slots, NEW e, Works(s, e) PROVE asked[k]
  <2>1. claim[r].job = k /\ claim[r] /= NoClaim /\ heads[k].holder = r
    BY <1>1, <1>2, <1>5, WorksStore
  <2>2. exec' = [exec EXCEPT ![s] = e] /\ Advance(s, e) BY <1>5 DEF Works, Moves
  <2>3. CASE r /= s
    <3>1. exec'[r] = exec[r] BY <1>0, <2>2, <2>3
    <3> QED BY <1>1, <1>3, <2>1, <3>1
  <2>4. CASE r = s
    <3>1. exec'[r] = e BY <1>0, <2>2, <2>4
    <3>2. e.job = k
      <4>1. TaskOK(exec[s], claim[s], accepted) BY <1>0
      <4> QED BY <2>1, <2>2, <2>4, <4>1 DEF TaskOK, Advance
    <3> QED BY <1>1, <1>3, <1>4, <2>1, <2>2, <2>4, <3>1, <3>2 DEF Advance
  <2> QED BY <2>3, <2>4
<1>6. ASSUME NEW s \in Slots, NEW j \in Jobs, NEW t \in Readings, Dispatch(s, j, t)
      PROVE  asked[k]
  <2>1. CASE r = s
    <3>1. k = j BY <1>6, <2>1, DispatchRows
    <3>2. exec'[s].control = CancelSeen(j) /\ exec'[s].phase = "load"
      BY <1>0, <1>6 DEF Dispatch, IdleExec
    <3> QED BY <1>1, <1>4, <2>1, <3>1, <3>2 DEF CancelSeen
  <2>2. CASE r /= s
    <3>1. claim'[r] = claim[r] /\ exec'[r] = exec[r] BY <1>6, <2>2, DispatchRows
    <3>2. heads[k].holder = r BY <1>1, <1>2, <1>6, <2>2, DispatchRows
    <3> QED BY <1>1, <1>3, <3>1, <3>2
  <2> QED BY <2>1, <2>2
<1>7. ASSUME NEW s \in Slots, NEW t \in Readings, DispatchNone(s, t) PROVE asked[k]
  <2>1. heads[k].holder = r /\ claim' = claim /\ exec' = exec
    BY <1>0, <1>1, <1>2, <1>7, NoneRows
  <2> QED BY <1>1, <1>3, <2>1
<1>8. ASSUME NEW s \in Slots, NEW t \in Readings, Commit(s, t) \/ RaceCommit(s, t)
      PROVE  asked[k]
  <2>1. PICK e \in Exec :
          /\ exec' = [exec EXCEPT ![s] = e]
          /\ claim' = [claim EXCEPT ![s] = NoClaim]
          /\ heads'[exec[s].job].holder = NoSlot
          /\ \A i \in Jobs \ {exec[s].job} : heads'[i] = heads[i]
    BY <1>8, CommitStep
  <2>2. r /= s BY <1>0, <1>1, <2>1 DEF TypeOK
  <2>3. claim'[r] = claim[r] /\ exec'[r] = exec[r] BY <1>0, <2>1, <2>2 DEF TypeOK
  <2>4. heads[k].holder = r BY <1>1, <1>2, <2>1
  <2> QED BY <1>1, <1>3, <2>3, <2>4
<1>9. ASSUME NEW s \in Slots, Cleanup(s) \/ Release(s) PROVE asked[k]
  <2>1. exec' = [exec EXCEPT ![s] = IdleExec] /\ heads' = heads
    BY <1>9 DEF Cleanup, Release, Abandon, vars
  <2>2. r /= s
    <3>1. IdleExec.control = {} /\ IdleExec.phase = "idle" BY DEF IdleExec
    <3> QED BY <1>0, <1>1, <2>1, <3>1
  <2>3. claim'[r] = claim[r] BY <1>0, <1>9, <2>2 DEF Cleanup, Release, Abandon, vars, TypeOK
  <2> QED BY <1>0, <1>1, <1>3, <2>1, <2>2, <2>3
<1>10. ASSUME NEW p \in Procs, ProcessStep(p) PROVE asked[k]
  <2>1. claim'[r] = claim[r] BY <1>1, <1>10, ProcessTasks
  <2>2. heads[k].holder = r
    <3>1. ASSUME NEW j \in Jobs, CancelScan(p, j) PROVE heads'[k].holder = heads[k].holder
      BY <1>0, <1>2, <3>1, CancelRow DEF CancelScan
    <3>2. ASSUME NEW j \in Jobs, CancelAgain(p, j) PROVE heads' = heads
      BY <3>2 DEF CancelAgain, vars
    <3>3. CASE Stop(p) \/ Restart(p) \/ DeleteCancelled(p) \/ NotifyCancel(p)
      BY <1>1, <3>3 DEF Stop, Restart, DeleteCancelled, NotifyCancel, vars
    <3> QED BY <1>1, <1>10, <3>1, <3>2, <3>3 DEF ProcessStep
  <2>3. CASE "cancel" \in exec[r].control \/ exec[r].phase = "raceCommit"
    BY <1>1, <1>3, <2>1, <2>2, <2>3
  <2>4. CASE NotifyCancel(p) /\ exec[r].job = handler[p].job
    <3>1. heads[k].state \in Active
      BY <1>2, <2>2 DEF WorkerInv, FenceInv, OnlyActiveHeadsLeased
    <3>2. exec[r].job = k
      <4>1. TaskOK(exec[r], claim[r], accepted) BY <1>0
      <4> QED BY <1>1, <2>1, <4>1 DEF TaskOK
    <3>3. asked[handler[p].job] \/ heads[handler[p].job].state \in Over
      BY <2>4 DEF NotifyCancel, CancelInv
    <3> QED BY <2>4, <3>1, <3>2, <3>3 DEF Over, Terminal, Active
  <2>5. "cancel" \in exec'[r].control =>
          "cancel" \in exec[r].control \/ (NotifyCancel(p) /\ exec[r].job = handler[p].job)
    <3>1. exec'[r] /= IdleExec BY <1>1 DEF IdleExec
    <3>2. \/ exec'[r] = exec[r]
          \/ exec'[r].control = exec[r].control \cup {"shutdown"}
          \/ NotifyCancel(p) /\ exec[r].job = handler[p].job
      BY <1>10, <3>1, ProcessTasks
    <3> QED BY <3>2
  <2>6. exec'[r].phase = exec[r].phase
    <3>1. exec'[r] /= IdleExec BY <1>1 DEF IdleExec
    <3> QED BY <1>1, <1>10, <3>1, ProcessTasks
  <2> QED BY <1>1, <2>3, <2>4, <2>5, <2>6
<1>11. ASSUME claim'[r] = claim[r], exec' = exec, heads[k].holder = r PROVE asked[k]
  BY <1>1, <1>3, <1>11
<1>12. ASSUME NEW j \in Jobs, JobStep(j) PROVE asked[k]
  <2>1. ASSUME NEW t \in Readings, Submit(j, t) PROVE asked[k]
    BY <1>0, <1>1, <1>2, <1>11, <2>1, SubmitRows DEF workerVars
  <2>2. ASSUME NEW t \in Readings, RetryScan(j, t) PROVE asked[k]
    BY <1>0, <1>1, <1>2, <1>11, <2>2, RetryRows
  <2>3. ASSUME SettleDerived(j) PROVE asked[k]
    BY <1>0, <1>1, <1>2, <1>11, <2>3, SettleRows DEF workerVars
  <2>4. CASE SelectStale(j) \/ RemoveStale(j) \/ AnalyzerStores(j)
    BY <1>1, <1>11, <2>4 DEF SelectStale, RemoveStale, AnalyzerStores, vars
  <2> QED BY <1>12, <2>1, <2>2, <2>3, <2>4 DEF JobStep
<1>13. ASSUME Passes \/ UNCHANGED allVars PROVE asked[k]
  BY <1>1, <1>11, <1>13 DEF Passes, Tick, workerVars, allVars, vars
<1> HIDE DEF k
<1>14. asked[k]
  BY <1>5, <1>6, <1>7, <1>8, <1>9, <1>10, <1>12, <1>13, StepCases
<1> QED BY <1>2, <1>14 DEF k

LEMMA CancelInvStep ==
  ASSUME NoHaste, WorkerInv, CancelInv, [WorkerNext]_allVars
  PROVE  CancelInv'
<1>0. /\ TypeOK /\ asked \in [Jobs -> BOOLEAN]
      /\ \A p \in Procs : HandlerOK(handler[p])
      /\ \A s \in Slots : TaskOK(exec[s], claim[s], accepted)
  BY WorkerInvParts DEF FenceInv
<1>1. ASSUME NEW k \in Jobs, heads'[k].state \in {"cancelling", "cancelled"} PROVE asked'[k]
  <2>1. \A t \in Readings : ~ RetryScan(k, t)
    <3> SUFFICES ASSUME NEW t \in Readings, RetryScan(k, t) PROVE FALSE OBVIOUS
    <3> QED BY <1>0, <1>1, RetryRows
  <2>2. CASE asked[k] BY <2>1, <2>2, AskedStep
  <2>3. CASE heads[k].state \in {"cancelling", "cancelled"} BY <2>2, <2>3 DEF CancelInv
  <2>4. ASSUME NEW p \in Procs, CancelScan(p, k) PROVE asked'[k]
    BY <1>0, <2>4 DEF CancelScan
  <2>5. ASSUME NEW s \in Slots, exec[s].job = k, MayCancel(s) PROVE asked[k]
    <3>1. TaskOK(exec[s], claim[s], accepted) BY <1>0
    <3>2. claim[s].job = k BY <2>5, <3>1 DEF MayCancel, TaskOK
    <3> QED BY <2>5, <3>2 DEF CancelInv
  <2> QED BY <1>1, <2>2, <2>3, <2>4, <2>5, CancelStates
<1>2. ASSUME NEW q \in Procs, handler'[q].stage /= "none"
      PROVE  asked'[handler'[q].job] \/ heads'[handler'[q].job].state \in Over
  <2>1. CASE handler[q].stage /= "none" /\ handler'[q].job = handler[q].job
    <3> DEFINE k == handler[q].job
    <3>1. k \in Jobs /\ (asked[k] \/ heads[k].state \in Over)
      BY <1>0, <2>1 DEF HandlerOK, CancelInv
    <3>2. \A t \in Readings : ~ RetryScan(k, t) BY DEF RetryScan, NoHaste, CleanedUp
    <3> QED BY <2>1, <3>1, <3>2, AskedStep, OverStays DEF Over
  <2>2. ASSUME NEW j \in Jobs, CancelScan(q, j) PROVE asked'[j]
    BY <1>0, <2>2 DEF CancelScan
  <2>3. ASSUME NEW j \in Jobs, CancelAgain(q, j) PROVE asked'[j] \/ heads'[j].state \in Over
    <3>1. /\ heads[j].state \in Terminal \cup {"cancelling"} /\ heads' = heads /\ asked' = asked
      BY <2>3 DEF CancelAgain, vars
    <3> QED BY <3>1 DEF CancelInv, Over
  <2> QED BY <1>2, <2>1, <2>2, <2>3, HandlerStep
<1>3. ASSUME NEW r \in Slots, MayCancel(r)' PROVE asked'[claim'[r].job]
  <2> DEFINE k == claim'[r].job
  <2>1. k \in Jobs /\ asked[k] BY <1>3, MayCancelStep
  <2>2. \A t \in Readings : ~ RetryScan(k, t)
    <3> SUFFICES ASSUME NEW t \in Readings, RetryScan(k, t) PROVE FALSE OBVIOUS
    <3>1. heads'[k].holder = NoSlot BY <1>0, <2>1, RetryRows
    <3> QED BY <1>3, <3>1, SlotAssumption DEF MayCancel
  <2> QED BY <2>1, <2>2, AskedStep
<1> QED BY <1>1, <1>2, <1>3 DEF CancelInv

(* Unless a retry overtakes the clean-up, a job ends cancelled only if a   *)
(* cancellation was accepted since it was submitted or last retried:       *)
(* shutdowns, lost leases and notifications of an earlier request never    *)
(* cancel a job.                                                           *)
THEOREM CancellationsWereAsked == NoHaste /\ WorkerSpec => []CancelledWasAsked
<1> SUFFICES ASSUME NoHaste PROVE WorkerSpec => []CancelledWasAsked
  OBVIOUS
<1>1. WorkerInit => CancelInv
  BY DEF WorkerInit, Init, CancelInv, MayCancel, EmptyHead, NoHandler
<1>2. CancelInv => CancelledWasAsked BY DEF CancelInv, CancelledWasAsked
<1> QED BY <1>1, <1>2, WorkerInvInit, WorkerInvStep, CancelInvStep, PTL DEF WorkerSpec

-----------------------------------------------------------------------------
(* One worker at a time, when heartbeats come in time.                     *)

(* No lease expires under a live worker, and a clock reading is younger    *)
(* than a lease is long: without the latter a claim may be dead on arrival.*)
Punctual == "stall" \notin Faults /\ ClockLag < LeaseTTL

(* A renewal moves the expiry and the heartbeat of one head.               *)
LEMMA RenewRows ==
  ASSUME TypeOK, NEW s \in Slots, NEW t \in Readings, Renew(s, t)
  PROVE  /\ claim[s].job \in Jobs
         /\ heads'[claim[s].job].expires = t + LeaseTTL
         /\ heads'[claim[s].job].heartbeat = t
         /\ \A k \in Jobs \ {claim[s].job} : heads'[k] = heads[k]
<1>1. claim[s].job \in Jobs /\ heads[claim[s].job] \in Head BY LeasedRowJob DEF Renew
<1> QED BY <1>1 DEF Renew, TypeOK, Head

(* A job is claimed only when no job of its target has a valid lease.      *)
LEMMA DispatchTarget ==
  ASSUME TypeOK, NEW s \in Slots, NEW j \in Jobs, NEW t \in Readings, Dispatch(s, j, t)
  PROVE  \A k \in Jobs : TargetOf[k] = TargetOf[j] => ~ Leased(heads[k], t)
<1> DEFINE hs == FailExhausted(t)
<1>0. t \in Nat BY ReadingsNat DEF TypeOK
<1>1. Claimable(hs, SweepOps(t), j, t) BY DEF Dispatch, ClaimNext, Candidates
<1>2. ASSUME NEW k \in Jobs, heads[k].state \in Active PROVE hs[k] = heads[k]
  BY <1>0, <1>2, FailExhaustedHeads DEF Active, Queued
<1> HIDE DEF hs
<1>3. ASSUME NEW k \in Jobs, k /= j, TargetOf[k] = TargetOf[j], Leased(heads[k], t) PROVE FALSE
  BY <1>1, <1>2, <1>3 DEF Claimable, Leased
<1>4. ASSUME Leased(heads[j], t) PROVE FALSE
  <2>1. heads[j].state \in Active /\ heads[j].expires > t /\ heads[j].expires \in Int
    BY <1>4 DEF Leased, TypeOK, Head, Times, Null
  <2>2. hs[j] = heads[j] BY <1>2, <2>1
  <2> QED BY <1>0, <1>1, <2>1, <2>2 DEF Claimable, Active, Queued
<1> QED BY <1>3, <1>4

(* A kept lease belongs to an active head.                                 *)
LEMMA KeptLease ==
  ASSUME WorkerInv, PunctualInv, NEW r \in Slots, claim[r] /= NoClaim
  PROVE  /\ claim[r].job \in Jobs
         /\ heads[claim[r].job].holder = r
         /\ heads[claim[r].job].state \in Active
         /\ heads[claim[r].job].expires > clock
         /\ heads[claim[r].job].expires \in Int /\ clock \in Nat
<1>1. TypeOK /\ OnlyActiveHeadsLeased BY DEF WorkerInv, FenceInv
<1>2. claim[r].job \in Jobs BY <1>1 DEF TypeOK, Claims
<1>3. heads[claim[r].job].expires \in Int /\ clock \in Nat
  BY <1>1, <1>2 DEF TypeOK, Head, Times, Null
<1>4. heads[claim[r].job].holder = r /\ heads[claim[r].job].expires > clock
  BY DEF PunctualInv, LeaseKept
<1> QED BY <1>1, <1>2, <1>3, <1>4, SlotAssumption DEF OnlyActiveHeadsLeased

(* A step that only forgets claims, or leaves their leases, keeps them.    *)
LEMMA LeasesKept ==
  ASSUME PunctualInv,
         \A r \in Slots : claim'[r] /= NoClaim =>
           /\ claim[r] /= NoClaim /\ claim'[r].job = claim[r].job
           /\ heads'[claim[r].job].holder = heads[claim[r].job].holder
           /\ heads'[claim[r].job].expires > clock'
  PROVE  PunctualInv'
  BY DEF PunctualInv, LeaseKept

LEMMA PunctualStep ==
  ASSUME Punctual, WorkerInv, PunctualInv, [WorkerNext]_allVars
  PROVE  PunctualInv'
<1>0. TypeOK /\ SnapshotCurrent BY DEF WorkerInv, FenceInv
<1>1. \A t \in Readings : t \in Nat /\ t <= clock /\ t + LeaseTTL > clock
  BY <1>0, BoundAssumption DEF Readings, Punctual, TypeOK
<1>2. ASSUME NEW s \in Slots, NEW e, Works(s, e) PROVE PunctualInv'
  <2>1. ASSUME NEW r \in Slots, claim'[r] /= NoClaim
        PROVE  /\ claim[r] /= NoClaim /\ claim'[r].job = claim[r].job
               /\ heads'[claim[r].job].holder = heads[claim[r].job].holder
               /\ heads'[claim[r].job].expires > clock'
    <3>1. /\ claim[r] /= NoClaim /\ claim'[r].job = claim[r].job /\ clock' = clock
      BY <1>2, <2>1, WorksStore
    <3>2. /\ claim[r].job \in Jobs /\ heads[claim[r].job].expires > clock
      BY <3>1, KeptLease
    <3>3. heads'[claim[r].job].expires > clock
      <4>1. CASE UNCHANGED vars BY <3>2, <4>1 DEF vars
      <4>2. ASSUME NEW t \in Readings, Renew(s, t) PROVE heads'[claim[r].job].expires > clock
        BY <1>0, <1>1, <3>2, <4>2, RenewRows
      <4> QED BY <1>2, <4>1, <4>2 DEF Works
    <3> QED BY <1>2, <3>1, <3>2, <3>3, WorksStore
  <2> QED BY <2>1, LeasesKept
<1>3. ASSUME NEW s \in Slots, NEW j \in Jobs, NEW t \in Readings, Dispatch(s, j, t)
      PROVE  PunctualInv'
  <2>1. /\ claim'[s].job = j /\ heads'[j].holder = s /\ heads'[j].expires > clock
        /\ clock' = clock
    BY <1>1, <1>3, DispatchRows
  <2>2. ASSUME NEW r \in Slots \ {s}, claim'[r] /= NoClaim
        PROVE  /\ claim'[r] = claim[r] /\ claim[r].job \in Jobs
               /\ TargetOf[claim[r].job] /= TargetOf[j]
               /\ heads'[claim[r].job] = heads[claim[r].job]
    <3>1. claim'[r] = claim[r] /\ claim[r] /= NoClaim BY <1>3, <2>2, DispatchRows
    <3> DEFINE k == claim[r].job
    <3>2. /\ k \in Jobs /\ heads[k].state \in Active /\ heads[k].expires > clock
          /\ heads[k].expires \in Int /\ clock \in Nat
      BY <3>1, KeptLease
    <3> HIDE DEF k
    <3>3. Leased(heads[k], t) BY <1>1, <3>2 DEF Leased
    <3>4. TargetOf[k] /= TargetOf[j] BY <1>0, <1>3, <3>2, <3>3, DispatchTarget
    <3>5. heads'[k] = heads[k] BY <1>3, <3>2, <3>4, DispatchRows DEF Active, Queued
    <3> QED BY <3>1, <3>2, <3>4, <3>5 DEF k
  <2>3. \A r \in Slots : claim'[r] /= NoClaim =>
          /\ heads'[claim'[r].job].holder = r /\ heads'[claim'[r].job].expires > clock'
    BY <2>1, <2>2, KeptLease
  <2>4. ASSUME NEW q \in Slots, NEW r \in Slots, q /= r, claim'[q] /= NoClaim, claim'[r] /= NoClaim
        PROVE  TargetOf[claim'[q].job] /= TargetOf[claim'[r].job]
    BY <2>1, <2>2, <2>4 DEF PunctualInv
  <2> QED BY <2>3, <2>4 DEF PunctualInv, LeaseKept
<1>4. ASSUME NEW s \in Slots, NEW t \in Readings, DispatchNone(s, t) PROVE PunctualInv'
  <2>1. ASSUME NEW r \in Slots, claim[r] /= NoClaim
        PROVE  heads'[claim[r].job] = heads[claim[r].job]
    BY <1>0, <1>4, <2>1, KeptLease, NoneRows DEF Active, Queued
  <2> QED BY <1>0, <1>4, <2>1, NoneRows, KeptLease, LeasesKept
<1>5. ASSUME NEW s \in Slots, NEW t \in Readings, Commit(s, t) \/ RaceCommit(s, t)
      PROVE  PunctualInv'
  <2>1. /\ claim' = [claim EXCEPT ![s] = NoClaim] /\ claim[s] /= NoClaim
        /\ \A k \in Jobs \ {claim[s].job} : heads'[k] = heads[k]
    BY <1>5, CommitStep
  <2>2. clock' = clock BY <1>5 DEF Commit, RaceCommit, Complete
  <2>3. ASSUME NEW r \in Slots, claim'[r] /= NoClaim
        PROVE  /\ claim'[r] = claim[r] /\ claim[r] /= NoClaim
               /\ heads'[claim[r].job] = heads[claim[r].job]
    <3>1. r /= s /\ claim'[r] = claim[r] BY <1>0, <2>1, <2>3 DEF TypeOK
    <3>2. claim[r].job /= claim[s].job BY <2>1, <2>3, <3>1 DEF PunctualInv
    <3>3. claim[r].job \in Jobs BY <2>3, <3>1, KeptLease
    <3> QED BY <2>1, <2>3, <3>1, <3>2, <3>3
  <2> QED BY <2>2, <2>3, KeptLease, LeasesKept
<1>6. ASSUME NEW s \in Slots, Cleanup(s) \/ Release(s) PROVE PunctualInv'
  <2>1. heads' = heads /\ clock' = clock BY <1>6 DEF Cleanup, Release, Abandon, vars
  <2>2. \A r \in Slots : claim'[r] /= NoClaim => claim'[r] = claim[r]
    BY <1>0, <1>6 DEF Cleanup, Release, Abandon, vars, TypeOK
  <2> QED BY <2>1, <2>2, KeptLease, LeasesKept
<1>7. ASSUME NEW p \in Procs, ProcessStep(p) PROVE PunctualInv'
  <2>1. \A r \in Slots : claim'[r] /= NoClaim => claim'[r] = claim[r]
    BY <1>7, ProcessTasks
  <2>2. /\ clock' = clock
        /\ \A k \in Jobs : /\ heads'[k].holder = heads[k].holder
                           /\ heads'[k].expires = heads[k].expires
    <3>1. ASSUME NEW j \in Jobs, CancelScan(p, j)
          PROVE  /\ clock' = clock
                 /\ \A k \in Jobs : /\ heads'[k].holder = heads[k].holder
                                    /\ heads'[k].expires = heads[k].expires
      BY <1>0, <3>1, CancelRow DEF CancelScan
    <3>2. ASSUME NEW j \in Jobs, CancelAgain(p, j) PROVE heads' = heads /\ clock' = clock
      BY <3>2 DEF CancelAgain, vars
    <3>3. ASSUME Stop(p) \/ Restart(p) \/ DeleteCancelled(p) \/ NotifyCancel(p)
          PROVE  heads' = heads /\ clock' = clock
      BY <3>3 DEF Stop, Restart, DeleteCancelled, NotifyCancel, vars
    <3> QED BY <1>7, <3>1, <3>2, <3>3 DEF ProcessStep
  <2> QED BY <2>1, <2>2, KeptLease, LeasesKept
<1>8. ASSUME NEW j \in Jobs, JobStep(j) PROVE PunctualInv'
  <2>1. ASSUME claim' = claim, clock' = clock,
               \A k \in Jobs : heads[k].state \in Active =>
                 /\ heads'[k].holder = heads[k].holder /\ heads'[k].expires = heads[k].expires
        PROVE  PunctualInv'
    BY <2>1, KeptLease, LeasesKept
  <2>2. ASSUME NEW t \in Readings, Submit(j, t) PROVE PunctualInv'
    BY <1>0, <2>1, <2>2, SubmitRows DEF Active, Terminal
  <2>3. ASSUME NEW t \in Readings, RetryScan(j, t) PROVE PunctualInv'
    BY <1>0, <2>1, <2>3, RetryRows DEF Active
  <2>4. ASSUME SettleDerived(j) PROVE PunctualInv'
    BY <1>0, <2>1, <2>4, SettleRows
  <2>5. ASSUME SelectStale(j) \/ RemoveStale(j) \/ AnalyzerStores(j) PROVE PunctualInv'
    BY <2>1, <2>5 DEF SelectStale, RemoveStale, AnalyzerStores, vars
  <2> QED BY <1>8, <2>2, <2>3, <2>4, <2>5 DEF JobStep
<1>9. ASSUME Passes PROVE PunctualInv'
  <2>1. /\ heads' = heads /\ claim' = claim /\ clock' = clock + 1
        /\ \A s \in Slots : HoldsLease(s) => heads[claim[s].job].expires > clock + 1
    BY <1>9 DEF Passes, Tick, Punctual
  <2>2. ASSUME NEW r \in Slots, claim[r] /= NoClaim PROVE heads[claim[r].job].expires > clock + 1
    <3>1. HoldsLease(r) BY <1>0, <2>2, KeptLease DEF HoldsLease, SnapshotCurrent
    <3> QED BY <2>1, <3>1
  <2> QED BY <2>1, <2>2, LeasesKept
<1>10. ASSUME UNCHANGED allVars PROVE PunctualInv'
  BY <1>10, KeptLease, LeasesKept DEF allVars, vars
<1> QED BY <1>2, <1>3, <1>4, <1>5, <1>6, <1>7, <1>8, <1>9, <1>10, StepCases

LEMMA PunctualInit == WorkerInit => PunctualInv
  BY DEF WorkerInit, Init, PunctualInv, LeaseKept

(* While heartbeats come in time, two workers never collect from one       *)
(* target at the same time, in whatever processes they run and however     *)
(* often those restart.                                                    *)
THEOREM CollectionsAreExclusive == Punctual /\ WorkerSpec => []OneCollectionPerTarget
<1> SUFFICES ASSUME Punctual PROVE WorkerSpec => []OneCollectionPerTarget
  OBVIOUS
<1>1. WorkerInv /\ PunctualInv => OneCollectionPerTarget
  <2> SUFFICES ASSUME WorkerInv, PunctualInv PROVE OneCollectionPerTarget
    OBVIOUS
  <2>1. ASSUME NEW r \in Slots, exec[r].phase = "collect"
        PROVE  claim[r] /= NoClaim /\ exec[r].job = claim[r].job
    <3>1. TaskOK(exec[r], claim[r], accepted) BY WorkerInvParts
    <3> QED BY <2>1, <3>1 DEF TaskOK
  <2> QED BY <2>1 DEF OneCollectionPerTarget, PunctualInv
<1> QED BY <1>1, WorkerInvInit, WorkerInvStep, PunctualInit, PunctualStep, PTL DEF WorkerSpec

-----------------------------------------------------------------------------
(* One report per request.                                                 *)

(* What becomes of a file: it is written by the execution that collected,  *)
(* or deleted when the job is over.                                        *)
LEMMA FileStep ==
  ASSUME WorkerInv, DeletionsInTime, [WorkerNext]_allVars, NEW k \in Jobs
  PROVE  \/ spool'[k] = spool[k]
         \/ /\ spool'[k] = NoArtifact /\ heads[k].state \notin Queued \cup Active
            /\ heads' = heads
         \/ \E s \in Slots : Save(s) /\ exec[s].job = k /\ spool'[k] = exec[s].art
<1>0. spool \in [Jobs -> Nat] BY WorkerInvParts
<1>1. Over \cap (Queued \cup Active) = {} BY DEF Over, Terminal, Queued, Active
<1>2. ASSUME NEW s \in Slots, Save(s)
      PROVE  spool'[k] = spool[k] \/ (exec[s].job = k /\ spool'[k] = exec[s].art)
  BY <1>0, <1>2 DEF Save
<1>3. ASSUME NEW s \in Slots, Cleanup(s), spool'[k] /= spool[k]
      PROVE  spool'[k] = NoArtifact /\ heads[k].state \in Over /\ heads' = heads
  <2>1. exec[s].job = k BY <1>0, <1>3 DEF Cleanup
  <2> QED BY <1>0, <1>3, <2>1 DEF Cleanup, DeletionsInTime, vars
<1>4. ASSUME NEW s \in Slots, Quiet(s) \/ Beats(s) \/ Forward(s) \/ Rejected(s) \/ Release(s)
      PROVE  spool' = spool
  BY <1>4 DEF Quiet, Beats, Forward, Rejected, Release, OnlyExec
<1>5. ASSUME NEW s \in Slots, NEW t \in Readings,
             \/ \E j \in Jobs : Dispatch(s, j, t)
             \/ DispatchNone(s, t) \/ Commit(s, t) \/ RaceCommit(s, t)
      PROVE  spool' = spool
  BY <1>5 DEF Dispatch, DispatchNone, Commit, RaceCommit, OnlyExec
<1>6. ASSUME NEW p \in Procs, DeleteCancelled(p), spool'[k] /= spool[k]
      PROVE  spool'[k] = NoArtifact /\ heads[k].state \in Over /\ heads' = heads
  <2>1. handler[p].job = k BY <1>0, <1>6 DEF DeleteCancelled
  <2> QED BY <1>0, <1>6, <2>1 DEF DeleteCancelled, DeletionsInTime, Over, Terminal, vars
<1>7. ASSUME NEW p \in Procs, ProcessStep(p) PROVE DeleteCancelled(p) \/ spool' = spool
  BY <1>7 DEF ProcessStep, Stop, Restart, CancelScan, CancelAgain, NotifyCancel
<1>8. ASSUME NEW j \in Jobs, RemoveStale(j), spool'[k] /= spool[k]
      PROVE  spool'[k] = NoArtifact /\ heads[k].state \in Over /\ heads' = heads
  <2>1. j = k BY <1>0, <1>8 DEF RemoveStale
  <2> QED BY <1>0, <1>8, <2>1 DEF RemoveStale, DeletionsInTime, vars
<1>9. ASSUME NEW j \in Jobs, JobStep(j) PROVE RemoveStale(j) \/ spool' = spool
  BY <1>9 DEF JobStep, Submit, RetryScan, SettleDerived, SelectStale, AnalyzerStores, workerVars
<1>10. ASSUME Passes \/ UNCHANGED allVars PROVE spool' = spool
  BY <1>10 DEF Passes, workerVars, allVars
<1> QED BY <1>1, <1>2, <1>3, <1>4, <1>5, <1>6, <1>7, <1>8, <1>9, <1>10, StepPieces

(* What becomes of the envelopes of a job: a hand-off sends one more.      *)
LEMMA SentStep ==
  ASSUME WorkerInv, [WorkerNext]_allVars, NEW k \in Jobs
  PROVE  \/ wire'[k] \cup accepted'[k] \subseteq Sent(k)
         \/ \E s \in Slots : /\ Forward(s) /\ exec[s].job = k
                             /\ wire'[k] \cup accepted'[k] \subseteq Sent(k) \cup {exec[s].art}
<1>0. /\ wire \in [Jobs -> SUBSET Nat] /\ accepted \in [Jobs -> SUBSET Nat]
      /\ WorkerTypeOK /\ TaskShape
  BY WorkerInvParts DEF WorkerInv
<1>1. ASSUME NEW s \in Slots, Forward(s)
      PROVE  \/ wire'[k] \cup accepted'[k] \subseteq Sent(k)
             \/ /\ exec[s].job = k
                /\ wire'[k] \cup accepted'[k] \subseteq Sent(k) \cup {exec[s].art}
  <2>1. \/ wire' = wire
        \/ wire' = [wire EXCEPT ![exec[s].job] = @ \cup {exec[s].art}]
    BY <1>0, <1>1, ForwardMoves
  <2>2. accepted' = accepted BY <1>1 DEF Forward
  <2> QED BY <1>0, <2>1, <2>2 DEF Sent
<1>2. ASSUME NEW s \in Slots, Rejected(s) PROVE wire'[k] \cup accepted'[k] \subseteq Sent(k)
  BY <1>0, <1>2 DEF Rejected, Sent
<1>3. ASSUME NEW s \in Slots, Quiet(s) \/ Beats(s) \/ Save(s) \/ Cleanup(s) \/ Release(s)
      PROVE  wire' = wire /\ accepted' = accepted
  BY <1>3 DEF Quiet, Beats, Save, Cleanup, Release, OnlyExec
<1>4. ASSUME NEW s \in Slots, NEW t \in Readings,
             \/ \E j \in Jobs : Dispatch(s, j, t)
             \/ DispatchNone(s, t) \/ Commit(s, t) \/ RaceCommit(s, t)
      PROVE  wire' = wire /\ accepted' = accepted
  BY <1>4 DEF Dispatch, DispatchNone, Commit, RaceCommit, OnlyExec
<1>5. ASSUME NEW p \in Procs, ProcessStep(p) PROVE wire' = wire /\ accepted' = accepted
  BY <1>5 DEF ProcessStep, Stop, Restart, CancelScan, CancelAgain, DeleteCancelled, NotifyCancel
<1>6. ASSUME NEW j \in Jobs, AnalyzerStores(j)
      PROVE  wire'[k] \cup accepted'[k] \subseteq Sent(k)
  <2>1. PICK a \in wire[j] : /\ wire' = [wire EXCEPT ![j] = @ \ {a}]
                             /\ accepted' = [accepted EXCEPT ![j] = @ \cup {a}]
    BY <1>6 DEF AnalyzerStores
  <2> QED BY <1>0, <2>1 DEF Sent
<1>7. ASSUME NEW j \in Jobs, JobStep(j)
      PROVE  AnalyzerStores(j) \/ (wire' = wire /\ accepted' = accepted)
  BY <1>7 DEF JobStep, Submit, RetryScan, SettleDerived, SelectStale, RemoveStale, workerVars
<1>8. ASSUME Passes \/ UNCHANGED allVars PROVE wire' = wire /\ accepted' = accepted
  BY <1>8 DEF Passes, workerVars, allVars
<1>9. ASSUME wire' = wire, accepted' = accepted
      PROVE  wire'[k] \cup accepted'[k] \subseteq Sent(k)
  BY <1>9 DEF Sent
<1> QED BY <1>1, <1>2, <1>3, <1>4, <1>5, <1>6, <1>7, <1>8, <1>9, StepPieces

(* Only a manual retry moves the request a job is on.                      *)
LEMMA RetriedStep ==
  ASSUME WorkerInv, [WorkerNext]_allVars, NEW k \in Jobs
  PROVE  retried'[k] = retried[k] \/ \E t \in Readings : RetryScan(k, t)
<1>0. retried \in [Jobs -> Nat] BY WorkerInvParts
<1>2. ASSUME NEW s \in Slots, NEW e, Works(s, e) PROVE retried' = retried
  BY <1>2 DEF Works
<1>3. ASSUME NEW s \in Slots, NEW t \in Readings,
             \/ \E j \in Jobs : Dispatch(s, j, t)
             \/ DispatchNone(s, t) \/ Commit(s, t) \/ RaceCommit(s, t)
      PROVE  retried' = retried
  BY <1>3 DEF Dispatch, DispatchNone, Commit, RaceCommit, OnlyExec
<1>4. ASSUME NEW s \in Slots, Cleanup(s) \/ Release(s) PROVE retried' = retried
  BY <1>4 DEF Cleanup, Release, OnlyExec
<1>5. ASSUME NEW p \in Procs, ProcessStep(p) PROVE retried' = retried
  BY <1>5 DEF ProcessStep, Stop, Restart, CancelScan, CancelAgain, DeleteCancelled, NotifyCancel
<1>6. ASSUME NEW j \in Jobs, JobStep(j)
      PROVE  retried'[k] = retried[k] \/ \E t \in Readings : RetryScan(k, t)
  <2>1. ASSUME NEW t \in Readings, RetryScan(j, t), j /= k PROVE retried'[k] = retried[k]
    BY <1>0, <2>1 DEF RetryScan
  <2> QED BY <1>6, <2>1
          DEF JobStep, Submit, SettleDerived, SelectStale, RemoveStale, AnalyzerStores, workerVars
<1>7. ASSUME Passes \/ UNCHANGED allVars PROVE retried' = retried
  BY <1>7 DEF Passes, workerVars, allVars
<1> QED BY <1>2, <1>3, <1>4, <1>5, <1>6, <1>7, StepCases

(* What becomes of a task that has a claim after the step.                 *)
LEMMA TaskStep ==
  ASSUME WorkerInv, [WorkerNext]_allVars, NEW r \in Slots, claim'[r] /= NoClaim
  PROVE  \/ exec'[r].phase = "load"
         \/ /\ claim[r] /= NoClaim
            /\ claim'[r].job = claim[r].job /\ claim'[r].epoch = claim[r].epoch
            /\ \/ exec'[r].phase = exec[r].phase /\ exec'[r].art = exec[r].art
               \/ Quiet(r) \/ Beats(r) \/ Save(r) \/ Forward(r) \/ Rejected(r)
<1>0. TypeOK /\ WorkerTypeOK /\ TaskShape /\ exec \in [Slots -> Exec]
  BY WorkerInvParts DEF WorkerInv, FenceInv
<1> DEFINE Stays == /\ claim[r] /= NoClaim
                    /\ claim'[r].job = claim[r].job /\ claim'[r].epoch = claim[r].epoch
           Same == exec'[r].phase = exec[r].phase /\ exec'[r].art = exec[r].art
<1>1. ASSUME NEW s \in Slots, Quiet(s) \/ Beats(s) \/ Save(s) \/ Forward(s) \/ Rejected(s)
      PROVE  Stays /\ (r = s \/ Same)
  <2>1. PICK e : Works(s, e) BY <1>0, <1>1, AllWork
  <2>2. Stays BY <2>1, WorksStore
  <2>3. r /= s => exec'[r] = exec[r] BY <1>0, <2>1 DEF Works, Moves
  <2> QED BY <2>2, <2>3
<1>2. ASSUME NEW s \in Slots, NEW j \in Jobs, NEW t \in Readings, Dispatch(s, j, t)
      PROVE  exec'[r].phase = "load" \/ (Stays /\ Same)
  <2>1. CASE r = s BY <1>0, <1>2, <2>1 DEF Dispatch, IdleExec
  <2>2. CASE r /= s BY <1>2, <2>2, DispatchRows
  <2> QED BY <2>1, <2>2
<1>3. ASSUME claim'[r] = claim[r], exec'[r] = exec[r] PROVE Stays /\ Same
  BY <1>3
<1>4. ASSUME NEW s \in Slots, NEW t \in Readings, DispatchNone(s, t) PROVE Stays /\ Same
  BY <1>0, <1>3, <1>4, NoneRows
<1>5. ASSUME NEW s \in Slots, NEW t \in Readings, Commit(s, t) \/ RaceCommit(s, t)
      PROVE  Stays /\ Same
  <2>1. PICK e \in Exec : /\ exec' = [exec EXCEPT ![s] = e]
                          /\ claim' = [claim EXCEPT ![s] = NoClaim]
    BY <1>5, CommitStep
  <2>2. r /= s BY <1>0, <2>1 DEF TypeOK
  <2> QED BY <1>0, <1>3, <2>1, <2>2 DEF TypeOK
<1>6. ASSUME NEW s \in Slots, Cleanup(s) PROVE Stays /\ Same
  <2>1. claim[s] = NoClaim
    <3>1. TaskOK(exec[s], claim[s], accepted) BY WorkerInvParts
    <3> QED BY <1>6, <3>1 DEF Cleanup, TaskOK
  <2>2. claim' = claim /\ exec' = [exec EXCEPT ![s] = IdleExec] BY <1>6 DEF Cleanup, vars
  <2> QED BY <1>0, <1>3, <2>1, <2>2
<1>7. ASSUME NEW s \in Slots, Release(s) PROVE Stays /\ Same
  <2>1. /\ claim' = [claim EXCEPT ![s] = NoClaim] /\ exec' = [exec EXCEPT ![s] = IdleExec]
    BY <1>7 DEF Release, Abandon
  <2>2. r /= s BY <1>0, <2>1 DEF TypeOK
  <2> QED BY <1>0, <1>3, <2>1, <2>2 DEF TypeOK
<1>8. ASSUME NEW p \in Procs, ProcessStep(p) PROVE Stays /\ Same
  BY <1>8, ProcessTasks
<1>9. ASSUME NEW j \in Jobs, JobStep(j) PROVE Stays /\ Same
  <2>1. exec' = exec
    BY <1>9
    DEF JobStep, Submit, RetryScan, SettleDerived, SelectStale, RemoveStale, AnalyzerStores, workerVars
  <2>2. claim' = claim
    <3>1. ASSUME NEW t \in Readings, Submit(j, t) PROVE claim' = claim
      BY <3>1 DEF Submit, Create
    <3>2. ASSUME NEW t \in Readings, RetryScan(j, t) PROVE claim' = claim
      BY <3>2 DEF RetryScan, ManualRetry
    <3>3. ASSUME SettleDerived(j) PROVE claim' = claim
      BY <3>3 DEF SettleDerived, UpdateDerivedResult
    <3>4. ASSUME SelectStale(j) \/ RemoveStale(j) \/ AnalyzerStores(j) PROVE claim' = claim
      BY <3>4 DEF SelectStale, RemoveStale, AnalyzerStores, vars
    <3> QED BY <1>9, <3>1, <3>2, <3>3, <3>4 DEF JobStep
  <2> QED BY <1>3, <2>1, <2>2
<1>10. ASSUME Passes \/ UNCHANGED allVars PROVE Stays /\ Same
  BY <1>3, <1>10 DEF Passes, Tick, allVars, vars, workerVars
<1> HIDE DEF Stays, Same
<1>11. \/ exec'[r].phase = "load"
       \/ Stays /\ (Same \/ Quiet(r) \/ Beats(r) \/ Save(r) \/ Forward(r) \/ Rejected(r))
  BY <1>1, <1>2, <1>4, <1>5, <1>6, <1>7, <1>8, <1>9, <1>10, StepPieces
<1> QED BY <1>11 DEF Stays, Same

(* The file of a claimed job changes only by its own worker's save.        *)
LEMMA ClaimedFile ==
  ASSUME WorkerInv, PunctualInv, DeletionsInTime, [WorkerNext]_allVars,
         NEW r \in Slots, claim[r] /= NoClaim
  PROVE  spool'[claim[r].job] = spool[claim[r].job] \/ Save(r)
<1> DEFINE k == claim[r].job
<1>1. k \in Jobs /\ heads[k].state \in Active BY KeptLease
<1>2. ASSUME NEW s \in Slots, Save(s), exec[s].job = k PROVE Save(r)
  <2>1. TaskOK(exec[s], claim[s], accepted) BY WorkerInvParts
  <2>2. claim[s] /= NoClaim /\ claim[s].job = k BY <1>2, <2>1 DEF TaskOK, Save
  <2>3. s = r BY <2>2 DEF PunctualInv
  <2> QED BY <1>2, <2>3
<1> QED BY <1>1, <1>2, FileStep

(* A task keeps to the artifact that is in the spool.                      *)
LEMMA ArtStep ==
  ASSUME WorkerInv, PunctualInv, DeletionsInTime, ReportInv, [WorkerNext]_allVars,
         NEW r \in Slots, claim'[r] /= NoClaim
  PROVE  ArtOK(exec'[r], spool'[claim'[r].job], claim'[r].epoch)
<1>0. /\ WorkerTypeOK /\ TaskShape /\ exec \in [Slots -> Exec] /\ spool \in [Jobs -> Nat]
      /\ TaskOK(exec[r], claim[r], accepted)
  BY WorkerInvParts DEF WorkerInv
<1>1. CASE exec'[r].phase = "load" BY <1>1 DEF ArtOK
<1>2. ASSUME claim[r] /= NoClaim, claim'[r].job = claim[r].job, claim'[r].epoch = claim[r].epoch,
             exec'[r].phase /= "load"
      PROVE  ArtOK(exec'[r], spool'[claim'[r].job], claim'[r].epoch)
  <2> DEFINE k == claim[r].job
  <2>1. ArtOK(exec[r], spool[k], claim[r].epoch) BY <1>2 DEF ReportInv
  <2>2. k \in Jobs BY <1>2, KeptLease
  <2>3. ASSUME Save(r) PROVE ArtOK(exec'[r], spool'[k], claim[r].epoch)
    <3>1. PICK e : Moves(r, e) /\ e.phase = "ready" /\ e.art = exec[r].art
      BY <1>0, <2>3, SaveMoves
    <3>2. exec'[r] = e BY <1>0, <3>1 DEF Moves
    <3>3. exec[r].job = k BY <1>0, <2>3 DEF Save, TaskOK
    <3>4. spool'[k] = exec[r].art BY <1>0, <2>2, <2>3, <3>3 DEF Save
    <3> QED BY <3>1, <3>2, <3>4 DEF ArtOK
  <2>4. ASSUME NEW e, Moves(r, e), ArtAdvance(r, e), ~ Save(r)
        PROVE  ArtOK(exec'[r], spool'[k], claim[r].epoch)
    <3>1. exec'[r] = e /\ e.job = exec[r].job /\ exec[r].phase \in Claimed
      BY <1>0, <2>4 DEF Moves, Advance
    <3>2. e.job = k BY <1>0, <1>2, <3>1 DEF TaskOK
    <3>3. spool'[k] = spool[k] BY <1>2, <2>4, ClaimedFile
    <3> QED BY <2>1, <2>4, <3>1, <3>2, <3>3 DEF ArtAdvance
  <2>5. ASSUME exec'[r].phase = exec[r].phase, exec'[r].art = exec[r].art, ~ Save(r)
        PROVE  ArtOK(exec'[r], spool'[k], claim[r].epoch)
    <3>1. spool'[k] = spool[k] BY <1>2, <2>5, ClaimedFile
    <3> QED BY <2>1, <2>5, <3>1 DEF ArtOK
  <2>6. ASSUME Quiet(r) \/ Beats(r) \/ Forward(r) \/ Rejected(r)
        PROVE  \E e : Moves(r, e) /\ ArtAdvance(r, e)
    BY <1>0, <2>6, ForwardMoves, RejectedMoves DEF Quiet, Beats
  <2> HIDE DEF k
  <2>7. ArtOK(exec'[r], spool'[k], claim[r].epoch)
    BY <1>2, <2>3, <2>4, <2>5, <2>6, TaskStep
  <2> QED BY <1>2, <2>7 DEF k
<1> QED BY <1>1, <1>2, TaskStep

LEMMA ReportStep ==
  ASSUME NoHaste, WorkerInv, PunctualInv, DeletionsInTime, ReportInv, [WorkerNext]_allVars
  PROVE  ReportInv'
<1>0. /\ TypeOK /\ TypeOK' /\ SnapshotCurrent
      /\ spool \in [Jobs -> Nat] /\ spool' \in [Jobs -> Nat]
      /\ wire \in [Jobs -> SUBSET Nat] /\ accepted \in [Jobs -> SUBSET Nat]
      /\ retried \in [Jobs -> Nat]
  <2>1. WorkerInv' BY WorkerInvStep
  <2>2. spool' \in [Jobs -> Nat] /\ TypeOK' BY <2>1 DEF WorkerInv, WorkerTypeOK
  <2> QED BY <2>2, WorkerInvParts DEF WorkerInv, FenceInv
<1>1. \A k \in Jobs : heads[k].epoch \in Nat /\ heads'[k].epoch \in Nat BY <1>0 DEF TypeOK, Head
<1> DEFINE QA == Queued \cup Active
           Sent1(k) == wire'[k] \cup accepted'[k]
<1>2. "evicted" \notin QA /\ "absent" \notin QA /\ "pending" \in QA
      /\ "failed" \notin QA /\ "cancelled" \notin QA
  BY DEF Queued, Active
<1>3. \A k \in Jobs : /\ Sent(k) \subseteq Nat /\ spool[k] \in Nat /\ spool'[k] \in Nat
                      /\ retried[k] \in Nat
  BY <1>0 DEF Sent
<1>4. \A k \in Jobs :
        /\ heads[k].state = "absent" => heads[k].epoch = 0
        /\ heads[k].state /= "evicted" =>
             spool[k] <= heads[k].epoch /\ \A a \in Sent(k) : a <= heads[k].epoch
        /\ heads[k].state \in QA => \A a \in Sent(k) : a > retried[k] => a = spool[k]
        /\ \A a, b \in Sent(k) : a > retried[k] /\ b > retried[k] => a = b
  BY DEF ReportInv
<1>5. ASSUME NEW k \in Jobs
      PROVE  /\ heads'[k].state = "absent" => heads'[k].epoch = 0
             /\ heads'[k].state /= "evicted" =>
                  spool'[k] <= heads'[k].epoch /\ \A a \in Sent1(k) : a <= heads'[k].epoch
             /\ heads'[k].state \in QA => \A a \in Sent1(k) : a > retried'[k] => a = spool'[k]
             /\ \A a, b \in Sent1(k) : a > retried'[k] /\ b > retried'[k] => a = b
  <2>1. ASSUME NEW t \in Readings, RetryScan(k, t)
        PROVE  /\ heads'[k].state = "pending" /\ Sent1(k) = Sent(k) /\ spool'[k] = 0
               /\ heads[k].state /= "evicted" /\ heads'[k].epoch = heads[k].epoch
               /\ retried'[k] = heads[k].epoch
    <3>1. spool[k] = NoArtifact BY <2>1 DEF RetryScan, NoHaste, CleanedUp
    <3>2. retried'[k] = heads[k].epoch BY <1>0, <2>1 DEF RetryScan
    <3> QED BY <1>0, <2>1, <3>1, <3>2, RetryRows DEF Sent, NoArtifact
  <2>2. ASSUME NEW t \in Readings, RetryScan(k, t)
        PROVE  /\ heads'[k].state = "absent" => heads'[k].epoch = 0
               /\ heads'[k].state /= "evicted" =>
                    spool'[k] <= heads'[k].epoch /\ \A a \in Sent1(k) : a <= heads'[k].epoch
               /\ heads'[k].state \in QA => \A a \in Sent1(k) : a > retried'[k] => a = spool'[k]
               /\ \A a, b \in Sent1(k) : a > retried'[k] /\ b > retried'[k] => a = b
    <3> HIDE DEF Sent1, QA
    <3>1. \A a \in Sent1(k) : a \in Nat /\ a <= heads[k].epoch BY <1>3, <1>4, <2>1, <2>2
    <3> QED BY <1>1, <1>3, <2>1, <2>2, <3>1
  <2>3. ASSUME RowKept(k), retried'[k] = retried[k], Sent1(k) \subseteq Sent(k),
               spool'[k] = spool[k] \/ (spool'[k] = 0 /\ heads'[k].state \notin QA)
        PROVE  /\ heads'[k].state = "absent" => heads'[k].epoch = 0
               /\ heads'[k].state /= "evicted" =>
                    spool'[k] <= heads'[k].epoch /\ \A a \in Sent1(k) : a <= heads'[k].epoch
               /\ heads'[k].state \in QA => \A a \in Sent1(k) : a > retried'[k] => a = spool'[k]
               /\ \A a, b \in Sent1(k) : a > retried'[k] /\ b > retried'[k] => a = b
    <3> HIDE DEF Sent1
    <3>1. \A a \in Sent1(k) : a \in Nat /\ a \in Sent(k) BY <1>3, <2>3
    <3>2. \A a, b \in Sent1(k) : a > retried'[k] /\ b > retried'[k] => a = b
      BY <1>4, <2>3, <3>1
    <3>3. CASE heads'[k].state = "evicted" BY <1>2, <3>2, <3>3
    <3>4. CASE /\ heads[k].state /= "evicted" /\ heads'[k].epoch >= heads[k].epoch
               /\ heads'[k].state \in QA => heads[k].state \in QA
               /\ heads'[k].state = "absent" =>
                    heads[k].state = "absent" /\ heads'[k].epoch = heads[k].epoch
      <4> HIDE DEF QA
      <4> QED BY <1>1, <1>3, <1>4, <2>3, <3>1, <3>2, <3>4
    <3>5. CASE heads[k].state = "absent" /\ heads'[k].state = "pending" /\ heads'[k].epoch = 0
      <4> HIDE DEF QA
      <4>1. spool[k] <= 0 /\ \A a \in Sent1(k) : a <= 0 BY <1>4, <3>1, <3>5
      <4> QED BY <1>1, <1>2, <1>3, <2>3, <3>1, <3>2, <3>5, <4>1
    <3> QED BY <2>3, <3>3, <3>4, <3>5 DEF RowKept
  <2>4. ASSUME NEW s \in Slots, exec[s].job = k, exec[s].phase \in {"save", "ready"}
        PROVE  /\ heads[k].state \in QA /\ claim[s].epoch = heads[k].epoch
               /\ ArtOK(exec[s], spool[k], heads[k].epoch)
    <3>1. TaskOK(exec[s], claim[s], accepted) BY WorkerInvParts
    <3>2. claim[s] /= NoClaim /\ claim[s].job = k BY <2>4, <3>1 DEF TaskOK
    <3>3. heads[k].state \in Active /\ heads[k].holder = s BY <3>2, KeptLease
    <3> QED BY <1>0, <3>2, <3>3 DEF SnapshotCurrent, ReportInv
  <2>5. ASSUME NEW s \in Slots, Save(s), exec[s].job = k
        PROVE  /\ heads'[k].state = "absent" => heads'[k].epoch = 0
               /\ heads'[k].state /= "evicted" =>
                    spool'[k] <= heads'[k].epoch /\ \A a \in Sent1(k) : a <= heads'[k].epoch
               /\ heads'[k].state \in QA => \A a \in Sent1(k) : a > retried'[k] => a = spool'[k]
               /\ \A a, b \in Sent1(k) : a > retried'[k] /\ b > retried'[k] => a = b
    <3>1. /\ heads' = heads /\ Sent1(k) = Sent(k) /\ retried' = retried /\ spool'[k] = exec[s].art
          /\ exec[s].phase = "save"
      BY <1>0, <2>5 DEF Save, Sent, vars
    <3>2. exec[s].art = heads[k].epoch /\ spool[k] = 0 /\ heads[k].state \in QA
      BY <2>4, <2>5, <3>1 DEF ArtOK, NoArtifact
    <3> HIDE DEF Sent1, QA
    <3>3. \A a \in Sent(k) : ~ a > retried[k] BY <1>3, <1>4, <3>2
    <3> QED BY <1>1, <1>2, <1>3, <1>4, <3>1, <3>2, <3>3
  <2>6. ASSUME NEW s \in Slots, Forward(s), exec[s].job = k,
               Sent1(k) \subseteq Sent(k) \cup {exec[s].art}
        PROVE  /\ heads'[k].state = "absent" => heads'[k].epoch = 0
               /\ heads'[k].state /= "evicted" =>
                    spool'[k] <= heads'[k].epoch /\ \A a \in Sent1(k) : a <= heads'[k].epoch
               /\ heads'[k].state \in QA => \A a \in Sent1(k) : a > retried'[k] => a = spool'[k]
               /\ \A a, b \in Sent1(k) : a > retried'[k] /\ b > retried'[k] => a = b
    <3>1. /\ heads' = heads /\ retried' = retried /\ spool' = spool /\ exec[s].phase = "ready"
      BY <2>6 DEF Forward, vars
    <3>2. exec[s].art = spool[k] /\ heads[k].state \in QA BY <2>4, <2>6, <3>1 DEF ArtOK
    <3> HIDE DEF Sent1, QA
    <3>3. \A a \in Sent1(k) : a \in Nat /\ (a \in Sent(k) \/ a = spool[k])
      BY <1>3, <2>6, <3>2
    <3>4. \A a \in Sent1(k) : a > retried[k] => a = spool[k] BY <1>4, <3>2, <3>3
    <3> QED BY <1>1, <1>2, <1>3, <1>4, <3>1, <3>2, <3>3, <3>4
  <2> HIDE DEF Sent1, QA
  <2>7. CASE \E s \in Slots : Save(s) /\ exec[s].job = k BY <2>5, <2>7
  <2>8. CASE \E s \in Slots : /\ Forward(s) /\ exec[s].job = k
                              /\ Sent1(k) \subseteq Sent(k) \cup {exec[s].art}
    BY <2>6, <2>8
  <2>9. CASE \E t \in Readings : RetryScan(k, t) BY <2>2, <2>9
  <2>10. CASE /\ ~ \E s \in Slots : Save(s) /\ exec[s].job = k
              /\ ~ \E s \in Slots : /\ Forward(s) /\ exec[s].job = k
                                    /\ Sent1(k) \subseteq Sent(k) \cup {exec[s].art}
              /\ ~ \E t \in Readings : RetryScan(k, t)
    <3>1. RowKept(k) BY <2>10, RowStep
    <3>2. retried'[k] = retried[k] BY <2>10, RetriedStep
    <3>3. Sent1(k) \subseteq Sent(k) BY <2>10, SentStep DEF Sent1
    <3>4. spool'[k] = spool[k] \/ (spool'[k] = 0 /\ heads'[k].state \notin QA)
      BY <2>10, FileStep DEF QA, NoArtifact
    <3> QED BY <2>3, <3>1, <3>2, <3>3, <3>4
  <2> QED BY <2>7, <2>8, <2>9, <2>10
<1>6. \A r \in Slots : claim'[r] /= NoClaim =>
        ArtOK(exec'[r], spool'[claim'[r].job], claim'[r].epoch)
  BY ArtStep
<1> QED BY <1>5, <1>6 DEF ReportInv, Sent

(* While heartbeats come in time and no retry overtakes the clean-up,      *)
(* Analyzer never stores two envelopes for one submission or manual retry: *)
(* crashes, lost answers, spool failures and reclaimed leases end in the   *)
(* artifact of the first hand-off being sent again.                        *)
THEOREM ReportsAreUnique == Punctual /\ NoHaste /\ WorkerSpec => []OneReportPerRequest
<1> SUFFICES ASSUME Punctual, NoHaste PROVE WorkerSpec => []OneReportPerRequest
  OBVIOUS
<1>1. WorkerInit => ReportInv
  BY DEF WorkerInit, Init, ReportInv, Sent, EmptyHead, NoArtifact, Queued, Active
<1>2. ReportInv => OneReportPerRequest BY DEF ReportInv, OneReportPerRequest, Sent
<1> QED BY <1>1, <1>2, WorkerInvInit, WorkerInvStep, PunctualInit, PunctualStep, DeletionsInit,
           DeletionsStep, ReportStep, PTL DEF WorkerSpec

-----------------------------------------------------------------------------
(* An acknowledged execution is recorded, when clocks are read afresh.     *)

FreshReadings == ClockLag = 0

(* A head is held by whoever held it or has just claimed it, its expiry    *)
(* moves only by its holder's renewal, and heartbeats are clock readings.  *)
LEMMA LeaseMoves ==
  ASSUME WorkerInv, [WorkerNext]_allVars, NEW k \in Jobs
  PROVE  /\ \/ heads'[k].heartbeat = heads[k].heartbeat
            \/ heads'[k].heartbeat = Null
            \/ heads'[k].heartbeat \in Readings
         /\ \A r \in Slots : heads'[k].holder = r =>
              \/ \E t \in Readings : Dispatch(r, k, t)
              \/ heads[k].holder = r /\ heads'[k].expires = heads[k].expires
              \/ heads[k].holder = r /\ claim[r].job = k /\ \E t \in Readings : Renew(r, t)
<1>0. TypeOK BY DEF WorkerInv, FenceInv
<1> DEFINE Moved == /\ \/ heads'[k].heartbeat = heads[k].heartbeat
                       \/ heads'[k].heartbeat = Null
                       \/ heads'[k].heartbeat \in Readings
                    /\ \A r \in Slots : heads'[k].holder = r =>
                         \/ \E t \in Readings : Dispatch(r, k, t)
                         \/ heads[k].holder = r /\ heads'[k].expires = heads[k].expires
                         \/ /\ heads[k].holder = r /\ claim[r].job = k
                            /\ \E t \in Readings : Renew(r, t)
<1>1. ASSUME heads'[k].holder = heads[k].holder, heads'[k].expires = heads[k].expires,
             heads'[k].heartbeat = heads[k].heartbeat
      PROVE  Moved
  BY <1>1
<1>2. ASSUME heads'[k].holder = NoSlot, heads'[k].heartbeat = Null PROVE Moved
  BY <1>2, SlotAssumption
<1>3. ASSUME NEW s \in Slots, NEW e, Works(s, e) PROVE Moved
  <2>1. CASE UNCHANGED vars BY <1>1, <2>1 DEF vars
  <2>2. ASSUME NEW t \in Readings, Renew(s, t) PROVE Moved
    <3>1. CASE k /= claim[s].job BY <1>0, <1>1, <2>2, <3>1, RenewRows
    <3>2. CASE k = claim[s].job
      <4>1. heads'[k].heartbeat = t BY <1>0, <2>2, <3>2, RenewRows
      <4>2. heads'[k].holder = heads[k].holder BY <1>3, WorksStore
      <4>3. heads[k].holder = s BY <2>2, <3>2 DEF Renew, LeasedRow
      <4> QED BY <2>2, <3>2, <4>1, <4>2, <4>3
    <3> QED BY <3>1, <3>2
  <2> QED BY <1>3, <2>1, <2>2 DEF Works
<1>4. ASSUME NEW s \in Slots, NEW j \in Jobs, NEW t \in Readings, Dispatch(s, j, t) PROVE Moved
  <2>1. CASE k = j
    <3>1. heads'[k].holder = s /\ heads'[k].heartbeat = t BY <1>4, <2>1, DispatchRows
    <3> QED BY <1>4, <2>1, <3>1
  <2>2. CASE k /= j
    <3> HIDE DEF Moved
    <3> QED BY <1>1, <1>2, <1>4, <2>2, DispatchRows
  <2> QED BY <2>1, <2>2
<1> HIDE DEF Moved
<1>5. ASSUME NEW s \in Slots, NEW t \in Readings, DispatchNone(s, t) PROVE Moved
  BY <1>0, <1>1, <1>2, <1>5, NoneRows
<1>6. ASSUME NEW s \in Slots, NEW t \in Readings, Commit(s, t) \/ RaceCommit(s, t) PROVE Moved
  <2>1. PICK e \in Exec :
          LET j == exec[s].job
          IN  /\ heads'[j].holder = NoSlot /\ heads'[j].heartbeat = Null
              /\ \A i \in Jobs \ {j} : heads'[i] = heads[i]
    BY <1>6, CommitStep
  <2> QED BY <1>1, <1>2, <2>1
<1>7. ASSUME NEW s \in Slots, Cleanup(s) \/ Release(s) PROVE Moved
  BY <1>1, <1>7 DEF Cleanup, Release, Abandon, vars
<1>8. ASSUME NEW p \in Procs, ProcessStep(p) PROVE Moved
  <2>1. ASSUME NEW j \in Jobs, CancelScan(p, j) PROVE Moved
    BY <1>0, <1>1, <2>1, CancelRow DEF CancelScan
  <2>2. ASSUME NEW j \in Jobs, CancelAgain(p, j) PROVE Moved
    BY <1>1, <2>2 DEF CancelAgain, vars
  <2>3. ASSUME Stop(p) \/ Restart(p) \/ DeleteCancelled(p) \/ NotifyCancel(p) PROVE Moved
    BY <1>1, <2>3 DEF Stop, Restart, DeleteCancelled, NotifyCancel, vars
  <2> QED BY <1>8, <2>1, <2>2, <2>3 DEF ProcessStep
<1>9. ASSUME NEW j \in Jobs, JobStep(j) PROVE Moved
  <2>1. ASSUME NEW t \in Readings, Submit(j, t) PROVE Moved
    BY <1>0, <1>1, <1>2, <2>1, SubmitRows
  <2>2. ASSUME NEW t \in Readings, RetryScan(j, t) PROVE Moved
    BY <1>0, <1>1, <1>2, <2>2, RetryRows
  <2>3. ASSUME SettleDerived(j) PROVE Moved BY <1>0, <1>1, <2>3, SettleRows
  <2>4. ASSUME SelectStale(j) \/ RemoveStale(j) \/ AnalyzerStores(j) PROVE Moved
    BY <1>1, <2>4 DEF SelectStale, RemoveStale, AnalyzerStores, vars
  <2> QED BY <1>9, <2>1, <2>2, <2>3, <2>4 DEF JobStep
<1>10. ASSUME Passes \/ UNCHANGED allVars PROVE Moved
  BY <1>1, <1>10 DEF Passes, Tick, allVars, vars
<1>11. Moved
  BY <1>3, <1>4, <1>5, <1>6, <1>7, <1>8, <1>9, <1>10, StepCases
<1> QED BY <1>11 DEF Moved

(* The clock moves forward, and with Passes only.                          *)
LEMMA ClockStep ==
  ASSUME WorkerInv, [WorkerNext]_allVars
  PROVE  clock \in Nat /\ clock' \in Nat /\ clock' >= clock
<1>0. TypeOK /\ clock \in Nat BY DEF WorkerInv, FenceInv, TypeOK
<1>1. clock' = clock \/ clock' = clock + 1
  <2>1. ASSUME NEW s \in Slots, NEW e, Works(s, e) PROVE clock' = clock BY <2>1, WorksStore
  <2>2. ASSUME NEW s \in Slots, NEW j \in Jobs, NEW t \in Readings, Dispatch(s, j, t)
        PROVE  clock' = clock
    BY <2>2, DispatchRows
  <2>3. ASSUME NEW s \in Slots, NEW t \in Readings, DispatchNone(s, t) PROVE clock' = clock
    BY <1>0, <2>3, NoneRows
  <2>4. ASSUME NEW s \in Slots, NEW t \in Readings, Commit(s, t) \/ RaceCommit(s, t)
        PROVE  clock' = clock
    BY <2>4 DEF Commit, RaceCommit, Complete
  <2>5. ASSUME NEW s \in Slots, Cleanup(s) \/ Release(s) PROVE clock' = clock
    BY <2>5 DEF Cleanup, Release, Abandon, vars
  <2>6. ASSUME NEW p \in Procs, ProcessStep(p) PROVE clock' = clock
    BY <2>6 DEF ProcessStep, Stop, Restart, CancelScan, RequestCancel, CancelAgain,
                DeleteCancelled, NotifyCancel, vars
  <2>7. ASSUME NEW j \in Jobs, JobStep(j) PROVE clock' = clock
    BY <2>7 DEF JobStep, Submit, Create, RetryScan, ManualRetry, SettleDerived,
                UpdateDerivedResult, SelectStale, RemoveStale, AnalyzerStores, vars
  <2>8. ASSUME Passes \/ UNCHANGED allVars PROVE clock' = clock \/ clock' = clock + 1
    BY <2>8 DEF Passes, Tick, allVars, vars
  <2> QED BY <2>1, <2>2, <2>3, <2>4, <2>5, <2>6, <2>7, <2>8, StepCases
<1> QED BY <1>0, <1>1

(* A task that is in the race with a result after the step was so before,  *)
(* or has just been refused although its row was read at the present time. *)
LEMMA RaceStep ==
  ASSUME WorkerInv, [WorkerNext]_allVars, NEW r \in Slots,
         exec'[r].phase \in {"race", "raceCommit"}, exec'[r].outcome = "result"
  PROVE  /\ claim[r] /= NoClaim /\ claim'[r].job = claim[r].job
         /\ \/ exec[r].phase \in {"race", "raceCommit"} /\ exec[r].outcome = "result"
            \/ \E t \in Readings : ~ LeasedRow(r, t)
         /\ \A t \in Readings : ~ Dispatch(r, claim[r].job, t)
<1>0. TypeOK /\ exec \in [Slots -> Exec] BY WorkerInvParts DEF FenceInv
<1>1. exec'[r] /= IdleExec /\ exec'[r].phase /= "load" /\ exec'[r].phase /= "cleanup"
  BY DEF IdleExec
<1>2. \A s \in Slots : TaskOK(exec[s], claim[s], accepted) BY WorkerInvParts
<1>3. WorkerInv' BY WorkerInvStep
<1>4. claim'[r] /= NoClaim
  <2>1. IF exec'[r].phase \in {"idle", "cleanup"}
        THEN claim'[r] = NoClaim
        ELSE claim'[r] /= NoClaim /\ exec'[r].job = claim'[r].job
    BY <1>3 DEF WorkerInv, WorkerTypeOK
  <2> QED BY <2>1
<1>5. claim[r] /= NoClaim /\ claim'[r].job = claim[r].job
  BY <1>1, <1>4, TaskStep
<1>6. \A j \in Jobs : \A t \in Readings : ~ Dispatch(r, j, t)
  BY <1>0, <1>1 DEF Dispatch, IdleExec
<1>7. ASSUME NEW s \in Slots, NEW e, Works(s, e)
      PROVE  \/ exec[r].phase \in {"race", "raceCommit"} /\ exec[r].outcome = "result"
             \/ \E t \in Readings : ~ LeasedRow(r, t)
  <2>1. exec' = [exec EXCEPT ![s] = e] /\ Advance(s, e) BY <1>7 DEF Works, Moves
  <2>2. CASE r = s
    <3>1. exec'[r] = e BY <1>0, <2>1, <2>2
    <3> QED BY <2>1, <2>2, <3>1 DEF Advance
  <2>3. CASE r /= s
    <3>1. exec'[r] = exec[r] BY <1>0, <2>1, <2>3
    <3> QED BY <3>1
  <2> QED BY <2>2, <2>3
<1>8. ASSUME exec'[r].phase = exec[r].phase, exec'[r].outcome = exec[r].outcome
      PROVE  exec[r].phase \in {"race", "raceCommit"} /\ exec[r].outcome = "result"
  BY <1>8
<1>9. ASSUME NEW s \in Slots, NEW j \in Jobs, NEW t \in Readings, Dispatch(s, j, t)
      PROVE  exec'[r] = exec[r]
  <2>1. r /= s BY <1>6, <1>9
  <2> QED BY <1>9, <2>1, DispatchRows
<1>10. ASSUME NEW s \in Slots, NEW t \in Readings, DispatchNone(s, t) PROVE exec'[r] = exec[r]
  BY <1>10 DEF DispatchNone
<1>11. ASSUME NEW s \in Slots, NEW t \in Readings, Commit(s, t) \/ RaceCommit(s, t)
       PROVE  exec'[r] = exec[r]
  <2>1. PICK e \in Exec : /\ exec' = [exec EXCEPT ![s] = e]
                          /\ e = IdleExec \/ e.phase = "cleanup"
    BY <1>11, CommitStep
  <2> QED BY <1>0, <1>1, <2>1
<1>12. ASSUME NEW s \in Slots, Cleanup(s) \/ Release(s) PROVE exec'[r] = exec[r]
  <2>1. exec' = [exec EXCEPT ![s] = IdleExec] BY <1>12 DEF Cleanup, Release
  <2> QED BY <1>0, <1>1, <2>1
<1>13. ASSUME NEW p \in Procs, ProcessStep(p)
       PROVE  exec'[r].phase = exec[r].phase /\ exec'[r].outcome = exec[r].outcome
  BY <1>1, <1>13, ProcessTasks
<1>14. ASSUME NEW j \in Jobs, JobStep(j) PROVE exec'[r] = exec[r]
  BY <1>14
  DEF JobStep, Submit, RetryScan, SettleDerived, SelectStale, RemoveStale, AnalyzerStores, workerVars
<1>15. ASSUME Passes \/ UNCHANGED allVars PROVE exec'[r] = exec[r]
  BY <1>15 DEF Passes, workerVars, allVars
<1>16. \/ exec[r].phase \in {"race", "raceCommit"} /\ exec[r].outcome = "result"
       \/ \E t \in Readings : ~ LeasedRow(r, t)
  BY <1>7, <1>8, <1>9, <1>10, <1>11, <1>12, <1>13, <1>14, <1>15, StepCases
<1>17. claim[r].job \in Jobs BY <1>0, <1>5 DEF TypeOK, Claims
<1> QED BY <1>5, <1>6, <1>16, <1>17

LEMMA AckStep ==
  ASSUME FreshReadings, WorkerInv, AckInv, [WorkerNext]_allVars
  PROVE  AckInv'
<1>0. /\ TypeOK /\ TypeOK' /\ SnapshotCurrent /\ \A g \in Targets : opLease[g] = NoOpLease
  BY WorkerInvParts, WorkerInvStep DEF WorkerInv, FenceInv
<1>1. Readings = {clock} /\ clock \in Nat /\ clock' \in Nat /\ clock' >= clock
  BY ClockStep DEF Readings, FreshReadings
<1>2. ASSUME NEW k \in Jobs PROVE heads'[k].heartbeat <= clock'
  <2>1. heads[k].heartbeat <= clock /\ heads[k].heartbeat \in Int /\ heads'[k].heartbeat \in Int
    BY <1>0 DEF AckInv, TypeOK, Head, Times, Null
  <2>2. \/ heads'[k].heartbeat = heads[k].heartbeat
        \/ heads'[k].heartbeat = -1
        \/ heads'[k].heartbeat = clock
    BY <1>1, LeaseMoves DEF Null
  <2> QED BY <1>1, <2>1, <2>2
<1>3. ASSUME NEW r \in Slots, exec'[r].phase \in {"race", "raceCommit"},
             exec'[r].outcome = "result",
             heads'[claim'[r].job].holder = r, heads'[claim'[r].job].expires > clock'
      PROVE  FALSE
  <2> DEFINE k == claim[r].job
  <2>1. /\ claim[r] /= NoClaim /\ claim'[r].job = k
        /\ \/ exec[r].phase \in {"race", "raceCommit"} /\ exec[r].outcome = "result"
           \/ \E t \in Readings : ~ LeasedRow(r, t)
        /\ \A t \in Readings : ~ Dispatch(r, k, t)
    BY <1>3, RaceStep
  <2>2. k \in Jobs BY <1>0, <2>1 DEF TypeOK, Claims
  <2>3. TargetOf[k] \in Targets /\ heads[k].expires \in Int /\ heads'[k].expires \in Int
    BY <1>0, <2>2, TargetAssumption DEF TypeOK, Head, Times, Null
  <2> HIDE DEF k
  <2>4. heads[k].holder = r BY <1>3, <2>1, <2>2, LeaseMoves
  <2>5. ASSUME heads[k].expires > clock PROVE FALSE
    <3>1. heads[k].state \in Active /\ heads[k].epoch = claim[r].epoch
      BY <1>0, <2>2, <2>4 DEF SnapshotCurrent, k
    <3>2. opLease[TargetOf[k]].expires = -1 BY <1>0, <2>3 DEF NoOpLease, Null
    <3>3. heads[k].heartbeat <= clock BY <2>2 DEF AckInv
    <3>4. LeasedRow(r, clock)
      BY <1>1, <2>1, <2>4, <2>5, <3>1, <3>2, <3>3 DEF LeasedRow, k
    <3>5. exec[r].phase \in {"race", "raceCommit"} /\ exec[r].outcome = "result"
      BY <1>1, <2>1, <3>4
    <3> QED BY <2>4, <2>5, <3>5 DEF AckInv, k
  <2>6. CASE heads'[k].expires = heads[k].expires
    BY <1>1, <1>3, <2>1, <2>3, <2>5, <2>6
  <2>7. ASSUME NEW t \in Readings, Renew(r, t) PROVE FALSE
    <3>1. heads[k].expires > clock BY <1>1, <2>7 DEF Renew, LeasedRow, k
    <3> QED BY <2>5, <3>1
  <2> QED BY <1>3, <2>1, <2>2, <2>6, <2>7, LeaseMoves
<1> QED BY <1>2, <1>3 DEF AckInv

(* A worker whose envelope Analyzer has acknowledged and whose lease holds *)
(* ends its job as succeeded: no cancellation, shutdown, timeout or race   *)
(* in _finish_claim turns the outcome into another.                        *)
THEOREM AcknowledgementsAreRecorded == FreshReadings /\ WorkerSpec => AcknowledgedIsRecorded
<1> SUFFICES ASSUME FreshReadings PROVE WorkerSpec => AcknowledgedIsRecorded
  OBVIOUS
<1>1. WorkerInit => AckInv
  BY DEF WorkerInit, Init, AckInv, EmptyHead, Null, IdleExec
<1>2. WorkerInv /\ AckInv /\ [WorkerNext]_allVars =>
        [\A s \in Slots :
           /\ exec[s].outcome = "result"
           /\ claim[s] /= NoClaim
           /\ heads[claim[s].job] /= heads'[claim[s].job]
           /\ heads'[claim[s].job].state \in Terminal
           /\ HoldsLease(s)
           => heads'[claim[s].job].state = "succeeded"]_allVars
  <2> SUFFICES ASSUME WorkerInv, AckInv, [WorkerNext]_allVars, NEW s \in Slots,
                      exec[s].outcome = "result", claim[s] /= NoClaim,
                      heads'[claim[s].job].state \in Terminal,
                      heads[claim[s].job].holder = s
               PROVE  heads'[claim[s].job].state = "succeeded"
    BY DEF HoldsLease
  <2> DEFINE j == claim[s].job
  <2>0. TypeOK /\ OnlyActiveHeadsLeased BY DEF WorkerInv, FenceInv
  <2>1. j \in Jobs BY <2>0 DEF TypeOK, Claims
  <2>2. heads[j].state \in Active BY <2>0, <2>1, SlotAssumption DEF OnlyActiveHeadsLeased
  <2>3. /\ heads'[j].state /= heads[j].state
        /\ heads[j].state \notin Queued \cup Terminal \cup {"absent"}
        /\ heads'[j].state \notin Active
    BY <2>2 DEF Active, Terminal, Queued
  <2>4. ASSUME NEW r \in Slots, NEW e, Works(r, e) PROVE FALSE
    BY <2>1, <2>3, <2>4, WorksStore
  <2>5. ASSUME NEW r \in Slots, NEW i \in Jobs, NEW t \in Readings, Dispatch(r, i, t) PROVE FALSE
    BY <2>1, <2>3, <2>5, DispatchRows DEF Active
  <2>6. ASSUME NEW r \in Slots, NEW t \in Readings, DispatchNone(r, t) PROVE FALSE
    BY <2>0, <2>1, <2>3, <2>6, NoneRows
  <2>7. ASSUME NEW r \in Slots, NEW t \in Readings, Commit(r, t) \/ RaceCommit(r, t)
        PROVE  heads'[j].state = "succeeded"
    <3>1. PICK e \in Exec :
            LET i == exec[r].job
            IN  /\ i \in Jobs /\ claim[r].job = i /\ heads[i].holder = r
                /\ \A k \in Jobs \ {i} : heads'[k] = heads[k]
      BY <2>7, CommitStep
    <3>2. exec[r].job = j BY <2>1, <2>3, <3>1
    <3>3. r = s BY <3>1, <3>2
    <3>4. CASE RaceCommit(r, t)
      <4>1. exec[s].phase = "raceCommit" /\ heads[j].expires > t
        BY <3>3, <3>4 DEF RaceCommit, Complete, LeasedRow
      <4>2. t = clock BY <2>0 DEF Readings, FreshReadings, TypeOK
      <4> QED BY <4>1, <4>2 DEF AckInv
    <3>5. CASE Commit(r, t)
      <4>1. Decision(exec[s], claim[s]) = "succeeded" BY DecisionFacts
      <4>2. PICK d \in DerivedOf("succeeded") : Complete(s, t, "succeeded", d)
        BY <3>3, <3>5, <4>1 DEF Commit
      <4>3. heads'[j] = CompletedHead(heads[j], claim[s], t, "succeeded", d)
        BY <2>0, <2>1, <4>2 DEF Complete, TypeOK
      <4>4. heads[j] \in Head /\ claim[s] \in Claims /\ t \in Nat
        BY <2>0, <2>1, ReadingsNat DEF TypeOK
      <4>5. d \in DerivedStates /\ "succeeded" \in Queued \cup Terminal
        BY DEF DerivedOf, DerivedStates, Terminal
      <4> QED BY <4>3, <4>4, <4>5, CompletedHeadRow
    <3> QED BY <2>7, <3>4, <3>5
  <2>8. ASSUME NEW r \in Slots, Cleanup(r) \/ Release(r) PROVE FALSE
    BY <2>3, <2>8 DEF Cleanup, Release, Abandon, vars
  <2>9. ASSUME NEW p \in Procs, ProcessStep(p) PROVE FALSE
    <3>1. ASSUME NEW i \in Jobs, CancelScan(p, i) PROVE FALSE
      BY <2>0, <2>1, <2>3, <3>1, CancelRow DEF CancelScan, Active
    <3>2. ASSUME NEW i \in Jobs, CancelAgain(p, i) PROVE FALSE
      BY <2>3, <3>2 DEF CancelAgain, vars
    <3>3. ASSUME Stop(p) \/ Restart(p) \/ DeleteCancelled(p) \/ NotifyCancel(p) PROVE FALSE
      BY <2>3, <3>3 DEF Stop, Restart, DeleteCancelled, NotifyCancel, vars
    <3> QED BY <2>9, <3>1, <3>2, <3>3 DEF ProcessStep
  <2>10. ASSUME NEW i \in Jobs, JobStep(i) PROVE FALSE
    <3>1. ASSUME NEW t \in Readings, Submit(i, t) PROVE FALSE
      BY <2>0, <2>1, <2>3, <3>1, SubmitRows
    <3>2. ASSUME NEW t \in Readings, RetryScan(i, t) PROVE FALSE
      BY <2>0, <2>1, <2>3, <3>2, RetryRows DEF Terminal
    <3>3. ASSUME SettleDerived(i) PROVE FALSE BY <2>0, <2>1, <2>3, <3>3, SettleRows
    <3>4. ASSUME SelectStale(i) \/ RemoveStale(i) \/ AnalyzerStores(i) PROVE FALSE
      BY <2>3, <3>4 DEF SelectStale, RemoveStale, AnalyzerStores, vars
    <3> QED BY <2>10, <3>1, <3>2, <3>3, <3>4 DEF JobStep
  <2>11. ASSUME Passes \/ UNCHANGED allVars PROVE FALSE
    BY <2>3, <2>11 DEF Passes, Tick, allVars, vars
  <2> QED BY <2>4, <2>5, <2>6, <2>7, <2>8, <2>9, <2>10, <2>11, StepCases
<1> QED BY <1>1, <1>2, WorkerInvInit, WorkerInvStep, AckStep, PTL
        DEF WorkerSpec, AcknowledgedIsRecorded
=============================================================================
