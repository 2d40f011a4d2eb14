------------------------- MODULE IngestLedgerProofs -------------------------
(***************************************************************************)
(* Theorems about IngestLedger, for every set of keys, payloads, workers   *)
(* and handlers, every window and any number of faults.                    *)
(***************************************************************************)
EXTENDS IngestLedger, TLAPS

(* What an executor has seen or done by the time it reaches a phase.       *)
Progress(x) ==
  LET k == work[x].key
  IN  /\ work[x].phase = "idle" <=> work[x] = IdleWork
      /\ work[x].phase /= "idle" => k \in Keys
      /\ work[x].phase \in {"recover", "derive", "write"} => raw[k] > 0
      /\ work[x].phase = "finish" /\ work[x].outcome \in Final => raw[k] > 0 /\ derived[k] > 0

(* The inductive invariant, whatever the faults.                           *)
LedgerInv == TypeOK /\ OutcomeIsBacked /\ \A x \in Executors : Progress(x)

-----------------------------------------------------------------------------
(* What the shared parts of the actions do.                                *)

(* An executor moves on to a phase and keeps the rest.                     *)
LEMMA StepWork ==
  ASSUME TypeOK, NEW x \in Executors, NEW phase \in Phases, Step(x, phase)
  PROVE  /\ work' \in [Executors -> Work]
         /\ work'[x].phase = phase
         /\ work'[x].key = work[x].key
         /\ work'[x].beating = work[x].beating
         /\ work'[x].outcome = work[x].outcome
         /\ \A y \in Executors \ {x} : work'[y] = work[y]
<1>1. work \in [Executors -> Work] /\ work[x] \in Work
  BY DEF TypeOK
<1>2. [work[x] EXCEPT !.phase = phase] \in Work
  BY <1>1 DEF Work
<1>3. work' = [work EXCEPT ![x] = [work[x] EXCEPT !.phase = phase]]
  BY <1>1 DEF Step
<1> QED
  BY <1>1, <1>2, <1>3 DEF Work

(* An executor has an outcome to report.                                   *)
LEMMA EndWithWork ==
  ASSUME TypeOK, NEW x \in Executors, NEW o \in {"failed"} \cup Final, EndWith(x, o)
  PROVE  /\ work' \in [Executors -> Work]
         /\ work'[x].phase = "finish"
         /\ work'[x].key = work[x].key
         /\ work'[x].beating = work[x].beating
         /\ work'[x].outcome = o
         /\ \A y \in Executors \ {x} : work'[y] = work[y]
<1>1. work \in [Executors -> Work] /\ work[x] \in Work
  BY DEF TypeOK
<1> DEFINE w == [work[x] EXCEPT !.phase = "finish", !.outcome = o]
<1>2. w \in Work
  BY <1>1 DEF Work, Phases
<1>3. work' = [work EXCEPT ![x] = w]
  BY <1>1 DEF EndWith
<1> QED
  BY <1>1, <1>2, <1>3 DEF Work

(* An executor is free again.                                              *)
LEMMA ResetWork ==
  ASSUME TypeOK, NEW x \in Executors, work' = [work EXCEPT ![x] = IdleWork]
  PROVE  /\ work' \in [Executors -> Work]
         /\ work'[x] = IdleWork
         /\ \A y \in Executors \ {x} : work'[y] = work[y]
BY DEF TypeOK, IdleWork, Work, Phases

(* The states a row goes through are distinct.                             *)
LEMMA StatesDistinct ==
  Final \cap Open = {} /\ "absent" \notin Final \cup Open /\ NoTask \in Task
BY DEF Final, Open, NoTask, Task

(* A fault is counted within its bound.                                    *)
LEMMA FaultCounted ==
  ASSUME TypeOK, NEW kind, Fault(kind)
  PROVE  faults' \in 0 .. MaxFaults
BY WindowAssumption DEF TypeOK, Fault

(* A row is pruned only if it is not the one just completed and has an     *)
(* outcome itself.                                                         *)
LEMMA PrunedAreFinal ==
  ASSUME NEW k \in Keys, NEW gone \in Pruned(k)
  PROVE  gone \subseteq {j \in Keys \ {k} : task[j].state \in Final}
BY DEF Pruned, Excess

(* An update of a row that has one and keeps it leaves the order alone.    *)
LEMMA UpdateRow ==
  ASSUME TypeOK, NEW k \in Keys, NEW row \in Task,
         task[k].state /= "absent", row.state /= "absent",
         task' = [task EXCEPT ![k] = row], UNCHANGED ahead
  PROVE  /\ task' \in [Keys -> Task]
         /\ task'[k] = row
         /\ \A j \in Keys \ {k} : task'[j] = task[j]
         /\ Rows' = Rows
BY DEF TypeOK, Rows

-----------------------------------------------------------------------------
(* The ledger is empty at first.                                           *)
LEMMA LedgerInitInv == Init => LedgerInv
<1> SUFFICES ASSUME Init PROVE LedgerInv
  OBVIOUS
<1>1. TypeOK
  BY StatesDistinct, WindowAssumption
     DEF Init, TypeOK, Rows, NoTask, IdleWork, Work, Phases, Verdicts
<1>2. OutcomeIsBacked
  BY StatesDistinct DEF Init, OutcomeIsBacked, NoTask
<1>3. \A x \in Executors : Progress(x)
  BY DEF Init, Progress, IdleWork
<1> QED
  BY <1>1, <1>2, <1>3 DEF LedgerInv

(* A step that moves executors and leaves the ledger and the stores alone. *)
LEMMA OnlyWork ==
  ASSUME LedgerInv, UNCHANGED <<task, ahead, raw, derived, verdict>>,
         faults' \in 0 .. MaxFaults, work' \in [Executors -> Work],
         NEW x \in Executors, \A y \in Executors \ {x} : work'[y] = work[y], Progress(x)'
  PROVE  LedgerInv'
<1>1. TypeOK'
  BY DEF LedgerInv, TypeOK, Rows
<1>2. OutcomeIsBacked'
  BY DEF LedgerInv, OutcomeIsBacked
<1>3. ASSUME NEW y \in Executors PROVE Progress(y)'
  <2>1. CASE y = x BY <2>1
  <2>2. CASE y /= x BY <2>2 DEF LedgerInv, Progress
  <2> QED BY <2>1, <2>2
<1> QED
  BY <1>1, <1>2, <1>3 DEF LedgerInv

(* A step that changes an unfinished row and leaves it unfinished.         *)
LEMMA RowAndWork ==
  ASSUME LedgerInv, NEW k \in Keys, NEW row \in Task, task[k].state \in Open, row.state \in Open,
         task' = [task EXCEPT ![k] = row], UNCHANGED <<ahead, raw, derived, verdict>>,
         faults' \in 0 .. MaxFaults, work' \in [Executors -> Work],
         \A x \in Executors : Progress(x)'
  PROVE  LedgerInv'
<1>1. TypeOK
  BY DEF LedgerInv
<1>2. task[k].state /= "absent" /\ row.state /= "absent"
  BY StatesDistinct
<1>3. /\ task' \in [Keys -> Task]
      /\ task'[k] = row
      /\ \A j \in Keys \ {k} : task'[j] = task[j]
      /\ Rows' = Rows
  BY <1>1, <1>2, UpdateRow
<1>4. TypeOK'
  BY <1>1, <1>3 DEF TypeOK
<1>5. OutcomeIsBacked'
  BY <1>3, StatesDistinct DEF LedgerInv, OutcomeIsBacked
<1> QED
  BY <1>4, <1>5 DEF LedgerInv

(* What holds of an executor depends on its own work and on stores that    *)
(* only grow.                                                              *)
LEMMA ProgressKept ==
  ASSUME TypeOK, NEW x \in Executors, Progress(x), work'[x] = work[x],
         \A k \in Keys : raw[k] > 0 => raw'[k] > 0,
         \A k \in Keys : derived[k] > 0 => derived'[k] > 0
  PROVE  Progress(x)'
BY DEF Progress

(* A free executor has made no progress.                                   *)
LEMMA ProgressIdle ==
  ASSUME NEW x \in Executors, work'[x] = IdleWork
  PROVE  Progress(x)'
BY DEF Progress, IdleWork, Final

-----------------------------------------------------------------------------
(* One lemma per operation of the ledger.                                  *)

LEMMA SubmitInv ==
  ASSUME LedgerInv, NEW k \in Keys, NEW p \in Payloads, Submit(k, p)
  PROVE  LedgerInv'
<1> DEFINE row == [NoTask EXCEPT !.state = "pending", !.payload = p, !.due = TRUE]
<1>1. row \in Task /\ row.state = "pending"
  BY DEF Task, NoTask, Open
<1>2. /\ task' \in [Keys -> Task]
      /\ task'[k] = row
      /\ \A j \in Keys \ {k} : task'[j] = task[j]
  BY <1>1 DEF Submit, LedgerInv, TypeOK
<1>3. k \notin Rows /\ Rows' = Rows \cup {k}
  BY <1>1, <1>2 DEF Rows, Submit, NoTask
<1>4. ahead' \in [Keys -> SUBSET Keys] /\ ahead'[k] = Rows
      /\ \A j \in Keys \ {k} : ahead'[j] = ahead[j]
  BY DEF Submit, LedgerInv, TypeOK, Rows
<1>5. TypeOK'
  <2>1. (\A j \in Keys : ahead[j] \subseteq Rows /\ (j \notin Rows => ahead[j] = {}))'
    BY <1>3, <1>4 DEF LedgerInv, TypeOK
  <2>2. (\A i, j \in Rows : i \in ahead[j] <=> i /= j /\ j \notin ahead[i])'
    BY <1>3, <1>4 DEF LedgerInv, TypeOK, Rows
  <2>3. (\A j \in Keys : \A i \in ahead[j] : ahead[i] \subseteq ahead[j])'
    BY <1>3, <1>4 DEF LedgerInv, TypeOK, Rows
  <2> QED
    BY <1>2, <1>4, <2>1, <2>2, <2>3 DEF LedgerInv, TypeOK, Submit
<1>6. OutcomeIsBacked'
  BY <1>1, <1>2 DEF LedgerInv, OutcomeIsBacked, Submit, Final
<1>7. ASSUME NEW x \in Executors PROVE Progress(x)'
  BY ProgressKept DEF LedgerInv, Submit
<1> QED
  BY <1>5, <1>6, <1>7 DEF LedgerInv

LEMMA ClaimInv ==
  ASSUME LedgerInv, NEW x \in Executors, NEW k \in Keys, Claim(x, k)
  PROVE  LedgerInv'
<1> DEFINE row == [task[k] EXCEPT !.state = "processing", !.holder = x, !.lease = "valid"]
           w == [IdleWork EXCEPT !.phase = "claimed", !.key = k, !.beating = TRUE]
<1>1. task[k] \in Task /\ task[k].state \in Open
  BY DEF LedgerInv, TypeOK, Claim, Claimable, Open
<1>2. row \in Task /\ row.state \in Open
  BY <1>1 DEF Task, Open
<1>3. task' = [task EXCEPT ![k] = row]
  BY DEF Claim, LedgerInv, TypeOK
<1>4. w \in Work /\ w.phase = "claimed" /\ w.key = k /\ w /= IdleWork
  BY DEF IdleWork, Work, Phases
<1>5. work' \in [Executors -> Work] /\ work'[x] = w
      /\ \A y \in Executors \ {x} : work'[y] = work[y]
  BY <1>4 DEF Claim, LedgerInv, TypeOK
<1>6. Progress(x)'
  BY <1>4, <1>5 DEF Progress
<1>7. ASSUME NEW y \in Executors \ {x} PROVE Progress(y)'
  BY <1>5, ProgressKept DEF LedgerInv, Claim
<1>8. faults' \in 0 .. MaxFaults /\ UNCHANGED <<ahead, raw, derived, verdict>>
  BY DEF LedgerInv, TypeOK, Claim
<1> QED
  BY <1>1, <1>2, <1>3, <1>5, <1>6, <1>7, <1>8, RowAndWork

LEMMA ExtendLeaseInv ==
  ASSUME LedgerInv, NEW x \in Executors, ExtendLease(x)
  PROVE  LedgerInv'
<1> DEFINE k == work[x].key
           row == [task[k] EXCEPT !.lease = "valid"]
<1>1. k \in Keys /\ task[k] \in Task /\ task[k].state \in Open
  BY DEF ExtendLease, Holds, LedgerInv, Progress, TypeOK, Open
<1>2. row \in Task /\ row.state \in Open
  BY <1>1 DEF Task
<1>3. task' = [task EXCEPT ![k] = row]
  BY <1>1 DEF ExtendLease, LedgerInv, TypeOK
<1>4. work' \in [Executors -> Work] /\ faults' \in 0 .. MaxFaults
      /\ UNCHANGED <<ahead, raw, derived, verdict>>
  BY DEF ExtendLease, LedgerInv, TypeOK
<1>5. ASSUME NEW y \in Executors PROVE Progress(y)'
  BY ProgressKept DEF LedgerInv, ExtendLease
<1> QED
  BY <1>1, <1>2, <1>3, <1>4, <1>5, RowAndWork

LEMMA RetryInv ==
  ASSUME LedgerInv, NEW x \in Executors, Retry(x)
  PROVE  LedgerInv'
<1> DEFINE k == work[x].key
           row == [task[k] EXCEPT !.state = "pending", !.holder = NoExecutor,
                                  !.lease = "none", !.due = x \in Handlers]
<1>1. k \in Keys /\ task[k] \in Task /\ task[k].state \in Open
  BY DEF Retry, Holds, LedgerInv, Progress, TypeOK, Open
<1>2. row \in Task /\ row.state \in Open
  <2>1. ASSUME NEW d \in BOOLEAN, NEW r,
               r = [task[k] EXCEPT !.state = "pending", !.holder = NoExecutor,
                                   !.lease = "none", !.due = d]
        PROVE  r \in Task /\ r.state \in Open
    BY <1>1, <2>1 DEF Task, Open
  <2>2. (x \in Handlers) \in BOOLEAN
    OBVIOUS
  <2> QED
    BY <2>1, <2>2, Zenon
<1>3. task' = [task EXCEPT ![k] = row]
  <2>1. task' = [task EXCEPT ![k].state = "pending", ![k].holder = NoExecutor,
                             ![k].lease = "none", ![k].due = x \in Handlers]
    BY DEF Retry
  <2> QED
    BY <1>1, <2>1
<1>4. /\ work' \in [Executors -> Work]
      /\ work'[x] = IdleWork
      /\ \A y \in Executors \ {x} : work'[y] = work[y]
  BY ResetWork DEF Retry, LedgerInv
<1>5. faults' \in 0 .. MaxFaults /\ UNCHANGED <<ahead, raw, derived, verdict>>
  BY DEF Retry, LedgerInv, TypeOK
<1>6. ASSUME NEW y \in Executors PROVE Progress(y)'
  <2>1. CASE y = x BY <1>4, <2>1, ProgressIdle
  <2>2. CASE y /= x BY <1>4, <1>5, <2>2, ProgressKept DEF LedgerInv
  <2> QED BY <2>1, <2>2
<1> QED
  BY <1>1, <1>2, <1>3, <1>4, <1>5, <1>6, RowAndWork

(* The row completed has an envelope and a result; the pruned ones are     *)
(* gone from the order, which stays one.                                   *)
LEMMA CompleteInv ==
  ASSUME LedgerInv, NEW x \in Executors, Complete(x)
  PROVE  LedgerInv'
<1> DEFINE k == work[x].key
           row == [task[k] EXCEPT !.state = work[x].outcome,
                                  !.holder = NoExecutor, !.lease = "none"]
<1>1. k \in Keys /\ task[k] \in Task /\ task[k].state = "processing" /\ work[x].outcome \in Final
  BY DEF Complete, Holds, LedgerInv, Progress, TypeOK
<1>2. row \in Task /\ row.state = work[x].outcome /\ row.state /= "absent"
  BY <1>1, StatesDistinct DEF Task
<1>3. PICK gone \in Pruned(k) :
        /\ task' = [j \in Keys |-> IF j = k THEN row ELSE IF j \in gone THEN NoTask ELSE task[j]]
        /\ ahead' = [j \in Keys |-> IF j \in gone THEN {} ELSE ahead[j] \ gone]
  BY DEF Complete
<1>4. gone \subseteq Keys \ {k}
  BY <1>1, PrunedAreFinal
<1>5. /\ task' \in [Keys -> Task]
      /\ task'[k] = row
      /\ \A j \in gone : task'[j] = NoTask
      /\ \A j \in Keys \ (gone \cup {k}) : task'[j] = task[j]
  BY <1>1, <1>2, <1>3, <1>4, StatesDistinct DEF LedgerInv, TypeOK
<1>6. k \in Rows /\ Rows' = Rows \ gone
  <2>1. k \in Rows /\ k \in Rows' /\ k \notin gone
    BY <1>1, <1>2, <1>4, <1>5 DEF Rows
  <2>2. ASSUME NEW j \in Keys PROVE j \in Rows' <=> j \in Rows /\ j \notin gone
    <3>1. CASE j = k BY <2>1, <3>1
    <3>2. CASE j \in gone BY <1>5, <3>2 DEF Rows, NoTask
    <3>3. CASE j /= k /\ j \notin gone BY <1>5, <3>3 DEF Rows
    <3> QED BY <3>1, <3>2, <3>3
  <2>3. Rows \subseteq Keys /\ Rows' \subseteq Keys
    BY DEF Rows
  <2> QED
    BY <2>1, <2>2, <2>3
<1>7. /\ ahead' \in [Keys -> SUBSET Keys]
      /\ \A j \in Keys : ahead'[j] = IF j \in gone THEN {} ELSE ahead[j] \ gone
  BY <1>3 DEF LedgerInv, TypeOK
<1>8. TypeOK'
  <2>1. (\A j \in Keys : ahead[j] \subseteq Rows /\ (j \notin Rows => ahead[j] = {}))'
    BY <1>6, <1>7 DEF LedgerInv, TypeOK
  <2>2. (\A i, j \in Rows : i \in ahead[j] <=> i /= j /\ j \notin ahead[i])'
    BY <1>6, <1>7 DEF LedgerInv, TypeOK, Rows
  <2>3. (\A j \in Keys : \A i \in ahead[j] : ahead[i] \subseteq ahead[j])'
    BY <1>6, <1>7 DEF LedgerInv, TypeOK, Rows
  <2>4. work' \in [Executors -> Work]
    BY ResetWork DEF Complete, LedgerInv
  <2> QED
    BY <1>5, <1>7, <2>1, <2>2, <2>3, <2>4 DEF LedgerInv, TypeOK, Complete
<1>9. OutcomeIsBacked'
  <2>1. raw[k] > 0 /\ derived[k] > 0
    BY DEF Complete, LedgerInv, Progress
  <2> QED
    BY <1>5, <2>1, StatesDistinct DEF LedgerInv, OutcomeIsBacked, Complete, NoTask
<1>10. ASSUME NEW y \in Executors PROVE Progress(y)'
  <2>1. /\ work'[x] = IdleWork
        /\ \A z \in Executors \ {x} : work'[z] = work[z]
    BY ResetWork DEF Complete, LedgerInv
  <2>2. CASE y = x BY <2>1, <2>2, ProgressIdle
  <2>3. CASE y /= x BY <2>1, <2>3, ProgressKept DEF LedgerInv, Complete
  <2> QED BY <2>2, <2>3
<1> QED
  BY <1>8, <1>9, <1>10 DEF LedgerInv

LEMMA FreedInv ==
  ASSUME LedgerInv, NEW x \in Executors, Fenced(x) \/ Crash(x)
  PROVE  LedgerInv'
<1>1. /\ work' \in [Executors -> Work]
      /\ work'[x] = IdleWork
      /\ \A y \in Executors \ {x} : work'[y] = work[y]
  BY ResetWork DEF Fenced, Crash, LedgerInv
<1>2. faults' \in 0 .. MaxFaults /\ UNCHANGED <<task, ahead, raw, derived, verdict>>
  BY FaultCounted DEF Fenced, Crash, LedgerInv, TypeOK
<1> QED
  BY <1>1, <1>2, ProgressIdle, OnlyWork

-----------------------------------------------------------------------------
(* One lemma per step of the processor.                                    *)

LEMMA LookForRawInv ==
  ASSUME LedgerInv, NEW x \in Executors, LookForRaw(x)
  PROVE  LedgerInv'
<1> DEFINE k == work[x].key
           phase == IF raw[k] > 0 THEN "recover" ELSE "append"
<1>1. TypeOK /\ phase \in Phases /\ Step(x, phase)
  BY DEF LedgerInv, Phases, LookForRaw
<1>2. /\ work' \in [Executors -> Work]
      /\ work'[x].phase = phase
      /\ work'[x].key = work[x].key
      /\ \A y \in Executors \ {x} : work'[y] = work[y]
  BY ONLY <1>1, StepWork
<1>3. Progress(x)'
  BY <1>2 DEF LedgerInv, Progress, LookForRaw, IdleWork
<1>4. faults' \in 0 .. MaxFaults /\ UNCHANGED <<task, ahead, raw, derived, verdict>>
  BY DEF LookForRaw, LedgerInv, TypeOK
<1> QED
  BY <1>2, <1>3, <1>4, OnlyWork

LEMMA RecoverInv ==
  ASSUME LedgerInv, NEW x \in Executors, Recover(x)
  PROVE  LedgerInv'
<1> DEFINE k == work[x].key
<1>1. TypeOK /\ k \in Keys /\ raw[k] > 0
  BY DEF LedgerInv, Progress, Recover
<1>2. faults' \in 0 .. MaxFaults /\ UNCHANGED <<task, ahead, raw, derived, verdict>>
  BY DEF Recover, LedgerInv, TypeOK
<1>3. CASE derived[k] > 0 /\ EndWith(x, Replayed(k))
  <2>1. /\ work' \in [Executors -> Work]
        /\ work'[x].phase = "finish"
        /\ work'[x].key = k
        /\ \A y \in Executors \ {x} : work'[y] = work[y]
    BY <1>1, <1>3, EndWithWork DEF Replayed, Final
  <2>2. Progress(x)'
    BY <1>1, <1>2, <1>3, <2>1 DEF Progress, IdleWork
  <2> QED
    BY <1>2, <2>1, <2>2, OnlyWork
<1>4. ASSUME NEW phase \in {"write", "derive"}, Step(x, phase)
      PROVE  LedgerInv'
  <2>1. /\ work' \in [Executors -> Work]
        /\ work'[x].phase = phase
        /\ work'[x].key = k
        /\ \A y \in Executors \ {x} : work'[y] = work[y]
    BY <1>1, <1>4, StepWork DEF Phases
  <2>2. Progress(x)'
    BY <1>1, <1>2, <2>1 DEF Progress, IdleWork
  <2> QED
    BY <1>2, <2>1, <2>2, OnlyWork
<1> QED
  BY <1>3, <1>4 DEF Recover

LEMMA LookForAlertInv ==
  ASSUME LedgerInv, NEW x \in Executors, LookForAlert(x)
  PROVE  LedgerInv'
<1> DEFINE k == work[x].key
<1>1. TypeOK /\ k \in Keys /\ raw[k] > 0
  BY DEF LedgerInv, Progress, LookForAlert
<1>2. faults' \in 0 .. MaxFaults /\ UNCHANGED <<task, ahead, raw, derived, verdict>>
  BY DEF LookForAlert, LedgerInv, TypeOK
<1>3. ASSUME NEW o \in Final, derived[k] > 0, EndWith(x, o)
      PROVE  LedgerInv'
  <2>1. /\ work' \in [Executors -> Work]
        /\ work'[x].phase = "finish"
        /\ work'[x].key = k
        /\ \A y \in Executors \ {x} : work'[y] = work[y]
    BY <1>1, <1>3, EndWithWork
  <2>2. Progress(x)'
    BY <1>1, <1>2, <1>3, <2>1 DEF Progress, IdleWork
  <2> QED
    BY <1>2, <2>1, <2>2, OnlyWork
<1>4. CASE Step(x, "write")
  <2>1. /\ work' \in [Executors -> Work]
        /\ work'[x].phase = "write"
        /\ work'[x].key = k
        /\ \A y \in Executors \ {x} : work'[y] = work[y]
    BY <1>1, <1>4, StepWork DEF Phases
  <2>2. Progress(x)'
    BY <1>1, <1>2, <2>1 DEF Progress, IdleWork
  <2> QED
    BY <1>2, <2>1, <2>2, OnlyWork
<1> QED
  BY <1>3, <1>4 DEF LookForAlert

LEMMA ProcessorFailsInv ==
  ASSUME LedgerInv, NEW x \in Executors, ProcessorFails(x)
  PROVE  LedgerInv'
<1>1. TypeOK /\ work[x].key \in Keys
  BY DEF LedgerInv, Progress, ProcessorFails
<1>2. /\ work' \in [Executors -> Work]
      /\ work'[x].phase = "finish"
      /\ work'[x].outcome = "failed"
      /\ work'[x].key = work[x].key
      /\ \A y \in Executors \ {x} : work'[y] = work[y]
  BY <1>1, EndWithWork DEF ProcessorFails
<1>3. Progress(x)'
  BY <1>1, <1>2 DEF Progress, IdleWork, Final
<1>4. faults' \in 0 .. MaxFaults /\ UNCHANGED <<task, ahead, raw, derived, verdict>>
  BY <1>1, FaultCounted DEF ProcessorFails
<1> QED
  BY <1>2, <1>3, <1>4, OnlyWork

LEMMA AppendRawInv ==
  ASSUME LedgerInv, NEW x \in Executors, AppendRaw(x)
  PROVE  LedgerInv'
<1> DEFINE k == work[x].key
           phase == IF k \in Reports THEN "write" ELSE "derive"
<1>1. TypeOK /\ k \in Keys /\ phase \in Phases /\ Step(x, phase)
  BY DEF LedgerInv, Phases, AppendRaw, Progress
<1>2. /\ work' \in [Executors -> Work]
      /\ work'[x].phase = phase
      /\ work'[x].key = k
      /\ \A y \in Executors \ {x} : work'[y] = work[y]
  BY <1>1, StepWork
<1>3. /\ raw' \in [Keys -> Nat]
      /\ raw'[k] > 0
      /\ \A j \in Keys : raw[j] > 0 => raw'[j] > 0
  BY <1>1 DEF AppendRaw, TypeOK
<1>4. TypeOK'
  BY <1>1, <1>2, <1>3 DEF TypeOK, Rows, AppendRaw
<1>5. OutcomeIsBacked'
  BY <1>3 DEF LedgerInv, OutcomeIsBacked, AppendRaw
<1>6. Progress(x)'
  BY <1>1, <1>2, <1>3 DEF Progress, IdleWork
<1>7. ASSUME NEW y \in Executors \ {x} PROVE Progress(y)'
  BY <1>1, <1>2, <1>3, ProgressKept DEF LedgerInv, AppendRaw
<1> QED
  BY <1>4, <1>5, <1>6, <1>7 DEF LedgerInv

LEMMA WriteDerivedInv ==
  ASSUME LedgerInv, NEW x \in Executors, WriteDerived(x)
  PROVE  LedgerInv'
<1> DEFINE k == work[x].key
<1>1. TypeOK /\ k \in Keys /\ raw[k] > 0
  BY DEF LedgerInv, WriteDerived, Progress
<1>2. PICK v \in Verdicts : verdict' = [verdict EXCEPT ![k] = v] /\ EndWith(x, Concluded(v))
  BY DEF WriteDerived, Verdicts, Final
<1>3. /\ work' \in [Executors -> Work]
      /\ work'[x].phase = "finish"
      /\ work'[x].key = k
      /\ \A y \in Executors \ {x} : work'[y] = work[y]
  BY <1>1, <1>2, EndWithWork DEF Concluded, Final
<1>4. /\ derived' \in [Keys -> Nat]
      /\ derived'[k] > 0
      /\ \A j \in Keys : derived[j] > 0 => derived'[j] > 0
  BY <1>1 DEF WriteDerived, TypeOK
<1>5. TypeOK'
  BY <1>1, <1>2, <1>3, <1>4 DEF TypeOK, Rows, WriteDerived
<1>6. OutcomeIsBacked'
  BY <1>4 DEF LedgerInv, OutcomeIsBacked, WriteDerived
<1>7. Progress(x)'
  BY <1>1, <1>3, <1>4 DEF Progress, IdleWork, WriteDerived
<1>8. ASSUME NEW y \in Executors \ {x} PROVE Progress(y)'
  BY <1>1, <1>3, <1>4, ProgressKept DEF LedgerInv, WriteDerived
<1> QED
  BY <1>5, <1>6, <1>7, <1>8 DEF LedgerInv

-----------------------------------------------------------------------------
(* Time and the remaining faults.                                          *)

LEMMA TimeInv ==
  ASSUME LedgerInv, NEW k \in Keys, Elapse(k) \/ Expire(k) \/ Stall(k)
  PROVE  LedgerInv'
<1>1. task[k] \in Task /\ task[k].state \in Open
  BY DEF LedgerInv, TypeOK, Elapse, Expire, Stall, Lapse, Open
<1>2. PICK row \in {[task[k] EXCEPT !.due = TRUE], [task[k] EXCEPT !.lease = "expired"]} :
        task' = [task EXCEPT ![k] = row]
  BY DEF LedgerInv, TypeOK, Elapse, Expire, Stall, Lapse
<1>3. row \in Task /\ row.state \in Open
  BY <1>1, <1>2 DEF Task
<1>4. faults' \in 0 .. MaxFaults /\ UNCHANGED <<work, ahead, raw, derived, verdict>>
  BY FaultCounted DEF LedgerInv, TypeOK, Elapse, Expire, Stall, Lapse
<1>5. ASSUME NEW y \in Executors PROVE Progress(y)'
  BY <1>4, ProgressKept DEF LedgerInv
<1>6. work' \in [Executors -> Work]
  BY <1>4 DEF LedgerInv, TypeOK
<1> QED
  BY <1>1, <1>2, <1>3, <1>4, <1>5, <1>6, RowAndWork

LEMMA HeartbeatDiesInv ==
  ASSUME LedgerInv, NEW x \in Executors, HeartbeatDies(x)
  PROVE  LedgerInv'
<1> DEFINE w == [work[x] EXCEPT !.beating = FALSE]
<1>1. work[x] \in Work /\ work \in [Executors -> Work] /\ work[x].beating
  BY DEF LedgerInv, TypeOK, HeartbeatDies
<1>2. /\ w \in Work
      /\ w.phase = work[x].phase
      /\ w.key = work[x].key
      /\ w.outcome = work[x].outcome
  BY <1>1 DEF Work
<1>3. work' = [work EXCEPT ![x] = w]
  BY <1>1 DEF HeartbeatDies
<1>4. work[x].phase /= "idle"
  BY <1>1 DEF LedgerInv, Progress, IdleWork
<1>5. Progress(x)'
  BY <1>1, <1>2, <1>3, <1>4 DEF LedgerInv, Progress, HeartbeatDies, IdleWork
<1>6. faults' \in 0 .. MaxFaults /\ UNCHANGED <<task, ahead, raw, derived, verdict>>
  BY FaultCounted DEF LedgerInv, HeartbeatDies
<1> QED
  BY <1>1, <1>2, <1>3, <1>5, <1>6, OnlyWork

-----------------------------------------------------------------------------
(* Every step of the ledger, whoever takes it, keeps the invariant.        *)
LEMMA LedgerNextInv ==
  ASSUME LedgerInv, [Next]_ledgerVars
  PROVE  LedgerInv'
<1>1. ASSUME NEW x \in Executors, ProcessStep(x) PROVE LedgerInv'
  BY <1>1, LookForRawInv, AppendRawInv, RecoverInv, LookForAlertInv, WriteDerivedInv,
     CompleteInv, RetryInv, FreedInv DEF ProcessStep
<1>2. ASSUME NEW x \in Executors, ExtendLease(x) PROVE LedgerInv'
  BY <1>2, ExtendLeaseInv
<1>3. ASSUME NEW w \in Workers, ClaimNext(w) PROVE LedgerInv'
  BY <1>3, ClaimInv DEF ClaimNext, Executors
<1>4. ASSUME NEW k \in Keys, Elapse(k) \/ Expire(k) \/ Stall(k) PROVE LedgerInv'
  BY <1>4, TimeInv
<1>5. ASSUME NEW k \in Keys, NEW p \in Payloads, Submit(k, p) PROVE LedgerInv'
  BY <1>5, SubmitInv
<1>6. ASSUME NEW h \in Handlers, NEW k \in Keys, Claim(h, k) PROVE LedgerInv'
  BY <1>6, ClaimInv DEF Executors
<1>7. ASSUME NEW x \in Executors, ProcessorFails(x) \/ HeartbeatDies(x) \/ Crash(x)
      PROVE  LedgerInv'
  BY <1>7, ProcessorFailsInv, HeartbeatDiesInv, FreedInv
<1>8. CASE UNCHANGED ledgerVars
  BY <1>8 DEF ledgerVars, LedgerInv, TypeOK, Rows, OutcomeIsBacked, Progress
<1> QED
  BY <1>1, <1>2, <1>3, <1>4, <1>5, <1>6, <1>7, <1>8 DEF Next, Environment

(* The ledger, its executors and the stores stay well formed, and the age  *)
(* of the rows orders them, whatever fails.                                *)
THEOREM LedgerTypeCorrect == Spec => []TypeOK
<1>1. LedgerInv => TypeOK
  BY DEF LedgerInv
<1> QED
  BY <1>1, LedgerInitInv, LedgerNextInv, PTL DEF Spec

(* No outcome is recorded without its envelope and its result in the       *)
(* stores, under crashes, errors, lost heartbeats and stalls.              *)
THEOREM OutcomesAreBacked == Spec => []OutcomeIsBacked
<1>1. LedgerInv => OutcomeIsBacked
  BY DEF LedgerInv
<1> QED
  BY <1>1, LedgerInitInv, LedgerNextInv, PTL DEF Spec

-----------------------------------------------------------------------------
(* A step never rewrites a recorded outcome: what claims, extends, retries *)
(* or completes a row requires it to be unfinished.                        *)
LEMMA KeepsOutcome ==
  ASSUME LedgerInv, [Next]_ledgerVars, NEW k \in Keys, task[k].state \in Final
  PROVE  task'[k] = task[k] \/ task'[k] = NoTask
<1>0. task \in [Keys -> Task] /\ task[k].state \notin Open
  BY StatesDistinct DEF LedgerInv, TypeOK
<1>1. ASSUME NEW x \in Executors, NEW j \in Keys, Claim(x, j)
      PROVE  task'[k] = task[k]
  BY <1>0, <1>1 DEF Claim, Claimable, Open
<1>2. ASSUME NEW x \in Executors, Complete(x)
      PROVE  task'[k] = task[k] \/ task'[k] = NoTask
  BY <1>0, <1>2 DEF Complete, Holds, Open
<1>3. ASSUME NEW x \in Executors, Retry(x) \/ ExtendLease(x)
      PROVE  task'[k] = task[k]
  BY <1>0, <1>3 DEF Retry, ExtendLease, Holds, Open
<1>4. ASSUME NEW j \in Keys, Elapse(j) \/ Expire(j) \/ Stall(j)
      PROVE  task'[k] = task[k]
  BY <1>0, <1>4 DEF Elapse, Expire, Stall, Lapse, Open
<1>5. ASSUME NEW j \in Keys, NEW p \in Payloads, Submit(j, p)
      PROVE  task'[k] = task[k]
  BY <1>0, <1>5, StatesDistinct DEF Submit, NoTask
<1>6. ASSUME NEW x \in Executors,
             \/ LookForRaw(x) \/ AppendRaw(x) \/ Recover(x) \/ LookForAlert(x)
             \/ WriteDerived(x) \/ Fenced(x) \/ ProcessorFails(x) \/ HeartbeatDies(x) \/ Crash(x)
      PROVE  task'[k] = task[k]
  BY <1>6 DEF LookForRaw, AppendRaw, Recover, LookForAlert, WriteDerived, Fenced,
              ProcessorFails, HeartbeatDies, Crash
<1>7. CASE UNCHANGED ledgerVars
  BY <1>7 DEF ledgerVars
<1> QED
  BY <1>1, <1>2, <1>3, <1>4, <1>5, <1>6, <1>7
     DEF Next, ProcessStep, Environment, ClaimNext, Executors

(* The ledger's fencing is enough to keep recorded outcomes, also from     *)
(* executors that lost their lease to a stall or a dead heartbeat.         *)
THEOREM OutcomesAreFinal == Spec => OutcomeIsFinal
<1>1. LedgerInv /\ [Next]_ledgerVars
        => [\A k \in Keys : task[k].state \in Final =>
              task'[k] = task[k] \/ task'[k] = NoTask]_ledgerVars
  BY KeepsOutcome
<1> QED
  BY <1>1, LedgerInitInv, LedgerNextInv, PTL DEF Spec, OutcomeIsFinal

-----------------------------------------------------------------------------
(* The stores are not fenced.  They hold one copy of an envelope and of    *)
(* its result as long as a lease protects the executor that looks before   *)
(* it appends: executors may die and processors fail, but the heartbeat    *)
(* of a running executor keeps its lease.                                  *)
HeartbeatsKept == Faults \subseteq {"crash", "error"}

(* A working executor holds the lease of its row, and what it saw in the   *)
(* stores is still so.                                                     *)
Secure(x) ==
  LET k == work[x].key
  IN  work[x].phase /= "idle" =>
        /\ work[x].beating
        /\ task[k].state = "processing" /\ task[k].holder = x /\ task[k].lease = "valid"
        /\ work[x].phase = "append" => raw[k] = 0
        /\ work[x].phase = "write" => derived[k] = 0

LeaseInv ==
  /\ LedgerInv
  /\ \A k \in Keys : raw[k] <= 1 /\ derived[k] <= raw[k]
  /\ \A x \in Executors : Secure(x)

(* Two working executors work on different rows.                           *)
LEMMA OneExecutorPerRow ==
  ASSUME LeaseInv, NEW x \in Executors, NEW y \in Executors, x /= y,
         work[x].phase /= "idle", work[y].phase /= "idle"
  PROVE  work[x].key /= work[y].key
BY DEF LeaseInv, Secure

(* A row that can be claimed has no executor.                              *)
LEMMA ClaimableIsFree ==
  ASSUME LeaseInv, NEW k \in Keys, task[k].state /= "processing" \/ task[k].lease /= "valid",
         NEW x \in Executors, work[x].phase /= "idle"
  PROVE  work[x].key /= k
BY DEF LeaseInv, Secure

(* An executor stays secure when neither it nor its row nor the copies of  *)
(* its envelope change.                                                    *)
LEMMA SecureKept ==
  ASSUME LeaseInv, NEW x \in Executors, work'[x] = work[x],
         work[x].phase /= "idle" =>
           LET k == work[x].key
           IN  task'[k] = task[k] /\ raw'[k] = raw[k] /\ derived'[k] = derived[k]
  PROVE  Secure(x)'
BY DEF LeaseInv, Secure

LEMMA SecureIdle ==
  ASSUME NEW x \in Executors, work'[x] = IdleWork
  PROVE  Secure(x)'
BY DEF Secure, IdleWork

(* Steps that only move one executor.                                      *)
LEMMA LeaseOnlyWork ==
  ASSUME LeaseInv, LedgerInv', UNCHANGED <<task, raw, derived>>, NEW x \in Executors,
         \A y \in Executors \ {x} : work'[y] = work[y], Secure(x)'
  PROVE  LeaseInv'
<1>1. ASSUME NEW y \in Executors PROVE Secure(y)'
  <2>1. CASE y = x BY <2>1
  <2>2. CASE y /= x BY <2>2, SecureKept
  <2> QED BY <2>1, <2>2
<1> QED
  BY <1>1 DEF LeaseInv

LEMMA LeaseInitInv == Init => LeaseInv
<1> SUFFICES ASSUME Init PROVE LeaseInv
  OBVIOUS
<1>1. \A x \in Executors : Secure(x)
  BY DEF Init, Secure, IdleWork
<1> QED
  BY <1>1, LedgerInitInv DEF Init, LeaseInv

LEMMA LeaseSubmit ==
  ASSUME LeaseInv, LedgerInv', NEW k \in Keys, NEW p \in Payloads, Submit(k, p)
  PROVE  LeaseInv'
<1>1. task[k].state /= "processing"
  BY DEF Submit, NoTask
<1>2. ASSUME NEW x \in Executors PROVE Secure(x)'
  <2>1. work[x].phase /= "idle" => work[x].key \in Keys \ {k}
    BY <1>1, ClaimableIsFree DEF LeaseInv, LedgerInv, Progress
  <2>2. \A j \in Keys \ {k} : task'[j] = task[j]
    BY DEF Submit, LeaseInv, LedgerInv, TypeOK
  <2> QED
    BY <2>1, <2>2, SecureKept DEF Submit
<1> QED
  BY <1>2 DEF LeaseInv, Submit

(* Whoever claims a row is alone on it: an expired lease means that its    *)
(* last executor is gone.                                                  *)
LEMMA LeaseClaim ==
  ASSUME LeaseInv, LedgerInv', NEW x \in Executors, NEW k \in Keys, Claim(x, k)
  PROVE  LeaseInv'
<1>1. task[k].state /= "processing" \/ task[k].lease /= "valid"
  BY DEF Claim, Claimable
<1>2. task \in [Keys -> Task] /\ work \in [Executors -> Work]
  BY DEF LeaseInv, LedgerInv, TypeOK
<1>3. /\ task'[k].state = "processing"
      /\ task'[k].holder = x
      /\ task'[k].lease = "valid"
      /\ \A j \in Keys \ {k} : task'[j] = task[j]
  BY <1>2 DEF Claim, Task
<1>4. /\ work'[x].phase = "claimed"
      /\ work'[x].key = k
      /\ work'[x].beating
      /\ \A y \in Executors \ {x} : work'[y] = work[y]
  BY <1>2 DEF Claim, IdleWork
<1>5. ASSUME NEW y \in Executors PROVE Secure(y)'
  <2>1. CASE y = x BY <1>3, <1>4, <2>1 DEF Secure
  <2>2. CASE y /= x
    <3>1. work[y].phase /= "idle" => work[y].key \in Keys \ {k}
      BY <1>1, ClaimableIsFree DEF LeaseInv, LedgerInv, Progress
    <3> QED
      BY <1>3, <1>4, <2>2, <3>1, SecureKept DEF Claim
  <2> QED
    BY <2>1, <2>2
<1> QED
  BY <1>5 DEF LeaseInv, Claim

(* An executor that ends its task leaves the rows of the others alone.     *)
LEMMA LeaseEnd ==
  ASSUME LeaseInv, LedgerInv', NEW x \in Executors, Complete(x) \/ Retry(x)
  PROVE  LeaseInv'
<1> DEFINE k == work[x].key
<1>1. k \in Keys /\ work[x].phase = "finish" /\ task \in [Keys -> Task]
  BY DEF Complete, Retry, LeaseInv, LedgerInv, Progress, TypeOK
<1>2. work'[x] = IdleWork /\ \A y \in Executors \ {x} : work'[y] = work[y]
  BY ResetWork DEF Complete, Retry, LeaseInv, LedgerInv
<1>3. ASSUME NEW j \in Keys, j /= k, task[j].state = "processing"
      PROVE  task'[j] = task[j]
  <2>1. CASE Retry(x) BY <1>1, <1>3, <2>1 DEF Retry
  <2>2. CASE Complete(x)
    <3>1. \A gone \in Pruned(k) : j \notin gone
      BY <1>1, <1>3, PrunedAreFinal, StatesDistinct DEF Open
    <3> QED
      BY <1>3, <2>2, <3>1 DEF Complete
  <2> QED
    BY <2>1, <2>2
<1>4. ASSUME NEW y \in Executors PROVE Secure(y)'
  <2>1. CASE y = x BY <1>2, <2>1, SecureIdle
  <2>2. CASE y /= x
    <3>1. work[y].phase /= "idle" =>
            work[y].key \in Keys \ {k} /\ task[work[y].key].state = "processing"
      BY <1>1, <2>2, OneExecutorPerRow DEF LeaseInv, LedgerInv, Progress, Secure
    <3> QED
      BY <1>2, <1>3, <2>2, <3>1, SecureKept DEF Complete, Retry
  <2> QED
    BY <2>1, <2>2
<1> QED
  BY <1>4 DEF LeaseInv, Complete, Retry

LEMMA LeaseFreed ==
  ASSUME LeaseInv, LedgerInv', NEW x \in Executors, Fenced(x) \/ Crash(x)
  PROVE  LeaseInv'
<1>1. work'[x] = IdleWork /\ \A y \in Executors \ {x} : work'[y] = work[y]
  BY ResetWork DEF Fenced, Crash, LeaseInv, LedgerInv
<1> QED
  BY <1>1, SecureIdle, LeaseOnlyWork DEF Fenced, Crash

LEMMA LeaseLook ==
  ASSUME LeaseInv, LedgerInv', NEW x \in Executors,
         LookForRaw(x) \/ Recover(x) \/ LookForAlert(x) \/ ProcessorFails(x)
  PROVE  LeaseInv'
<1> DEFINE k == work[x].key
<1>1. /\ TypeOK /\ k \in Keys
      /\ work[x].phase /= "idle"
      /\ UNCHANGED <<task, raw, derived>>
  BY DEF LookForRaw, Recover, LookForAlert, ProcessorFails, LeaseInv, LedgerInv, Progress
<1>2. raw[k] \in Nat /\ derived[k] \in Nat
  BY <1>1 DEF TypeOK
<1>3. ASSUME NEW phase \in Phases, Step(x, phase),
             phase = "append" => raw[k] = 0, phase = "write" => derived[k] = 0
      PROVE  LeaseInv'
  <2>1. /\ work'[x].phase = phase
        /\ work'[x].key = k
        /\ work'[x].beating = work[x].beating
        /\ \A y \in Executors \ {x} : work'[y] = work[y]
    BY <1>1, <1>3, StepWork
  <2>2. Secure(x)'
    BY <1>1, <1>3, <2>1 DEF LeaseInv, Secure
  <2> QED
    BY <1>1, <2>1, <2>2, LeaseOnlyWork
<1>4. ASSUME NEW o \in {"failed"} \cup Final, EndWith(x, o)
      PROVE  LeaseInv'
  <2>1. /\ work'[x].phase = "finish"
        /\ work'[x].key = k
        /\ work'[x].beating = work[x].beating
        /\ \A y \in Executors \ {x} : work'[y] = work[y]
    BY <1>1, <1>4, EndWithWork
  <2>2. Secure(x)'
    BY <1>1, <2>1 DEF LeaseInv, Secure
  <2> QED
    BY <1>1, <2>1, <2>2, LeaseOnlyWork
<1>5. CASE LookForRaw(x)
  <2> DEFINE phase == IF raw[k] > 0 THEN "recover" ELSE "append"
  <2>1. phase \in Phases /\ Step(x, phase) /\ phase /= "write"
        /\ (phase = "append" => raw[k] = 0)
    BY <1>2, <1>5 DEF LookForRaw, Phases
  <2> HIDE DEF phase
  <2> QED
    BY <1>3, <2>1
<1>6. CASE Recover(x)
  BY <1>3, <1>4, <1>6 DEF Recover, Replayed, Phases, Final
<1>7. CASE LookForAlert(x)
  BY <1>3, <1>4, <1>7 DEF LookForAlert, Phases, Final
<1>8. CASE ProcessorFails(x)
  BY <1>4, <1>8 DEF ProcessorFails
<1> QED
  BY <1>5, <1>6, <1>7, <1>8

(* The envelope is appended where none was: nobody has appended it since   *)
(* the executor looked.                                                    *)
LEMMA LeaseAppendRaw ==
  ASSUME LeaseInv, LedgerInv', NEW x \in Executors, AppendRaw(x)
  PROVE  LeaseInv'
<1> DEFINE k == work[x].key
           phase == IF k \in Reports THEN "write" ELSE "derive"
<1>1. TypeOK /\ k \in Keys /\ work[x].phase = "append" /\ phase \in Phases /\ Step(x, phase)
  BY DEF LeaseInv, LedgerInv, Phases, AppendRaw, Progress
<1>2. raw[k] = 0 /\ derived[k] = 0
  BY <1>1 DEF LeaseInv, Secure, TypeOK
<1>3. /\ work'[x].phase = phase
      /\ work'[x].key = k
      /\ work'[x].beating = work[x].beating
      /\ \A y \in Executors \ {x} : work'[y] = work[y]
  BY <1>1, StepWork
<1>4. /\ raw'[k] = 1
      /\ \A j \in Keys \ {k} : raw'[j] = raw[j]
      /\ UNCHANGED <<task, derived>>
  BY <1>1, <1>2 DEF AppendRaw, TypeOK
<1>5. ASSUME NEW y \in Executors PROVE Secure(y)'
  <2>1. CASE y = x BY <1>1, <1>2, <1>3, <1>4, <2>1 DEF LeaseInv, Secure
  <2>2. CASE y /= x
    <3>1. work[y].phase /= "idle" => work[y].key \in Keys \ {k}
      BY <1>1, <2>2, OneExecutorPerRow DEF LeaseInv, LedgerInv, Progress
    <3> QED
      BY <1>3, <1>4, <2>2, <3>1, SecureKept
  <2> QED
    BY <2>1, <2>2
<1>6. ASSUME NEW j \in Keys PROVE (raw[j] <= 1 /\ derived[j] <= raw[j])'
  BY <1>2, <1>4 DEF LeaseInv
<1> QED
  BY <1>5, <1>6 DEF LeaseInv

LEMMA LeaseWriteDerived ==
  ASSUME LeaseInv, LedgerInv', NEW x \in Executors, WriteDerived(x)
  PROVE  LeaseInv'
<1> DEFINE k == work[x].key
<1>1. TypeOK /\ k \in Keys /\ work[x].phase = "write"
  BY DEF LeaseInv, LedgerInv, WriteDerived, Progress
<1>2. raw[k] = 1 /\ derived[k] = 0
  BY <1>1 DEF LeaseInv, LedgerInv, Progress, Secure, TypeOK
<1>3. /\ work'[x].phase = "finish"
      /\ work'[x].key = k
      /\ work'[x].beating = work[x].beating
      /\ \A y \in Executors \ {x} : work'[y] = work[y]
  BY <1>1, EndWithWork DEF WriteDerived, Concluded, Final
<1>4. /\ derived'[k] = 1
      /\ \A j \in Keys \ {k} : derived'[j] = derived[j]
      /\ UNCHANGED <<task, raw>>
  BY <1>1, <1>2 DEF WriteDerived, TypeOK
<1>5. ASSUME NEW y \in Executors PROVE Secure(y)'
  <2>1. CASE y = x BY <1>1, <1>3, <1>4, <2>1 DEF LeaseInv, Secure
  <2>2. CASE y /= x
    <3>1. work[y].phase /= "idle" => work[y].key \in Keys \ {k}
      BY <1>1, <2>2, OneExecutorPerRow DEF LeaseInv, LedgerInv, Progress
    <3> QED
      BY <1>3, <1>4, <2>2, <3>1, SecureKept
  <2> QED
    BY <2>1, <2>2
<1>6. ASSUME NEW j \in Keys PROVE (raw[j] <= 1 /\ derived[j] <= raw[j])'
  BY <1>2, <1>4 DEF LeaseInv
<1> QED
  BY <1>5, <1>6 DEF LeaseInv

(* A lease runs out only where no executor beats, and an expired lease is  *)
(* nobody's to extend.                                                     *)
LEMMA LeaseTime ==
  ASSUME LeaseInv, LedgerInv', NEW k \in Keys, Elapse(k) \/ Expire(k)
  PROVE  LeaseInv'
<1>1. ASSUME NEW x \in Executors, work[x].phase /= "idle"
      PROVE  work[x].key \in Keys \ {k}
  <2>1. work[x].key \in Keys /\ work[x].beating /\ Holds(x)
    BY <1>1 DEF LeaseInv, LedgerInv, Progress, Secure, Holds, IdleWork
  <2>2. CASE Expire(k)
    BY <2>1, <2>2 DEF Expire, Heartbeats
  <2>3. CASE Elapse(k)
    BY <1>1, <2>1, <2>3, ClaimableIsFree DEF Elapse
  <2> QED
    BY <2>2, <2>3
<1>2. \A j \in Keys \ {k} : task'[j] = task[j]
  BY DEF Elapse, Expire, Lapse, LeaseInv, LedgerInv, TypeOK
<1>3. UNCHANGED <<work, raw, derived>>
  BY DEF Elapse, Expire, Lapse
<1>4. ASSUME NEW x \in Executors PROVE Secure(x)'
  BY <1>1, <1>2, <1>3, SecureKept
<1> QED
  BY <1>3, <1>4 DEF LeaseInv

LEMMA LeaseNextInv ==
  ASSUME HeartbeatsKept, LeaseInv, [Next]_ledgerVars
  PROVE  LeaseInv'
<1>0. LedgerInv'
  BY LedgerNextInv DEF LeaseInv
<1>1. ASSUME NEW x \in Executors, ProcessStep(x) PROVE LeaseInv'
  BY <1>0, <1>1, LeaseLook, LeaseAppendRaw, LeaseWriteDerived, LeaseEnd, LeaseFreed
     DEF ProcessStep
<1>2. ASSUME NEW x \in Executors, ExtendLease(x) PROVE LeaseInv'
  BY <1>2 DEF ExtendLease, Holds, LeaseInv, LedgerInv, Progress, Secure
<1>3. ASSUME NEW w \in Workers, ClaimNext(w) PROVE LeaseInv'
  BY <1>0, <1>3, LeaseClaim DEF ClaimNext, Executors
<1>4. ASSUME NEW k \in Keys, Elapse(k) \/ Expire(k) PROVE LeaseInv'
  BY <1>0, <1>4, LeaseTime
<1>5. ASSUME NEW k \in Keys, NEW p \in Payloads, Submit(k, p) PROVE LeaseInv'
  BY <1>0, <1>5, LeaseSubmit
<1>6. ASSUME NEW h \in Handlers, NEW k \in Keys, Claim(h, k) PROVE LeaseInv'
  BY <1>0, <1>6, LeaseClaim DEF Executors
<1>7. ASSUME NEW x \in Executors, ProcessorFails(x) \/ Crash(x) PROVE LeaseInv'
  BY <1>0, <1>7, LeaseLook, LeaseFreed
<1>8. ASSUME NEW k \in Keys, Stall(k) PROVE FALSE
  BY <1>8 DEF Stall, Fault, HeartbeatsKept
<1>9. ASSUME NEW x \in Executors, HeartbeatDies(x) PROVE FALSE
  BY <1>9 DEF HeartbeatDies, Fault, HeartbeatsKept
<1>10. CASE UNCHANGED ledgerVars
  <2>1. \A x \in Executors : Secure(x)'
    BY <1>10 DEF ledgerVars, LeaseInv, Secure
  <2> QED
    BY <1>0, <1>10, <2>1 DEF ledgerVars, LeaseInv
<1> QED
  BY <1>1, <1>2, <1>3, <1>4, <1>5, <1>6, <1>7, <1>8, <1>9, <1>10 DEF Next, Environment

(* Executors that die between any two writes, and others that take over,   *)
(* store an envelope and its result once.                                  *)
THEOREM EnvelopesStoredOnce == HeartbeatsKept /\ Spec => []StoredOnce
<1> SUFFICES ASSUME HeartbeatsKept PROVE Spec => []StoredOnce
  OBVIOUS
<1>1. LeaseInv => StoredOnce
  <2> SUFFICES ASSUME LeaseInv, NEW k \in Keys PROVE raw[k] <= 1 /\ derived[k] <= 1
    BY DEF StoredOnce
  <2>1. raw[k] \in Nat /\ derived[k] \in Nat
    BY DEF LeaseInv, LedgerInv, TypeOK
  <2> QED
    BY <2>1 DEF LeaseInv
<1>2. LeaseInv /\ [Next]_ledgerVars => LeaseInv'
  BY LeaseNextInv
<1> QED
  BY <1>1, <1>2, LeaseInitInv, PTL DEF Spec

-----------------------------------------------------------------------------
(* The ledger implements the safety part of DurableIngest.                 *)

(* What the ledger knows of an envelope, as DurableIngest sees it.         *)
Known(state) == CASE state \in Open -> "accepted"
                  [] state \in Final -> "done"
                  [] OTHER -> "unknown"

LEMMA KnownStates ==
  ASSUME NEW s
  PROVE  /\ s \in Open => Known(s) = "accepted"
         /\ s \in Final => Known(s) = "done"
         /\ s = "absent" => Known(s) = "unknown"
BY StatesDistinct DEF Known

(* A step that keeps the copies and what is known of every envelope.       *)
LEMMA Unnoticed ==
  ASSUME UNCHANGED <<raw, derived>>,
         \A k \in Keys : Known(task'[k].state) = Known(task[k].state)
  PROVE  UNCHANGED (Promise!ingestVars)
BY DEF Promise!ingestVars, Known

LEMMA InitPromised == Init => Promise!Init
BY KnownStates DEF Init, Promise!Init, NoTask, Known

(* A step on an unfinished row that leaves it unfinished.                  *)
LEMMA OpenUnnoticed ==
  ASSUME LedgerInv, NEW k \in Keys, task[k].state \in Open, task'[k].state \in Open,
         \A j \in Keys \ {k} : task'[j] = task[j], UNCHANGED <<raw, derived>>
  PROVE  UNCHANGED (Promise!ingestVars)
<1>1. ASSUME NEW j \in Keys PROVE Known(task'[j].state) = Known(task[j].state)
  <2>1. CASE j = k BY <2>1, KnownStates
  <2>2. CASE j /= k BY <2>2
  <2> QED BY <2>1, <2>2
<1> QED
  BY <1>1, Unnoticed

LEMMA SubmitPromised ==
  ASSUME LedgerInv, NEW k \in Keys, NEW p \in Payloads, Submit(k, p)
  PROVE  Promise!Accept(k)
<1>1. task[k].state = "absent" /\ task'[k].state = "pending"
      /\ \A j \in Keys \ {k} : task'[j] = task[j]
  BY DEF LedgerInv, TypeOK, Submit, NoTask
<1>2. Known(task[k].state) = "unknown" /\ Known(task'[k].state) = "accepted"
  BY <1>1, KnownStates DEF Open
<1>3. [j \in Keys |-> Known(task'[j].state)]
        = [[j \in Keys |-> Known(task[j].state)] EXCEPT ![k] = "accepted"]
  BY <1>1, <1>2
<1> QED
  BY <1>2, <1>3 DEF Promise!Accept, Known, Submit

LEMMA AppendPromised ==
  ASSUME LeaseInv, NEW x \in Executors, AppendRaw(x)
  PROVE  Promise!Store(work[x].key)
<1> DEFINE k == work[x].key
<1>1. k \in Keys /\ task[k].state = "processing" /\ raw[k] = 0 /\ raw \in [Keys -> Nat]
  BY DEF LeaseInv, LedgerInv, Progress, Secure, AppendRaw, TypeOK
<1>2. Known(task[k].state) = "accepted"
  BY <1>1, KnownStates DEF Open
<1>3. raw' = [raw EXCEPT ![k] = 1] /\ UNCHANGED <<task, derived>>
  BY <1>1 DEF AppendRaw
<1> QED
  BY <1>1, <1>2, <1>3 DEF Promise!Store, Known

LEMMA WritePromised ==
  ASSUME LeaseInv, NEW x \in Executors, WriteDerived(x)
  PROVE  Promise!Derive(work[x].key)
<1> DEFINE k == work[x].key
<1>1. /\ k \in Keys /\ task[k].state = "processing"
      /\ raw[k] = 1 /\ derived[k] = 0 /\ derived \in [Keys -> Nat]
  BY DEF LeaseInv, LedgerInv, Progress, Secure, WriteDerived, TypeOK
<1>2. Known(task[k].state) = "accepted"
  BY <1>1, KnownStates DEF Open
<1>3. derived' = [derived EXCEPT ![k] = 1] /\ UNCHANGED <<task, raw>>
  BY <1>1 DEF WriteDerived
<1> QED
  BY <1>1, <1>2, <1>3 DEF Promise!Derive, Known

LEMMA CompletePromised ==
  ASSUME LeaseInv, NEW x \in Executors, Complete(x)
  PROVE  \E old \in SUBSET (Keys \ {work[x].key}) : Promise!Finish(work[x].key, old)
<1> DEFINE k == work[x].key
<1>1. /\ k \in Keys /\ task[k].state = "processing" /\ task[k] \in Task
      /\ work[x].outcome \in Final
      /\ raw[k] = 1 /\ derived[k] = 1
  BY DEF LeaseInv, LedgerInv, Progress, Secure, Complete, TypeOK
<1>2. PICK gone \in Pruned(k) :
        task' = [j \in Keys |->
                   IF j = k
                   THEN [task[k] EXCEPT !.state = work[x].outcome,
                                        !.holder = NoExecutor, !.lease = "none"]
                   ELSE IF j \in gone THEN NoTask
                   ELSE task[j]]
  BY DEF Complete
<1>3. gone \subseteq {j \in Keys \ {k} : task[j].state \in Final}
  BY <1>1, PrunedAreFinal
<1>4. Known(task[k].state) = "accepted" /\ \A j \in gone : Known(task[j].state) = "done"
  BY <1>1, <1>3, KnownStates DEF Open
<1>5. /\ task'[k].state \in Final
      /\ \A j \in gone : task'[j].state = "absent"
      /\ \A j \in Keys \ (gone \cup {k}) : task'[j] = task[j]
  BY <1>1, <1>2, <1>3 DEF NoTask, Task
<1>6. ASSUME NEW j \in Keys
      PROVE  Known(task'[j].state) = IF j = k THEN "done"
                                     ELSE IF j \in gone THEN "unknown"
                                     ELSE Known(task[j].state)
  BY <1>1, <1>5, KnownStates
<1>7. UNCHANGED <<raw, derived>>
  BY DEF Complete
<1>8. Promise!Finish(k, gone)
  BY <1>1, <1>3, <1>4, <1>6, <1>7 DEF Promise!Finish, Known
<1> QED
  BY <1>3, <1>8

(* Every step of the ledger is one step of the promise or none.            *)
LEMMA StepPromised ==
  ASSUME HeartbeatsKept, LeaseInv, [Next]_ledgerVars
  PROVE  [Promise!Next]_(Promise!ingestVars)
<1>0. LedgerInv /\ task \in [Keys -> Task] /\ \A x \in Executors : Progress(x)
  BY DEF LeaseInv, LedgerInv, TypeOK
<1>1. ASSUME NEW x \in Executors, AppendRaw(x) \/ WriteDerived(x) \/ Complete(x)
      PROVE  Promise!Next
  <2>1. work[x].key \in Keys
    BY <1>0, <1>1 DEF Progress, AppendRaw, WriteDerived, Complete
  <2> QED
    BY <1>1, <2>1, AppendPromised, WritePromised, CompletePromised
       DEF Promise!Next, Promise!Process
<1>2. ASSUME NEW k \in Keys, NEW p \in Payloads, Submit(k, p)
      PROVE  Promise!Next
  BY <1>0, <1>2, SubmitPromised DEF Promise!Next
<1>3. ASSUME NEW x \in Executors, NEW k \in Keys, Claim(x, k)
      PROVE  UNCHANGED (Promise!ingestVars)
  <2>1. task[k].state \in Open /\ task'[k].state \in Open
        /\ \A j \in Keys \ {k} : task'[j] = task[j]
    BY <1>0, <1>3 DEF Claim, Claimable, Open, Task
  <2> QED
    BY <1>0, <1>3, <2>1, OpenUnnoticed DEF Claim
<1>4. ASSUME NEW x \in Executors, Retry(x) \/ ExtendLease(x)
      PROVE  UNCHANGED (Promise!ingestVars)
  <2> DEFINE k == work[x].key
  <2>1. k \in Keys /\ task[k].state = "processing"
    BY <1>0, <1>4 DEF Retry, ExtendLease, Holds, Progress
  <2>2. task'[k].state \in Open /\ \A j \in Keys \ {k} : task'[j] = task[j]
    <3>1. CASE Retry(x)
      <4> PICK d : d = (x \in Handlers)
        OBVIOUS
      <4>1. task' = [task EXCEPT ![k].state = "pending", ![k].holder = NoExecutor,
                                 ![k].lease = "none", ![k].due = d]
        BY <3>1 DEF Retry
      <4>2. task'[k].state = "pending"
        <5>1. task' = [task EXCEPT ![k] = [task[k] EXCEPT !.state = "pending", !.holder = NoExecutor,
                                                          !.lease = "none", !.due = d]]
          BY <4>1
        <5>2. task'[k] = [task[k] EXCEPT !.state = "pending", !.holder = NoExecutor,
                                         !.lease = "none", !.due = d]
          BY <1>0, <2>1, <5>1
        <5>3. "state" \in DOMAIN task[k]
          BY <1>0, <2>1 DEF Task
        <5> QED
          BY <5>2, <5>3
      <4> QED
        BY <1>0, <4>1, <4>2 DEF Open
    <3>2. CASE ExtendLease(x)
      <4>1. task' = [task EXCEPT ![k].lease = "valid"]
        BY <3>2 DEF ExtendLease
      <4>2. task'[k].state = "processing"
        BY <1>0, <2>1, <4>1 DEF Task
      <4> QED
        BY <1>0, <4>1, <4>2 DEF Open
    <3> QED
      BY <1>4, <3>1, <3>2
  <2> QED
    BY <1>0, <1>4, <2>1, <2>2, OpenUnnoticed DEF Retry, ExtendLease, Open
<1>5. ASSUME NEW k \in Keys, Elapse(k) \/ Expire(k) \/ Stall(k)
      PROVE  UNCHANGED (Promise!ingestVars)
  <2>1. task[k].state \in Open /\ task'[k].state \in Open
        /\ \A j \in Keys \ {k} : task'[j] = task[j]
    BY <1>0, <1>5 DEF Elapse, Expire, Stall, Lapse, Open, Task
  <2> QED
    BY <1>0, <1>5, <2>1, OpenUnnoticed DEF Elapse, Expire, Stall, Lapse
<1>6. ASSUME NEW x \in Executors,
             \/ LookForRaw(x) \/ Recover(x) \/ LookForAlert(x) \/ Fenced(x)
             \/ ProcessorFails(x) \/ HeartbeatDies(x) \/ Crash(x)
      PROVE  UNCHANGED (Promise!ingestVars)
  BY <1>6, Unnoticed DEF LookForRaw, Recover, LookForAlert, Fenced, ProcessorFails,
                         HeartbeatDies, Crash
<1>7. CASE UNCHANGED ledgerVars
  BY <1>7, Unnoticed DEF ledgerVars
<1> QED
  BY <1>1, <1>2, <1>3, <1>4, <1>5, <1>6, <1>7
     DEF Next, ProcessStep, Environment, ClaimNext, Executors

(* The ledger, its executors and the unfenced stores together implement    *)
(* what DurableIngest promises of an accepted envelope: stored once, then  *)
(* derived once, then finished.                                            *)
THEOREM PromiseIsSafe ==
  HeartbeatsKept /\ Spec => Promise!Init /\ [][Promise!Next]_(Promise!ingestVars)
<1> SUFFICES ASSUME HeartbeatsKept
             PROVE  Spec => Promise!Init /\ [][Promise!Next]_(Promise!ingestVars)
  OBVIOUS
<1>1. LeaseInv /\ [Next]_ledgerVars => LeaseInv'
  BY LeaseNextInv
<1>2. LeaseInv /\ [Next]_ledgerVars => [Promise!Next]_(Promise!ingestVars)
  BY StepPromised
<1> QED
  BY <1>1, <1>2, InitPromised, LeaseInitInv, PTL DEF Spec
=============================================================================
