--------------------------- MODULE ServicesProofs ---------------------------
(***************************************************************************)
(* Theorems about services that share no state: the recurring scans and    *)
(* the credentials of Form, for every set of schedules, every interval and *)
(* any length of a tick, and for every number of key pairs; the record     *)
(* stores of Analyzer and their readers, for any keys, caps, page sizes    *)
(* and number of rows; the spool of the agent, for any payloads, sizes and *)
(* limits and any number of uploaders and of mishaps; the upload of an     *)
(* artifact, for any content and limits and any number of attempts.        *)
(***************************************************************************)
EXTENDS Schedules, Credentials, RecordStore, AgentSpool, ChunkedUpload,
        FiniteSetTheorems, SequenceTheorems, TLAPS

-----------------------------------------------------------------------------
(* Schedules.                                                              *)

ScheduleRow == [status : {"unused", "listed", "deleted"}, wait : 0 .. Interval, enabled : BOOLEAN]

ScheduleTypeOK ==
  /\ table \in [ScheduleIds -> ScheduleRow]
  /\ targets \subseteq ScheduleIds
  /\ tick \in [pc : {"idle", "items", "mark"}, todo : SUBSET ScheduleIds,
               at : SUBSET ScheduleIds, age : 0 .. MaxTickAge]
  /\ stamp \in [ScheduleIds -> 0 .. Old]
  /\ lost \subseteq ScheduleIds

(* The tick writes back at most one schedule at a time, the one whose job  *)
(* it has just stamped; what it has yet to do was due when it began and    *)
(* has not been rescheduled since.                                         *)
TickInv ==
  /\ tick.pc = "idle" => tick.todo = {}
  /\ tick.pc # "mark" => tick.at = {}
  /\ tick.pc = "mark" => \E s \in ScheduleIds : tick.at = {s} /\ stamp[s] = tick.age
  /\ \A s \in tick.todo :
       /\ s \notin tick.at
       /\ table[s].status # "unused"
       /\ table[s].wait = 0
       /\ stamp[s] >= Interval + tick.age \/ s \in lost

(* The next run of a schedule is an interval after its latest job, unless  *)
(* that job is being written back or could not be.                         *)
SpacingInv ==
  \A s \in ScheduleIds :
    /\ table[s].status = "unused" => stamp[s] = Old /\ s \notin tick.at
    /\ Listed(s) /\ s \notin lost \union tick.at => stamp[s] + table[s].wait >= Interval

ScheduleInv == ScheduleTypeOK /\ TickInv /\ SpacingInv /\ PeriodIsCovered

LEMMA ScheduleInitInv == ScheduleInit => ScheduleInv
<1> SUFFICES ASSUME ScheduleInit PROVE ScheduleInv
  OBVIOUS
<1>1. ScheduleTypeOK
  BY ScheduleAssumption DEF ScheduleInit, ScheduleTypeOK, ScheduleRow, Row, NoTick, Old
<1>2. TickInv /\ SpacingInv /\ PeriodIsCovered
  BY DEF ScheduleInit, TickInv, SpacingInv, PeriodIsCovered, Listed, Row, NoTick
<1> QED
  BY <1>1, <1>2 DEF ScheduleInv

(* A schedule is created with nothing to wait for, the first time its      *)
(* identifier is used.                                                     *)
LEMMA CreateScheduleInv ==
  ASSUME ScheduleInv, NEW s \in ScheduleIds, CreateSchedule(s)
  PROVE  ScheduleInv'
<1>1. PICK e \in BOOLEAN : table' = [table EXCEPT ![s] = Row("listed", 0, e)]
  BY DEF CreateSchedule
<1>2. /\ table \in [ScheduleIds -> ScheduleRow]
      /\ table'[s].status = "listed" /\ table'[s].wait = 0
      /\ \A u \in ScheduleIds \ {s} : table'[u] = table[u]
  BY <1>1 DEF ScheduleInv, ScheduleTypeOK, Row
<1>3. ScheduleTypeOK'
  BY <1>1, ScheduleAssumption DEF ScheduleInv, ScheduleTypeOK, ScheduleRow, Row, CreateSchedule
<1>4. s \notin tick.todo /\ stamp[s] = Old /\ Old >= Interval
  BY ScheduleAssumption DEF ScheduleInv, TickInv, SpacingInv, CreateSchedule, Old
<1>5. TickInv'
  BY <1>2, <1>4 DEF ScheduleInv, TickInv, CreateSchedule
<1>6. SpacingInv'
  BY <1>2, <1>4, ScheduleAssumption DEF ScheduleInv, SpacingInv, CreateSchedule, Listed, Old
<1>7. PeriodIsCovered'
  BY <1>2 DEF ScheduleInv, PeriodIsCovered, CreateSchedule, Listed, ScheduleTypeOK
<1> QED
  BY <1>3, <1>5, <1>6, <1>7 DEF ScheduleInv

LEMMA DeleteScheduleInv ==
  ASSUME ScheduleInv, NEW s \in ScheduleIds, DeleteSchedule(s)
  PROVE  ScheduleInv'
<1>1. /\ table \in [ScheduleIds -> ScheduleRow]
      /\ table'[s].status = "deleted" /\ table'[s].wait = 0
      /\ \A u \in ScheduleIds \ {s} : table'[u] = table[u]
  BY DEF ScheduleInv, ScheduleTypeOK, Row, DeleteSchedule
<1>2. ScheduleTypeOK'
  BY ScheduleAssumption DEF ScheduleInv, ScheduleTypeOK, ScheduleRow, Row, DeleteSchedule
<1>3. TickInv'
  BY <1>1 DEF ScheduleInv, TickInv, DeleteSchedule, ScheduleTypeOK
<1>4. SpacingInv'
  BY <1>1 DEF ScheduleInv, SpacingInv, DeleteSchedule, Listed
<1>5. PeriodIsCovered'
  BY <1>1 DEF ScheduleInv, PeriodIsCovered, DeleteSchedule, Listed, ScheduleTypeOK
<1> QED
  BY <1>2, <1>3, <1>4, <1>5 DEF ScheduleInv

(* A tick takes on the schedules that are due: their latest job is an      *)
(* interval old, or was lost.                                              *)
LEMMA StartTickInv ==
  ASSUME ScheduleInv, StartTick
  PROVE  ScheduleInv'
<1>1. /\ tick.pc = "idle" /\ tick.at = {}
      /\ tick'.pc = "items" /\ tick'.todo = DueNow /\ tick'.at = {} /\ tick'.age = 0
      /\ UNCHANGED <<table, targets, stamp, lost>>
  BY DEF StartTick, NoTick, ScheduleInv, TickInv
<1>2. DueNow \subseteq ScheduleIds
  BY DEF DueNow
<1>3. ScheduleTypeOK'
  <2>1. tick' = [pc |-> "items", todo |-> DueNow, at |-> {}, age |-> 0]
    BY DEF StartTick, NoTick
  <2> QED
    BY <1>1, <1>2, <2>1, ScheduleAssumption DEF ScheduleInv, ScheduleTypeOK
<1>4. ASSUME NEW s \in DueNow
      PROVE  table[s].status # "unused" /\ table[s].wait = 0 /\ (stamp[s] >= Interval \/ s \in lost)
  BY <1>1, ScheduleAssumption
     DEF DueNow, Listed, ScheduleInv, SpacingInv, ScheduleTypeOK, Old
<1>5. TickInv'
  BY <1>1, <1>2, <1>4, ScheduleAssumption DEF TickInv
<1>6. SpacingInv' /\ PeriodIsCovered'
  BY <1>1 DEF ScheduleInv, SpacingInv, PeriodIsCovered, Listed
<1> QED
  BY <1>3, <1>5, <1>6 DEF ScheduleInv

(* What mark_enqueued and snooze write.                                    *)
LEMMA RescheduledRow ==
  ASSUME ScheduleTypeOK, NEW s \in ScheduleIds, table' = Rescheduled(s)
  PROVE  /\ table' \in [ScheduleIds -> ScheduleRow]
         /\ table'[s].status = "listed"
         /\ table'[s].wait = Interval - tick.age
         /\ \A u \in ScheduleIds \ {s} : table'[u] = table[u]
<1>1. tick.age \in 0 .. Interval
  BY ScheduleAssumption DEF ScheduleTypeOK
<1>2. Interval - tick.age \in 0 .. Interval
  BY <1>1, ScheduleAssumption
<1> QED
  BY <1>2 DEF ScheduleTypeOK, ScheduleRow, Rescheduled, Row

LEMMA SnoozeInv ==
  ASSUME ScheduleInv, NEW s \in ScheduleIds, Snooze(s)
  PROVE  ScheduleInv'
<1>1. /\ table' \in [ScheduleIds -> ScheduleRow]
      /\ table'[s].status = "listed"
      /\ table'[s].wait = Interval - tick.age
      /\ \A u \in ScheduleIds \ {s} : table'[u] = table[u]
  BY RescheduledRow DEF ScheduleInv, Snooze
<1>2. /\ tick'.todo = tick.todo \ {s}
      /\ tick'.pc = tick.pc /\ tick'.at = tick.at /\ tick'.age = tick.age
      /\ UNCHANGED <<targets, stamp, lost>> /\ s \notin targets
  BY DEF Snooze, ScheduleInv, ScheduleTypeOK
<1>3. ScheduleTypeOK'
  BY <1>1 DEF ScheduleInv, ScheduleTypeOK, Snooze
<1>4. TickInv'
  BY <1>1, <1>2 DEF ScheduleInv, TickInv, ScheduleTypeOK
<1>5. stamp[s] >= Interval + tick.age \/ s \in lost
  BY DEF ScheduleInv, TickInv, Snooze
<1>6. SpacingInv'
  <2>1. tick.age \in Nat /\ stamp[s] \in Nat
    BY ScheduleAssumption DEF ScheduleInv, ScheduleTypeOK, Old
  <2>2. s \notin lost => stamp[s] + (Interval - tick.age) >= Interval
    BY <1>5, <2>1, ScheduleAssumption
  <2> QED
    BY <1>1, <1>2, <2>2 DEF ScheduleInv, SpacingInv, Listed
<1>7. PeriodIsCovered'
  BY <1>1, <1>2 DEF ScheduleInv, PeriodIsCovered, Listed, ScheduleTypeOK
<1> QED
  BY <1>3, <1>4, <1>6, <1>7 DEF ScheduleInv

LEMMA EnqueueInv ==
  ASSUME ScheduleInv, NEW s \in ScheduleIds, Enqueue(s)
  PROVE  ScheduleInv'
<1>1. /\ tick'.todo = tick.todo \ {s}
      /\ tick'.pc = "mark" /\ tick'.at = {s} /\ tick'.age = tick.age
      /\ UNCHANGED <<table, targets, lost>>
      /\ tick.at = {} /\ s \in tick.todo
  BY DEF Enqueue, ScheduleInv, ScheduleTypeOK, TickInv
<1>2. /\ tick.age \in 0 .. Old
      /\ stamp'[s] = tick.age
      /\ \A u \in ScheduleIds \ {s} : stamp'[u] = stamp[u]
  BY ScheduleAssumption DEF Enqueue, ScheduleInv, ScheduleTypeOK, Old
<1>3. ScheduleTypeOK'
  BY <1>2 DEF ScheduleInv, ScheduleTypeOK, Enqueue
<1>4. TickInv'
  BY <1>1, <1>2 DEF ScheduleInv, TickInv, ScheduleTypeOK
<1>5. table[s].status # "unused" /\ table[s].wait = 0
  BY <1>1 DEF ScheduleInv, TickInv
<1>6. SpacingInv'
  BY <1>1, <1>2, <1>5 DEF ScheduleInv, SpacingInv, Listed
<1>7. PeriodIsCovered'
  BY <1>1, <1>2, <1>5 DEF ScheduleInv, PeriodIsCovered, Listed, ScheduleTypeOK
<1> QED
  BY <1>3, <1>4, <1>6, <1>7 DEF ScheduleInv

LEMMA MarkInv ==
  ASSUME ScheduleInv, Mark
  PROVE  ScheduleInv'
<1>1. PICK s \in ScheduleIds : tick.at = {s} /\ stamp[s] = tick.age /\ table' = Rescheduled(s)
  BY DEF Mark, ScheduleInv, TickInv
<1>2. /\ table' \in [ScheduleIds -> ScheduleRow]
      /\ table'[s].status = "listed"
      /\ table'[s].wait = Interval - tick.age
      /\ \A u \in ScheduleIds \ {s} : table'[u] = table[u]
  BY <1>1, RescheduledRow DEF ScheduleInv
<1>3. /\ tick'.todo = tick.todo
      /\ tick'.pc = "items" /\ tick'.at = {} /\ tick'.age = tick.age
      /\ UNCHANGED <<targets, stamp>> /\ lost' = lost \ {s}
      /\ s \notin tick.todo
  BY <1>1 DEF Mark, ScheduleInv, ScheduleTypeOK, TickInv
<1>4. ScheduleTypeOK'
  BY <1>2, <1>3 DEF ScheduleInv, ScheduleTypeOK, Mark
<1>5. TickInv'
  BY <1>2, <1>3 DEF ScheduleInv, TickInv, ScheduleTypeOK
<1>6. stamp[s] + (Interval - tick.age) = Interval
  BY <1>1, ScheduleAssumption DEF ScheduleInv, ScheduleTypeOK
<1>7. SpacingInv'
  BY <1>1, <1>2, <1>3, <1>6, ScheduleAssumption DEF ScheduleInv, SpacingInv, Listed
<1>8. PeriodIsCovered'
  BY <1>2, <1>3, <1>6, ScheduleAssumption DEF ScheduleInv, PeriodIsCovered, Listed, ScheduleTypeOK
<1> QED
  BY <1>4, <1>5, <1>7, <1>8 DEF ScheduleInv

LEMMA EndOfTickInv ==
  ASSUME ScheduleInv, EndTick \/ AbortTick
  PROVE  ScheduleInv'
<1>1. /\ tick'.pc = "idle" /\ tick'.todo = {} /\ tick'.at = {} /\ tick'.age = 0
      /\ UNCHANGED <<table, targets, stamp>> /\ lost' = lost \union tick.at
  BY DEF EndTick, AbortTick, NoTick, ScheduleInv, TickInv
<1>2. ScheduleTypeOK'
  BY <1>1, ScheduleAssumption DEF ScheduleInv, ScheduleTypeOK, EndTick, AbortTick, NoTick
<1>3. TickInv' /\ SpacingInv' /\ PeriodIsCovered'
  BY <1>1 DEF ScheduleInv, TickInv, SpacingInv, PeriodIsCovered, Listed
<1> QED
  BY <1>2, <1>3 DEF ScheduleInv

(* Waits shrink as stamps and the tick grow older; a stamp too old to      *)
(* matter stays so.                                                        *)
LEMMA TimePassesInv ==
  ASSUME ScheduleInv, TimePasses
  PROVE  ScheduleInv'
<1>1. /\ tick'.pc = tick.pc /\ tick'.todo = tick.todo /\ tick'.at = tick.at
      /\ tick' \in [pc : {"idle", "items", "mark"}, todo : SUBSET ScheduleIds,
                    at : SUBSET ScheduleIds, age : 0 .. MaxTickAge]
      /\ tick.pc # "idle" => tick'.age = tick.age + 1 /\ tick.age < MaxTickAge
      /\ UNCHANGED <<targets, lost>>
  BY ScheduleAssumption DEF TimePasses, ScheduleInv, ScheduleTypeOK
<1>2. ASSUME NEW s \in ScheduleIds
      PROVE  /\ table'[s] \in ScheduleRow
             /\ table'[s].status = table[s].status
             /\ table[s].wait \in 0 .. Interval
             /\ table'[s].wait = IF table[s].wait > 0 THEN table[s].wait - 1 ELSE 0
  <2>1. table[s] \in ScheduleRow /\ table[s].wait \in 0 .. Interval
    BY DEF ScheduleInv, ScheduleTypeOK, ScheduleRow
  <2>2. CASE table[s].wait > 0
    <3>1. table[s].wait - 1 \in 0 .. Interval
      BY <2>1, <2>2, ScheduleAssumption
    <3>2. table'[s] = [table[s] EXCEPT !.wait = table[s].wait - 1]
      BY <2>2 DEF TimePasses
    <3> QED
      BY <2>1, <2>2, <3>1, <3>2 DEF ScheduleRow
  <2>3. CASE ~ (table[s].wait > 0)
    BY <2>1, <2>3, ScheduleAssumption DEF TimePasses
  <2> QED
    BY <2>2, <2>3
<1>3. ASSUME NEW s \in ScheduleIds
      PROVE  /\ stamp[s] \in 0 .. Old /\ stamp'[s] \in 0 .. Old
             /\ stamp'[s] = IF stamp[s] < Old THEN stamp[s] + 1 ELSE Old
  BY ScheduleAssumption DEF TimePasses, ScheduleInv, ScheduleTypeOK, Old
<1>4. ScheduleTypeOK'
  BY <1>1, <1>2, <1>3 DEF ScheduleInv, ScheduleTypeOK, TimePasses
<1>5. TickInv'
  <2>1. ASSUME NEW s \in ScheduleIds, tick.at = {s}, stamp[s] = tick.age, tick.pc = "mark"
        PROVE  stamp'[s] = tick'.age
    BY <1>1, <1>3, <2>1, ScheduleAssumption DEF Old, ScheduleInv, ScheduleTypeOK
  <2>2. ASSUME NEW s \in tick.todo
        PROVE  /\ table'[s].wait = 0 /\ table'[s].status # "unused"
               /\ stamp'[s] >= Interval + tick'.age \/ s \in lost
    <3>1. s \in ScheduleIds /\ tick.pc # "idle" /\ tick.age \in 0 .. MaxTickAge
      BY <2>2 DEF ScheduleInv, ScheduleTypeOK, TickInv
    <3>2. table[s].wait = 0 /\ table[s].status # "unused"
          /\ (stamp[s] >= Interval + tick.age \/ s \in lost)
      BY <2>2 DEF ScheduleInv, TickInv
    <3>3. stamp[s] >= Interval + tick.age => stamp'[s] >= Interval + tick'.age
      BY <1>1, <1>3, <3>1, ScheduleAssumption DEF Old
    <3> QED
      BY <1>2, <3>1, <3>2, <3>3
  <2> QED
    BY <1>1, <2>1, <2>2 DEF ScheduleInv, TickInv
<1>6. SpacingInv'
  <2> SUFFICES ASSUME NEW s \in ScheduleIds
               PROVE  /\ table'[s].status = "unused" => stamp'[s] = Old /\ s \notin tick'.at
                      /\ table'[s].status = "listed" /\ s \notin lost' \union tick'.at
                           => stamp'[s] + table'[s].wait >= Interval
    BY DEF SpacingInv, Listed
  <2>1. /\ table[s].status = "unused" => stamp[s] = Old /\ s \notin tick.at
        /\ table[s].status = "listed" /\ s \notin lost \union tick.at
             => stamp[s] + table[s].wait >= Interval
    BY DEF ScheduleInv, SpacingInv, Listed
  <2>2. stamp[s] + table[s].wait >= Interval => stamp'[s] + table'[s].wait >= Interval
    BY <1>2, <1>3, ScheduleAssumption DEF Old
  <2> QED
    BY <1>1, <1>2, <1>3, <2>1, <2>2
<1>7. PeriodIsCovered'
  <2> SUFFICES ASSUME NEW s \in targets, table'[s].status = "listed", table'[s].wait > 0
               PROVE  stamp'[s] + table'[s].wait <= Interval
    BY <1>1 DEF PeriodIsCovered, Listed
  <2>1. s \in ScheduleIds
    BY DEF ScheduleInv, ScheduleTypeOK
  <2>2. stamp[s] + table[s].wait <= Interval /\ table[s].wait > 0
    BY <1>2, <2>1, ScheduleAssumption DEF ScheduleInv, PeriodIsCovered, Listed
  <2> QED
    BY <1>2, <1>3, <2>1, <2>2, ScheduleAssumption DEF Old
<1> QED
  BY <1>4, <1>5, <1>6, <1>7 DEF ScheduleInv

LEMMA ScheduleNextInv ==
  ASSUME ScheduleInv, [ScheduleNext]_schedVars
  PROVE  ScheduleInv'
<1>1. ASSUME NEW s \in ScheduleIds, ForgetTarget(s) PROVE ScheduleInv'
  BY <1>1 DEF ForgetTarget, ScheduleInv, ScheduleTypeOK, TickInv, SpacingInv, PeriodIsCovered, Listed
<1>2. ASSUME NEW s \in ScheduleIds, EnqueueFails(s) PROVE ScheduleInv'
  <2>1. /\ tick'.todo = tick.todo \ {s}
        /\ tick'.pc = tick.pc /\ tick'.at = tick.at /\ tick'.age = tick.age
        /\ UNCHANGED <<table, targets, stamp, lost>> /\ tick.pc = "items"
    BY <1>2 DEF EnqueueFails, ScheduleInv, ScheduleTypeOK
  <2>2. ScheduleTypeOK'
    BY <1>2 DEF EnqueueFails, ScheduleInv, ScheduleTypeOK
  <2>3. TickInv' /\ SpacingInv' /\ PeriodIsCovered'
    BY <2>1 DEF ScheduleInv, TickInv, SpacingInv, PeriodIsCovered, Listed
  <2> QED
    BY <2>2, <2>3 DEF ScheduleInv
<1>3. CASE UNCHANGED schedVars
  BY <1>3 DEF schedVars, ScheduleInv, ScheduleTypeOK, TickInv, SpacingInv, PeriodIsCovered, Listed
<1> QED
  BY <1>1, <1>2, <1>3, CreateScheduleInv, DeleteScheduleInv, StartTickInv, SnoozeInv,
     EnqueueInv, MarkInv, EndOfTickInv, TimePassesInv
  DEF ScheduleNext

(* No failed creation, aborted tick or crash makes a schedule with a       *)
(* target skip a run: it never waits beyond the period of its latest job.  *)
THEOREM PeriodsAreCovered == ScheduleSpec => []PeriodIsCovered
<1>1. ScheduleInv => PeriodIsCovered
  BY DEF ScheduleInv
<1> QED
  BY <1>1, ScheduleInitInv, ScheduleNextInv, PTL DEF ScheduleSpec

(* Two jobs of one schedule are stamped at least an interval apart, however *)
(* late or slow the ticks are, unless the earlier one was not written back. *)
THEOREM RunsAreSpaced == ScheduleSpec => SpacedRuns
<1>1. ScheduleInv /\ [ScheduleNext]_schedVars
        => [\A s \in ScheduleIds : tick'.pc = "mark" /\ tick'.at = {s} /\ tick.pc = "items" =>
              stamp[s] >= Interval + tick.age \/ s \in lost]_schedVars
  <2> SUFFICES ASSUME ScheduleInv, ScheduleNext, NEW s \in ScheduleIds,
                      tick'.pc = "mark", tick'.at = {s}, tick.pc = "items"
               PROVE  stamp[s] >= Interval + tick.age \/ s \in lost
    OBVIOUS
  <2>1. ASSUME NEW u \in ScheduleIds, Enqueue(u)
        PROVE  stamp[s] >= Interval + tick.age \/ s \in lost
    <3>1. tick'.at = {u}
      BY <2>1 DEF Enqueue, ScheduleInv, ScheduleTypeOK
    <3>2. s = u /\ u \in tick.todo
      BY <2>1, <3>1 DEF Enqueue
    <3> QED
      BY <3>2 DEF ScheduleInv, TickInv
  <2>2. ASSUME NEW u \in ScheduleIds,
               \/ CreateSchedule(u) \/ DeleteSchedule(u) \/ ForgetTarget(u)
               \/ Snooze(u) \/ EnqueueFails(u)
        PROVE  tick'.pc # "mark"
    BY <2>2 DEF CreateSchedule, DeleteSchedule, ForgetTarget, Snooze, EnqueueFails,
                ScheduleInv, ScheduleTypeOK
  <2>3. ASSUME StartTick \/ Mark \/ EndTick \/ AbortTick \/ TimePasses
        PROVE  tick'.pc # "mark"
    BY <2>3 DEF StartTick, Mark, EndTick, AbortTick, TimePasses, NoTick,
                ScheduleInv, ScheduleTypeOK
  <2> QED
    BY <2>1, <2>2, <2>3 DEF ScheduleNext
<1> QED
  BY <1>1, ScheduleInitInv, ScheduleNextInv, PTL DEF ScheduleSpec, SpacedRuns

-----------------------------------------------------------------------------
(* Credentials.  The files are changed without a lock; what is proved is   *)
(* about requests that come one after the other, each of which may fail at *)
(* any command or be cut short by the death of the process.                *)
OneAtATime == \A a, b \in Operators : a = b

RequestSteps ==
  {"idle", "failed", "start", "install", "verify", "prove", "backup", "promoteKey",
   "promotePub", "reinstall", "clean", "delete", "done"}

Request == [kind : {"none", "ensure", "rotate", "revoke"}, pc : RequestSteps,
            old : Nat, new : Nat, password : BOOLEAN]

CredentialTypeOK ==
  /\ transport \in {"ssh", "winrm"}
  /\ pairs \in Nat
  /\ remote \subseteq 1 .. pairs
  /\ files \in [Names -> 0 .. pairs]
  /\ op \in [Operators -> Request]
  /\ established \in BOOLEAN

(* Where the pairs are while a rotation is under way: the newest pair is   *)
(* staged, then proved, then promoted one half after the other, and until  *)
(* the old pair is withdrawn a working copy of it remains.                 *)
RotationInv(o) ==
  op[o].kind = "rotate" =>
    /\ op[o].pc \in {"start", "prove", "backup", "promoteKey", "promotePub", "reinstall",
                     "clean", "done"}
    /\ op[o].pc \in {"start", "prove", "backup", "promoteKey", "reinstall"} =>
         /\ files["newKey"] = pairs /\ files["newPub"] = pairs
         /\ files["key"] \in 1 .. pairs - 1 /\ files["pub"] \in 1 .. pairs - 1
         /\ op[o].old = files["pub"]
         /\ transport = "winrm" => files["oldKey"] = files["key"] /\ files["oldPub"] = files["pub"]
    /\ op[o].pc \in {"prove", "backup", "promoteKey", "promotePub"} => op[o].new = pairs
    /\ op[o].pc \in {"backup", "promoteKey", "promotePub", "clean"} => op[o].new \in remote
    /\ op[o].pc = "reinstall" => transport = "winrm"
    /\ op[o].pc = "promoteKey" =>
         files["oldKey"] = files["key"] /\ files["oldPub"] = files["pub"]
    /\ op[o].pc = "promotePub" =>
         /\ files["key"] = pairs /\ files["newPub"] = pairs
         /\ files["pub"] \in 1 .. pairs - 1 /\ files["oldPub"] = files["pub"]
         /\ op[o].old = files["pub"]
         /\ files["oldKey"] \in 1 .. pairs - 1
         /\ transport = "ssh" /\ established => files["oldKey"] \in remote
    /\ op[o].pc = "clean" =>
         files["key"] = op[o].new /\ files["pub"] = op[o].new /\ op[o].old # op[o].new
    /\ op[o].pc = "done" =>
         /\ files["key"] = op[o].new /\ files["pub"] = op[o].new /\ op[o].new \in remote
         /\ op[o].old \notin remote /\ files["oldKey"] = NoPair /\ files["oldPub"] = NoPair

RevocationInv(o) == op[o].kind = "revoke" /\ op[o].pc = "delete" => ~ established

CredentialInv ==
  /\ CredentialTypeOK
  /\ NeverLockedOut
  /\ \A o \in Operators : RotationInv(o) /\ RevocationInv(o)

(* A request moves on.                                                     *)
LEMMA GoRequest ==
  ASSUME CredentialTypeOK, NEW o \in Operators, NEW pc \in RequestSteps, Go(o, pc)
  PROVE  /\ op' \in [Operators -> Request]
         /\ op'[o].kind = op[o].kind /\ op'[o].pc = pc
         /\ op'[o].old = op[o].old /\ op'[o].new = op[o].new
<1>1. op[o] \in Request /\ op \in [Operators -> Request]
  BY DEF CredentialTypeOK
<1>2. [op[o] EXCEPT !.pc = pc] \in Request
  BY <1>1 DEF Request
<1>3. op' = [op EXCEPT ![o] = [op[o] EXCEPT !.pc = pc]]
  BY <1>1 DEF Go
<1> QED
  BY <1>1, <1>2, <1>3 DEF Request

(* A request that gives up has nothing left to do.                         *)
LEMMA GiveUpRequest ==
  ASSUME CredentialTypeOK, NEW o \in Operators, GiveUp(o)
  PROVE  op' \in [Operators -> Request] /\ op'[o].kind = "none"
<1>1. [Ready EXCEPT !.pc = "failed"] \in Request /\ [Ready EXCEPT !.pc = "failed"].kind = "none"
  BY DEF Ready, Request, RequestSteps, NoPair
<1> QED
  BY <1>1 DEF CredentialTypeOK, GiveUp

(* A request begins.                                                       *)
LEMMA BegunRequest ==
  ASSUME CredentialTypeOK, NEW o \in Operators, NEW kind \in {"ensure", "rotate", "revoke"},
         NEW old \in Nat, Begun(o, kind, old)
  PROVE  /\ op' \in [Operators -> Request]
         /\ op'[o].kind = kind /\ op'[o].pc = "start"
         /\ op'[o].old = old
BY DEF CredentialTypeOK, Begun, Request, RequestSteps, NoPair

(* What is not removed or written stays.                                   *)
LEMMA RemovedFiles ==
  ASSUME CredentialTypeOK, NEW names \in SUBSET Names
  PROVE  /\ Removed(names) \in [Names -> 0 .. pairs]
         /\ \A n \in Names : Removed(names)[n] = IF n \in names THEN NoPair ELSE files[n]
BY DEF CredentialTypeOK, Removed, NoPair

(* NoPair is the pair of no login.                                         *)
LEMMA LoginNeedsPair ==
  ASSUME CredentialTypeOK
  PROVE  NoPair \notin remote
BY DEF CredentialTypeOK, NoPair

(* Access is kept by a step that keeps the managed pair and its backup and *)
(* withdraws nothing.                                                      *)
LEMMA AccessKept ==
  ASSUME NeverLockedOut, UNCHANGED <<transport, established>>, remote \subseteq remote',
         \A n \in {"key", "pub", "oldKey", "oldPub"} : files'[n] = files[n]
  PROVE  NeverLockedOut'
BY DEF NeverLockedOut, Works

(* With one request at a time, what holds of it is the invariant.          *)
LEMMA InvByRequest ==
  ASSUME OneAtATime, NEW o \in Operators, CredentialTypeOK', NeverLockedOut',
         RotationInv(o)', RevocationInv(o)'
  PROVE  CredentialInv'
<1>1. ASSUME NEW a \in Operators PROVE a = o
  BY DEF OneAtATime
<1> QED
  BY <1>1 DEF CredentialInv

(* A request that is over, or only bootstraps, leaves nothing to show.     *)
LEMMA InvBetween ==
  ASSUME OneAtATime, NEW o \in Operators, CredentialTypeOK', NeverLockedOut',
         op'[o].kind \in {"none", "ensure"}
  PROVE  CredentialInv'
BY InvByRequest DEF RotationInv, RevocationInv

-----------------------------------------------------------------------------
LEMMA CredentialInitInv == CredentialInit => CredentialInv
<1> SUFFICES ASSUME CredentialInit PROVE CredentialInv
  OBVIOUS
<1>1. Ready \in Request /\ Ready.kind = "none"
  BY DEF Ready, Request, RequestSteps, NoPair
<1>2. CredentialTypeOK
  BY <1>1, CredentialAssumption DEF CredentialInit, CredentialTypeOK, NoPair
<1>3. NeverLockedOut
  BY DEF CredentialInit, NeverLockedOut, Works, Names
<1>4. \A o \in Operators : RotationInv(o) /\ RevocationInv(o)
  BY <1>1 DEF CredentialInit, RotationInv, RevocationInv
<1> QED
  BY <1>2, <1>3, <1>4 DEF CredentialInv

(* Bootstrap generates a pair only where none can be in use.               *)
LEMMA StartEnsureInv ==
  ASSUME OneAtATime, CredentialInv, NEW o \in Operators, StartEnsure(o)
  PROVE  CredentialInv'
<1>1. CredentialTypeOK /\ op' \in [Operators -> Request] /\ op'[o].kind = "ensure"
  BY BegunRequest DEF CredentialInv, StartEnsure, NoPair
<1>2. CASE UNCHANGED <<files, pairs>>
  <2>1. CredentialTypeOK'
    BY <1>1, <1>2 DEF CredentialTypeOK, StartEnsure
  <2>2. NeverLockedOut'
    BY <1>2, AccessKept DEF CredentialInv, StartEnsure
  <2> QED
    BY <1>1, <2>1, <2>2, InvBetween
<1>3. CASE /\ ~ (Exists("key") /\ (transport = "ssh" \/ Exists("pub")))
           /\ pairs' = pairs + 1
           /\ files' = [files EXCEPT !["key"] = pairs + 1, !["pub"] = pairs + 1]
  <2>1. CredentialTypeOK'
    <3>1. pairs' \in Nat /\ 0 .. pairs \subseteq 0 .. pairs' /\ 1 .. pairs \subseteq 1 .. pairs'
          /\ pairs + 1 \in 0 .. pairs'
      BY <1>1, <1>3 DEF CredentialTypeOK
    <3>2. files' \in [Names -> 0 .. pairs']
      BY <1>1, <1>3, <3>1 DEF CredentialTypeOK, Names
    <3> QED
      BY <1>1, <3>1, <3>2 DEF CredentialTypeOK, StartEnsure
  <2>2. ~ Works("key", "pub")
    BY <1>1, <1>3, LoginNeedsPair DEF Works, Exists, CredentialTypeOK
  <2>3. files'["oldKey"] = files["oldKey"] /\ files'["oldPub"] = files["oldPub"]
    BY <1>1, <1>3 DEF CredentialTypeOK, Names
  <2>4. NeverLockedOut'
    BY <2>2, <2>3 DEF CredentialInv, NeverLockedOut, Works, StartEnsure
  <2> QED
    BY <1>1, <2>1, <2>4, InvBetween
<1> QED
  BY <1>2, <1>3 DEF StartEnsure

LEMMA ProbeEnsureInv ==
  ASSUME OneAtATime, CredentialInv, NEW o \in Operators, ProbeEnsure(o) \/ VerifyEnsure(o)
  PROVE  CredentialInv'
<1>1. /\ CredentialTypeOK /\ UNCHANGED <<transport, remote, files, pairs>>
      /\ op[o].kind = "ensure"
      /\ Go(o, "done") \/ Go(o, "install") \/ GiveUp(o)
      /\ established' = established \/ (established' = TRUE /\ Works("key", "pub"))
  BY DEF CredentialInv, ProbeEnsure, VerifyEnsure, At
<1>2. op' \in [Operators -> Request] /\ op'[o].kind \in {"none", "ensure"}
  BY <1>1, GoRequest, GiveUpRequest DEF RequestSteps
<1>3. CredentialTypeOK'
  <2>1. established' \in BOOLEAN
    BY <1>1, Zenon DEF CredentialTypeOK
  <2>2. /\ transport' \in {"ssh", "winrm"} /\ pairs' \in Nat /\ remote' \subseteq 1 .. pairs'
        /\ files' \in [Names -> 0 .. pairs']
    BY <1>1 DEF CredentialTypeOK
  <2> QED
    BY <1>2, <2>1, <2>2, Zenon DEF CredentialTypeOK
<1>4. NeverLockedOut'
  BY <1>1 DEF CredentialInv, NeverLockedOut, Works
<1> QED
  BY <1>2, <1>3, <1>4, InvBetween

LEMMA InstallEnsureInv ==
  ASSUME OneAtATime, CredentialInv, NEW o \in Operators, InstallEnsure(o)
  PROVE  CredentialInv'
<1>1. /\ CredentialTypeOK /\ UNCHANGED <<transport, established, files, pairs>>
      /\ op[o].kind = "ensure"
      /\ Go(o, "verify") \/ GiveUp(o)
      /\ remote' = remote \/ (Exists("pub") /\ remote' = remote \union {files["pub"]})
  BY DEF CredentialInv, InstallEnsure, At, Outcome
<1>2. op' \in [Operators -> Request] /\ op'[o].kind \in {"none", "ensure"}
  BY <1>1, GoRequest, GiveUpRequest DEF RequestSteps
<1>3. CredentialTypeOK'
  <2>1. Exists("pub") => files["pub"] \in 1 .. pairs
    BY <1>1 DEF CredentialTypeOK, Exists, NoPair, Names
  <2>2. remote \subseteq 1 .. pairs
    BY <1>1 DEF CredentialTypeOK
  <2>3. CASE remote' = remote
    BY <1>1, <1>2, <2>2, <2>3 DEF CredentialTypeOK
  <2>4. CASE Exists("pub") /\ remote' = remote \union {files["pub"]}
    <3>1. remote' \subseteq 1 .. pairs
      BY <2>1, <2>2, <2>4
    <3> QED
      BY <1>1, <1>2, <3>1 DEF CredentialTypeOK
  <2> QED
    BY <1>1, <2>3, <2>4
<1>4. NeverLockedOut'
  BY <1>1, AccessKept DEF CredentialInv
<1> QED
  BY <1>2, <1>3, <1>4, InvBetween

-----------------------------------------------------------------------------
(* Rotation.                                                               *)

LEMMA StartRotateInv ==
  ASSUME OneAtATime, CredentialInv, NEW o \in Operators, StartRotate(o)
  PROVE  CredentialInv'
<1>1. /\ CredentialTypeOK /\ UNCHANGED <<transport, established, remote>>
      /\ pairs \in Nat /\ pairs' = pairs + 1 /\ transport \in {"ssh", "winrm"}
      /\ files \in [Names -> 0 .. pairs]
      /\ files["key"] # NoPair /\ files["pub"] # NoPair
      /\ files["oldKey"] = NoPair /\ files["oldPub"] = NoPair
  BY DEF CredentialInv, CredentialTypeOK, StartRotate, Exists
<1>2. files["key"] \in 1 .. pairs /\ files["pub"] \in 1 .. pairs /\ files["pub"] \in Nat
  BY <1>1 DEF Names, NoPair
<1>3. /\ op' \in [Operators -> Request]
      /\ op'[o].kind = "rotate" /\ op'[o].pc = "start" /\ op'[o].old = files["pub"]
  BY <1>1, <1>2, BegunRequest DEF StartRotate
<1>4. /\ files' \in [Names -> 0 .. pairs']
      /\ files'["key"] = files["key"] /\ files'["pub"] = files["pub"]
      /\ files'["newKey"] = pairs' /\ files'["newPub"] = pairs'
      /\ transport = "winrm" =>
           files'["oldKey"] = files["key"] /\ files'["oldPub"] = files["pub"]
      /\ transport = "ssh" =>
           files'["oldKey"] = files["oldKey"] /\ files'["oldPub"] = files["oldPub"]
  BY <1>1, <1>2 DEF StartRotate, Names
<1>5. CredentialTypeOK'
  <2>1. 1 .. pairs \subseteq 1 .. pairs'
    BY <1>1
  <2> QED
    BY <1>1, <1>3, <1>4, <2>1 DEF CredentialTypeOK
<1>6. ~ Works("oldKey", "oldPub")
  BY <1>1, LoginNeedsPair DEF Works
<1>7. NeverLockedOut'
  BY <1>1, <1>4, <1>6 DEF CredentialInv, NeverLockedOut, Works
<1>8. files'["key"] \in 1 .. pairs' - 1 /\ files'["pub"] \in 1 .. pairs' - 1
  BY <1>1, <1>2, <1>4
<1>9. RotationInv(o)' /\ RevocationInv(o)'
  BY <1>1, <1>3, <1>4, <1>8 DEF RotationInv, RevocationInv
<1> QED
  BY <1>5, <1>7, <1>9, InvByRequest

LEMMA InstallNewInv ==
  ASSUME OneAtATime, CredentialInv, NEW o \in Operators, InstallNew(o)
  PROVE  CredentialInv'
<1>1. /\ CredentialTypeOK /\ UNCHANGED <<transport, established, pairs>>
      /\ op[o].kind = "rotate" /\ op[o].pc = "start" /\ RotationInv(o)
      /\ remote' \in {remote, remote \union {files["newPub"]}}
  BY DEF CredentialInv, InstallNew, At, Outcome
<1>2. /\ files["newKey"] = pairs /\ files["newPub"] = pairs /\ pairs \in Nat
      /\ files["key"] \in 1 .. pairs - 1
  BY <1>1 DEF RotationInv, CredentialTypeOK
<1>3. remote \subseteq remote' /\ remote' \subseteq 1 .. pairs
  BY <1>1, <1>2 DEF CredentialTypeOK
<1>4. CASE /\ op' = [op EXCEPT ![o].pc = "prove", ![o].new = files["newPub"]]
           /\ UNCHANGED files
  <2> DEFINE r == [op[o] EXCEPT !.pc = "prove", !.new = pairs]
  <2>1. op[o] \in Request /\ op \in [Operators -> Request]
    BY <1>1 DEF CredentialTypeOK
  <2>2. r \in Request /\ r.kind = "rotate" /\ r.pc = "prove" /\ r.new = pairs /\ r.old = op[o].old
    BY <1>1, <1>2, <2>1 DEF Request, RequestSteps
  <2>3. op' = [op EXCEPT ![o] = r]
    BY <1>2, <1>4, <2>1
  <2>4. op' \in [Operators -> Request] /\ op'[o] = r
    BY <2>1, <2>2, <2>3
  <2>5. CredentialTypeOK'
    BY <1>1, <1>3, <1>4, <2>4 DEF CredentialTypeOK
  <2>6. NeverLockedOut'
    BY <1>1, <1>3, <1>4, AccessKept DEF CredentialInv
  <2>7. RotationInv(o)' /\ RevocationInv(o)'
    BY <1>1, <1>4, <2>2, <2>4 DEF RotationInv, RevocationInv
  <2> QED
    BY <2>5, <2>6, <2>7, InvByRequest
<1>5. CASE GiveUp(o) /\ files' = Removed(Staged)
  <2>1. files' \in [Names -> 0 .. pairs]
        /\ \A n \in {"key", "pub", "oldKey", "oldPub"} : files'[n] = files[n]
    BY <1>1, <1>5, RemovedFiles DEF Staged, Names
  <2>2. op' \in [Operators -> Request] /\ op'[o].kind = "none"
    BY <1>1, <1>5, GiveUpRequest
  <2>3. CredentialTypeOK'
    BY <1>1, <1>3, <2>1, <2>2 DEF CredentialTypeOK
  <2>4. NeverLockedOut'
    BY <1>1, <1>3, <2>1, AccessKept DEF CredentialInv
  <2> QED
    BY <2>2, <2>3, <2>4, InvBetween
<1>6. CASE transport = "winrm" /\ Go(o, "reinstall") /\ UNCHANGED files
  <2>1. /\ op' \in [Operators -> Request] /\ op'[o].kind = "rotate"
        /\ op'[o].pc = "reinstall" /\ op'[o].old = op[o].old
    BY <1>1, <1>6, GoRequest DEF RequestSteps
  <2>2. CredentialTypeOK'
    BY <1>1, <1>3, <1>6, <2>1 DEF CredentialTypeOK
  <2>3. NeverLockedOut'
    BY <1>1, <1>3, <1>6, AccessKept DEF CredentialInv
  <2>4. RotationInv(o)' /\ RevocationInv(o)'
    BY <1>1, <1>6, <2>1 DEF RotationInv, RevocationInv
  <2> QED
    BY <2>2, <2>3, <2>4, InvByRequest
<1> QED
  BY <1>1, <1>4, <1>5, <1>6 DEF InstallNew, CredentialTypeOK

LEMMA ProveNewInv ==
  ASSUME OneAtATime, CredentialInv, NEW o \in Operators, ProveNew(o)
  PROVE  CredentialInv'
<1>1. /\ CredentialTypeOK /\ UNCHANGED <<transport, established, pairs>>
      /\ op[o].kind = "rotate" /\ op[o].pc = "prove" /\ RotationInv(o) /\ NeverLockedOut
  BY DEF CredentialInv, ProveNew, At
<1>2. /\ files["newKey"] = pairs /\ files["newPub"] = pairs /\ pairs \in Nat
      /\ files["key"] \in 1 .. pairs - 1 /\ op[o].new = pairs
  BY <1>1 DEF RotationInv, CredentialTypeOK
<1>3. CASE Works("newKey", "newPub") /\ Go(o, "backup") /\ UNCHANGED <<remote, files>>
  <2>1. /\ op' \in [Operators -> Request] /\ op'[o].kind = "rotate" /\ op'[o].pc = "backup"
        /\ op'[o].old = op[o].old /\ op'[o].new = op[o].new
    BY <1>1, <1>3, GoRequest DEF RequestSteps
  <2>2. CredentialTypeOK'
    BY <1>1, <1>3, <2>1 DEF CredentialTypeOK
  <2>3. NeverLockedOut'
    BY <1>1, <1>3, AccessKept
  <2>4. op[o].new \in remote
    BY <1>2, <1>3 DEF Works
  <2>5. RotationInv(o)' /\ RevocationInv(o)'
    BY <1>1, <1>3, <2>1, <2>4 DEF RotationInv, RevocationInv
  <2> QED
    BY <2>2, <2>3, <2>5, InvByRequest
<1>4. CASE /\ transport = "ssh" /\ Outcome(remote \ {op[o].new})
           /\ GiveUp(o) /\ files' = Removed(Staged)
  <2>1. files' \in [Names -> 0 .. pairs]
        /\ \A n \in {"key", "pub", "oldKey", "oldPub"} : files'[n] = files[n]
    BY <1>1, <1>4, RemovedFiles DEF Staged, Names
  <2>2. op' \in [Operators -> Request] /\ op'[o].kind = "none"
    BY <1>1, <1>4, GiveUpRequest
  <2>3. CredentialTypeOK'
    BY <1>1, <1>4, <2>1, <2>2 DEF CredentialTypeOK, Outcome
  <2>4. files["key"] # op[o].new
    BY <1>2
  <2>5. NeverLockedOut'
    BY <1>1, <1>4, <2>1, <2>4 DEF NeverLockedOut, Works, Outcome
  <2> QED
    BY <2>2, <2>3, <2>5, InvBetween
<1>5. CASE transport = "winrm" /\ Go(o, "reinstall") /\ UNCHANGED <<remote, files>>
  <2>1. /\ op' \in [Operators -> Request] /\ op'[o].kind = "rotate"
        /\ op'[o].pc = "reinstall" /\ op'[o].old = op[o].old
    BY <1>1, <1>5, GoRequest DEF RequestSteps
  <2>2. CredentialTypeOK'
    BY <1>1, <1>5, <2>1 DEF CredentialTypeOK
  <2>3. NeverLockedOut'
    BY <1>1, <1>5, AccessKept
  <2>4. RotationInv(o)' /\ RevocationInv(o)'
    BY <1>1, <1>5, <2>1 DEF RotationInv, RevocationInv
  <2> QED
    BY <2>2, <2>3, <2>4, InvByRequest
<1> QED
  BY <1>3, <1>4, <1>5 DEF ProveNew

LEMMA BackUpInv ==
  ASSUME OneAtATime, CredentialInv, NEW o \in Operators, BackUp(o)
  PROVE  CredentialInv'
<1>1. /\ CredentialTypeOK /\ UNCHANGED <<transport, established, pairs, remote>>
      /\ op[o].kind = "rotate" /\ op[o].pc = "backup" /\ RotationInv(o) /\ NeverLockedOut
      /\ files \in [Names -> 0 .. pairs] /\ transport \in {"ssh", "winrm"}
  BY DEF CredentialInv, BackUp, At, CredentialTypeOK
<1>2. CASE /\ Go(o, "promoteKey")
           /\ files' = IF transport = "winrm" THEN files
                       ELSE [files EXCEPT !["oldKey"] = files["key"], !["oldPub"] = files["pub"]]
  <2>1. /\ op' \in [Operators -> Request] /\ op'[o].kind = "rotate" /\ op'[o].pc = "promoteKey"
        /\ op'[o].old = op[o].old /\ op'[o].new = op[o].new
    BY <1>1, <1>2, GoRequest DEF RequestSteps
  <2>2. /\ files' \in [Names -> 0 .. pairs]
        /\ \A n \in {"key", "pub", "newKey", "newPub"} : files'[n] = files[n]
        /\ transport = "winrm" => files' = files
        /\ transport = "ssh" =>
             files'["oldKey"] = files["key"] /\ files'["oldPub"] = files["pub"]
    BY <1>1, <1>2 DEF Names
  <2>3. CredentialTypeOK'
    BY <1>1, <2>1, <2>2 DEF CredentialTypeOK
  <2>4. NeverLockedOut'
    BY <1>1, <2>2 DEF NeverLockedOut, Works
  <2>5. RotationInv(o)' /\ RevocationInv(o)'
    BY <1>1, <2>1, <2>2 DEF RotationInv, RevocationInv
  <2> QED
    BY <2>3, <2>4, <2>5, InvByRequest
<1>3. ASSUME transport = "ssh", GiveUp(o), NEW kept \in {NoPair, files["key"]},
             files' = [Removed(Staged) EXCEPT !["oldKey"] = kept]
      PROVE  CredentialInv'
  <2>1. /\ files' \in [Names -> 0 .. pairs]
        /\ files'["key"] = files["key"] /\ files'["pub"] = files["pub"]
    BY <1>1, <1>3, RemovedFiles DEF Staged, Names, NoPair, CredentialTypeOK
  <2>2. op' \in [Operators -> Request] /\ op'[o].kind = "none"
    BY <1>1, <1>3, GiveUpRequest
  <2>3. CredentialTypeOK'
    BY <1>1, <2>1, <2>2 DEF CredentialTypeOK
  <2>4. NeverLockedOut'
    BY <1>1, <1>3, <2>1 DEF NeverLockedOut, Works
  <2> QED
    BY <2>2, <2>3, <2>4, InvBetween
<1> QED
  BY <1>2, <1>3 DEF BackUp

(* Half promoted, the key is the new pair's: over SSH it logs in, over     *)
(* WinRM the backup does.                                                  *)
LEMMA PromoteKeyInv ==
  ASSUME OneAtATime, CredentialInv, NEW o \in Operators, PromoteKey(o)
  PROVE  CredentialInv'
<1>1. /\ CredentialTypeOK /\ UNCHANGED <<transport, established, pairs, remote>>
      /\ op[o].kind = "rotate" /\ op[o].pc = "promoteKey" /\ RotationInv(o) /\ NeverLockedOut
      /\ files \in [Names -> 0 .. pairs] /\ transport \in {"ssh", "winrm"}
  BY DEF CredentialInv, PromoteKey, Promote, At, CredentialTypeOK
<1>2. /\ op' \in [Operators -> Request] /\ op'[o].kind = "rotate" /\ op'[o].pc = "promotePub"
      /\ op'[o].old = op[o].old /\ op'[o].new = op[o].new
  BY <1>1, GoRequest DEF RequestSteps, PromoteKey, Promote
<1>3. /\ files["newKey"] = pairs /\ files["newPub"] = pairs
      /\ files["key"] \in 1 .. pairs - 1 /\ files["pub"] \in 1 .. pairs - 1
      /\ files["oldKey"] = files["key"] /\ files["oldPub"] = files["pub"]
      /\ op[o].new = pairs /\ pairs \in remote /\ op[o].old = files["pub"]
  BY <1>1 DEF RotationInv
<1>4. /\ files' \in [Names -> 0 .. pairs]
      /\ files'["key"] = pairs
      /\ \A n \in {"pub", "newPub", "oldKey", "oldPub"} : files'[n] = files[n]
  BY <1>1, <1>3 DEF PromoteKey, Promote, Names, NoPair, CredentialTypeOK
<1>5. CredentialTypeOK'
  BY <1>1, <1>2, <1>4 DEF CredentialTypeOK
<1>6. NeverLockedOut'
  BY <1>1, <1>3, <1>4 DEF NeverLockedOut, Works
<1>7. transport = "ssh" /\ established => files["key"] \in remote
  BY <1>1 DEF NeverLockedOut, Works
<1>8. RotationInv(o)' /\ RevocationInv(o)'
  BY <1>1, <1>2, <1>3, <1>4, <1>7 DEF RotationInv, RevocationInv
<1> QED
  BY <1>5, <1>6, <1>8, InvByRequest

LEMMA PromotePubInv ==
  ASSUME OneAtATime, CredentialInv, NEW o \in Operators, PromotePub(o)
  PROVE  CredentialInv'
<1>1. /\ CredentialTypeOK /\ UNCHANGED <<transport, established, pairs, remote>>
      /\ op[o].kind = "rotate" /\ op[o].pc = "promotePub" /\ RotationInv(o) /\ NeverLockedOut
      /\ files \in [Names -> 0 .. pairs] /\ pairs \in Nat
  BY DEF CredentialInv, PromotePub, Promote, At, CredentialTypeOK
<1>2. /\ op' \in [Operators -> Request] /\ op'[o].kind = "rotate" /\ op'[o].pc = "clean"
      /\ op'[o].old = op[o].old /\ op'[o].new = op[o].new
  BY <1>1, GoRequest DEF RequestSteps, PromotePub, Promote
<1>3. /\ files["key"] = pairs /\ files["newPub"] = pairs
      /\ op[o].new = pairs /\ pairs \in remote /\ op[o].old \in 1 .. pairs - 1
  BY <1>1 DEF RotationInv
<1>4. /\ files' \in [Names -> 0 .. pairs]
      /\ files'["pub"] = pairs
      /\ \A n \in {"key", "oldKey", "oldPub"} : files'[n] = files[n]
  BY <1>1, <1>3 DEF PromotePub, Promote, Names, NoPair
<1>5. CredentialTypeOK'
  BY <1>1, <1>2, <1>4 DEF CredentialTypeOK
<1>6. NeverLockedOut'
  BY <1>1, <1>3, <1>4 DEF NeverLockedOut, Works
<1>7. RotationInv(o)' /\ RevocationInv(o)'
  BY <1>1, <1>2, <1>3, <1>4 DEF RotationInv, RevocationInv
<1> QED
  BY <1>5, <1>6, <1>7, InvByRequest

(* What is put back is the pair that worked before.                        *)
LEMMA DemoteInv ==
  ASSUME OneAtATime, CredentialInv, NEW o \in Operators, Demote(o)
  PROVE  CredentialInv'
<1>1. /\ CredentialTypeOK /\ UNCHANGED <<transport, established, pairs>>
      /\ op[o].kind = "rotate" /\ op[o].pc \in {"promoteKey", "promotePub"}
      /\ RotationInv(o) /\ NeverLockedOut
      /\ files \in [Names -> 0 .. pairs] /\ pairs \in Nat /\ remote \subseteq 1 .. pairs
      /\ transport \in {"ssh", "winrm"}
  BY DEF CredentialInv, Demote, At, CredentialTypeOK
<1>2. op' \in [Operators -> Request] /\ op'[o].kind = "none"
  BY <1>1, GiveUpRequest DEF Demote
<1>3. /\ files["oldKey"] \in 1 .. pairs - 1 /\ files["oldPub"] \in 1 .. pairs - 1
      /\ op[o].new = pairs /\ op[o].old = files["oldPub"]
  BY <1>1 DEF RotationInv
<1>4. /\ files' \in [Names -> 0 .. pairs]
      /\ files'["key"] = files["oldKey"] /\ files'["pub"] = files["oldPub"]
  <2>1. files["oldKey"] # NoPair /\ files["oldPub"] # NoPair
    BY <1>3 DEF NoPair
  <2> DEFINE restored == [Removed(Staged) EXCEPT !["key"] = files["oldKey"], !["pub"] = files["oldPub"]]
  <2>2. restored \in [Names -> 0 .. pairs]
        /\ restored["key"] = files["oldKey"] /\ restored["pub"] = files["oldPub"]
    BY <1>1, <1>3, RemovedFiles DEF Staged, Names
  <2>3. files' = restored
        \/ files' = [restored EXCEPT !["oldKey"] = NoPair, !["oldPub"] = NoPair]
    BY <2>1 DEF Demote, Exists
  <2> HIDE DEF restored
  <2> QED
    BY <1>1, <2>2, <2>3 DEF Names, NoPair
<1>5. /\ remote' \subseteq 1 .. pairs
      /\ transport = "ssh" => remote \ {pairs} \subseteq remote'
      /\ transport = "winrm" => remote \subseteq remote'
  <2>1. \/ transport = "ssh" /\ remote' \in {remote, remote \ {op[o].new}}
        \/ transport = "winrm" /\ remote' \in {remote, remote \union {op[o].old}}
    BY DEF Demote, Outcome
  <2>2. op[o].old \in 1 .. pairs
    BY <1>1, <1>3
  <2> QED
    BY <1>1, <1>3, <2>1, <2>2
<1>6. CredentialTypeOK'
  BY <1>1, <1>2, <1>4, <1>5 DEF CredentialTypeOK
<1>7. NeverLockedOut'
  <2> SUFFICES ASSUME established PROVE Works("key", "pub")'
    BY <1>1 DEF NeverLockedOut
  <2>1. CASE transport = "ssh"
    <3>1. files["oldKey"] \in remote
      BY <1>1, <2>1 DEF NeverLockedOut, Works, RotationInv
    <3> QED
      BY <1>1, <1>3, <1>4, <1>5, <2>1, <3>1 DEF Works
  <2>2. CASE transport = "winrm"
    <3>1. Works("oldKey", "oldPub")
      <4>1. CASE op[o].pc = "promoteKey"
        BY <1>1, <4>1 DEF NeverLockedOut, Works, RotationInv
      <4>2. CASE op[o].pc = "promotePub"
        <5>1. files["key"] = pairs /\ files["pub"] \in 1 .. pairs - 1
          BY <1>1, <4>2 DEF RotationInv
        <5>2. ~ Works("key", "pub")
          BY <1>1, <2>2, <5>1 DEF Works
        <5> QED
          BY <1>1, <5>2 DEF NeverLockedOut
      <4> QED
        BY <1>1, <4>1, <4>2
    <3> QED
      BY <1>1, <1>4, <1>5, <2>2, <3>1 DEF Works
  <2> QED
    BY <1>1, <2>1, <2>2
<1> QED
  BY <1>2, <1>6, <1>7, InvBetween

LEMMA ReinstallInv ==
  ASSUME OneAtATime, CredentialInv, NEW o \in Operators, Reinstall(o)
  PROVE  CredentialInv'
<1>1. /\ CredentialTypeOK /\ UNCHANGED <<transport, established, pairs>>
      /\ op[o].kind = "rotate" /\ op[o].pc = "reinstall" /\ RotationInv(o) /\ NeverLockedOut
  BY DEF CredentialInv, Reinstall, At
<1>2. op' \in [Operators -> Request] /\ op'[o].kind = "none"
  BY <1>1, GiveUpRequest DEF Reinstall
<1>3. op[o].old \in 1 .. pairs /\ pairs \in Nat
      /\ files["oldKey"] = files["key"] /\ files["oldPub"] = files["pub"]
  BY <1>1 DEF RotationInv, CredentialTypeOK
<1>4. remote \subseteq remote' /\ remote' \subseteq 1 .. pairs
  BY <1>1, <1>3 DEF Reinstall, Outcome, CredentialTypeOK
<1>5. PICK names \in {Staged, Staged \union Backup} : files' = Removed(names)
  BY DEF Reinstall
<1>6. /\ files' \in [Names -> 0 .. pairs]
      /\ files'["key"] = files["key"] /\ files'["pub"] = files["pub"]
  <2>1. names \subseteq Names /\ "key" \notin names /\ "pub" \notin names
    BY <1>5 DEF Staged, Backup, Names
  <2> QED
    BY <1>1, <1>5, <2>1, RemovedFiles DEF Names
<1>7. CredentialTypeOK'
  BY <1>1, <1>2, <1>4, <1>6 DEF CredentialTypeOK
<1>8. NeverLockedOut'
  BY <1>1, <1>3, <1>4, <1>6 DEF NeverLockedOut, Works
<1> QED
  BY <1>2, <1>7, <1>8, InvBetween

(* The old pair is withdrawn once the new one is in both halves.           *)
LEMMA CleanInv ==
  ASSUME OneAtATime, CredentialInv, NEW o \in Operators, Clean(o)
  PROVE  CredentialInv'
<1>1. /\ CredentialTypeOK /\ UNCHANGED <<transport, established, pairs>>
      /\ op[o].kind = "rotate" /\ op[o].pc = "clean" /\ RotationInv(o)
  BY DEF CredentialInv, Clean, At
<1>2. /\ files["key"] = op[o].new /\ files["pub"] = op[o].new /\ op[o].old # op[o].new
      /\ op[o].new \in remote
  BY <1>1 DEF RotationInv
<1>3. CASE /\ remote' = remote \ {op[o].old}
           /\ files' = Removed(Backup) /\ Go(o, "done")
  <2>1. /\ op' \in [Operators -> Request] /\ op'[o].kind = "rotate" /\ op'[o].pc = "done"
        /\ op'[o].old = op[o].old /\ op'[o].new = op[o].new
    BY <1>1, <1>3, GoRequest DEF RequestSteps
  <2>2. /\ files' \in [Names -> 0 .. pairs]
        /\ files'["key"] = files["key"] /\ files'["pub"] = files["pub"]
        /\ files'["oldKey"] = NoPair /\ files'["oldPub"] = NoPair
    BY <1>1, <1>3, RemovedFiles DEF Backup, Names
  <2>3. CredentialTypeOK'
    BY <1>1, <1>3, <2>1, <2>2 DEF CredentialTypeOK
  <2>4. NeverLockedOut'
    BY <1>2, <1>3, <2>2 DEF NeverLockedOut, Works
  <2>5. RotationInv(o)' /\ RevocationInv(o)'
    BY <1>2, <1>3, <2>1, <2>2 DEF RotationInv, RevocationInv
  <2> QED
    BY <2>3, <2>4, <2>5, InvByRequest
<1>4. CASE /\ remote' \in {remote, remote \ {op[o].old}}
           /\ GiveUp(o) /\ UNCHANGED files
  <2>1. op' \in [Operators -> Request] /\ op'[o].kind = "none"
    BY <1>1, <1>4, GiveUpRequest
  <2>2. CredentialTypeOK'
    BY <1>1, <1>4, <2>1 DEF CredentialTypeOK
  <2>3. NeverLockedOut'
    BY <1>2, <1>4 DEF NeverLockedOut, Works
  <2> QED
    BY <2>1, <2>2, <2>3, InvBetween
<1> QED
  BY <1>3, <1>4 DEF Clean, Outcome

-----------------------------------------------------------------------------
(* Revocation.                                                             *)

LEMMA RevocationKeepsInv ==
  ASSUME OneAtATime, CredentialInv, NEW o \in Operators,
         StartRevoke(o) \/ Revoke(o) \/ DeleteFiles(o)
  PROVE  CredentialInv'
<1>1. CredentialTypeOK /\ NeverLockedOut /\ RevocationInv(o)
  BY DEF CredentialInv
<1>2. CASE StartRevoke(o)
  <2>1. files["pub"] \in Nat
    BY <1>1 DEF CredentialTypeOK, Names
  <2>2. op' \in [Operators -> Request] /\ op'[o].kind = "revoke" /\ op'[o].pc = "start"
    BY <1>1, <1>2, <2>1, BegunRequest DEF StartRevoke
  <2>3. CredentialTypeOK'
    BY <1>1, <1>2, <2>2 DEF CredentialTypeOK, StartRevoke
  <2>4. NeverLockedOut'
    BY <1>1, <1>2, AccessKept DEF StartRevoke
  <2> QED
    BY <2>2, <2>3, <2>4, InvByRequest DEF RotationInv, RevocationInv
<1>3. CASE Revoke(o) /\ GiveUp(o) /\ UNCHANGED <<remote, established>>
  <2>1. op' \in [Operators -> Request] /\ op'[o].kind = "none"
    BY <1>1, <1>3, GiveUpRequest
  <2>2. CredentialTypeOK'
    BY <1>1, <1>3, <2>1 DEF CredentialTypeOK, Revoke
  <2>3. NeverLockedOut'
    BY <1>1, <1>3, AccessKept DEF Revoke
  <2> QED
    BY <2>1, <2>2, <2>3, InvBetween
<1>4. CASE /\ Revoke(o) /\ established' = FALSE /\ remote' \in {remote, remote \ {op[o].old}}
           /\ Go(o, "delete") \/ GiveUp(o)
  <2>1. op' \in [Operators -> Request] /\ op'[o].kind \in {"none", "revoke"}
    BY <1>1, <1>4, GiveUpRequest, GoRequest DEF RequestSteps, Revoke, At
  <2>2. CredentialTypeOK'
    BY <1>1, <1>4, <2>1 DEF CredentialTypeOK, Revoke
  <2>3. NeverLockedOut'
    BY <1>4 DEF NeverLockedOut
  <2> QED
    BY <1>4, <2>1, <2>2, <2>3, InvByRequest DEF RotationInv, RevocationInv
<1>5. CASE DeleteFiles(o)
  <2>1. op' \in [Operators -> Request] /\ op'[o].kind = "revoke" /\ op'[o].pc = "done"
    BY <1>1, <1>5, GoRequest DEF RequestSteps, DeleteFiles, At
  <2>2. files' \in [Names -> 0 .. pairs]
    BY <1>1, <1>5, RemovedFiles DEF DeleteFiles, Names
  <2>3. CredentialTypeOK'
    BY <1>1, <1>5, <2>1, <2>2 DEF CredentialTypeOK, DeleteFiles
  <2>4. ~ established /\ UNCHANGED established
    BY <1>1, <1>5 DEF RevocationInv, DeleteFiles, At
  <2>5. NeverLockedOut'
    BY <2>4 DEF NeverLockedOut
  <2> QED
    BY <2>1, <2>3, <2>5, InvByRequest DEF RotationInv, RevocationInv
<1> QED
  BY <1>2, <1>3, <1>4, <1>5 DEF Revoke, Outcome

LEMMA CredentialNextInv ==
  ASSUME OneAtATime, CredentialInv, [CredentialNext]_credVars
  PROVE  CredentialInv'
<1>1. CASE ProcessDies
  <2>1. Ready \in Request /\ Ready.kind = "none"
    BY DEF Ready, Request, RequestSteps, NoPair
  <2>2. op' \in [Operators -> Request] /\ \A o \in Operators : op'[o].kind = "none"
    BY <1>1, <2>1 DEF ProcessDies
  <2>3. CredentialTypeOK'
    BY <1>1, <2>2 DEF CredentialInv, CredentialTypeOK, ProcessDies
  <2>4. NeverLockedOut'
    BY <1>1, AccessKept DEF CredentialInv, ProcessDies
  <2> QED
    BY <2>2, <2>3, <2>4 DEF CredentialInv, RotationInv, RevocationInv
<1>2. CASE UNCHANGED credVars
  BY <1>2 DEF credVars, CredentialInv, CredentialTypeOK, NeverLockedOut, Works,
              RotationInv, RevocationInv
<1> QED
  BY <1>1, <1>2, StartEnsureInv, ProbeEnsureInv, InstallEnsureInv, StartRotateInv, InstallNewInv,
     ProveNewInv, BackUpInv, PromoteKeyInv, PromotePubInv, DemoteInv, ReinstallInv, CleanInv,
     RevocationKeepsInv
  DEF CredentialNext

(* No failed, ambiguous or interrupted request locks Form out of a target  *)
(* it had access to, as long as requests do not overlap.                   *)
THEOREM AccessIsKept == OneAtATime /\ CredentialSpec => []NeverLockedOut
<1> SUFFICES ASSUME OneAtATime PROVE CredentialSpec => []NeverLockedOut
  OBVIOUS
<1>1. CredentialInv => NeverLockedOut
  BY DEF CredentialInv
<1>2. CredentialInv /\ [CredentialNext]_credVars => CredentialInv'
  BY CredentialNextInv
<1> QED
  BY <1>1, <1>2, CredentialInitInv, PTL DEF CredentialSpec

(* A rotation that reports success leaves the new pair in both halves,     *)
(* accepted, and no trace of the old one.                                  *)
THEOREM RotationsAreClean == OneAtATime /\ CredentialSpec => []RotationIsClean
<1> SUFFICES ASSUME OneAtATime PROVE CredentialSpec => []RotationIsClean
  OBVIOUS
<1>1. CredentialInv => RotationIsClean
  BY DEF CredentialInv, RotationInv, RotationIsClean, At, Exists
<1>2. CredentialInv /\ [CredentialNext]_credVars => CredentialInv'
  BY CredentialNextInv
<1> QED
  BY <1>1, <1>2, CredentialInitInv, PTL DEF CredentialSpec

-----------------------------------------------------------------------------
(***************************************************************************)
(* The record stores and their readers.                                    *)
(*                                                                         *)
(* The argument.  Ids grow and retention drops the oldest, so what a       *)
(* reader has passed is passed for good: a cursor is below everything it   *)
(* returned, unless its offset was used in another version of the file,    *)
(* where it lies no earlier, and a scan by offset has skipped no more than *)
(* the newer rows.                                                         *)
(* Of a lineage that was read once, what is left later is what it had up   *)
(* to the same newest id (Tracks); so number and newest id tell two        *)
(* readings apart, and a row that came and went in between would need more *)
(* appends than one request sees.                                          *)
(***************************************************************************)
CursorKinds == {"cursor", "read", "more"}
ReadKinds == CursorKinds \union {"scan", "done", "expired"}

ReadRequests ==
  [kind : ReadKinds, s : Stores, anchor : Nat, offset : Nat, file : Nat, ident : Nat,
   due : SUBSET Nat, got : SUBSET Nat, twice : BOOLEAN, moved : BOOLEAN]

UpTo(ids, n) == ids \in SUBSET Nat /\ \A x \in ids : 1 <= x /\ x <= n

StoreInv ==
  /\ rows = [s \in Stores |-> rows[s]]
  /\ \A s \in Stores : UpTo(Ids(s), lastId[s])
  /\ lastId \in [Stores -> Nat] /\ file \in [Stores -> Nat] /\ burst \in Nat
  /\ req.kind \in {"none", "missing"} \union ReadKinds \union ProjectionKinds

\* What the readers by cursor and by offset have passed.
ReadInv ==
  /\ req.kind \in ReadKinds => /\ req \in ReadRequests /\ (req.twice => req.moved)
                               /\ \A x \in req.due : x <= lastId[req.s]
  /\ req.kind \in CursorKinds => /\ \A x \in Due : x >= req.anchor => x \in req.got
                                 /\ ~ req.moved => \A x \in req.got : x >= req.anchor
  /\ req.kind = "scan" =>
       \A x \in Due \ req.got : req.offset <= Cardinality(Newer(Readable(req.s), x))
  /\ req.kind = "done" => Due \subseteq req.got

\* The newest of a set of ids, 0 when there is none.
Top(ids) == Max(ids \union {0})

\* v was the lineage of key k in store s once.
Tracks(s, k, v) ==
  /\ UpTo(v, lastId[s])
  /\ \A x \in Lineage(s, k) : x <= Top(v) => x \in v

CacheInv ==
  /\ cache = [k \in Keys |-> cache[k]]
  /\ \A k \in Keys : \A c \in cache[k] :
       /\ c.fp = [s \in Stores |-> Fingerprint(c.value[s])]
       /\ c.value \in [Stores -> SUBSET Nat]
       /\ \A s \in Stores : Tracks(s, k, c.value[s])

\* How far the projection under way has come with store s.
Past(s) == req.at = "end" \/ (req.at = "detections" /\ s = "reports")
SawRead(s) == req.kind \in {"build", "after", "served", "unstable"} \/ (req.kind = "before" /\ Past(s))
Built(s) == req.kind = "after" \/ (req.kind = "build" /\ Past(s))
ReadAgain(s) == req.kind = "after" /\ Past(s)

Prints == (SUBSET Nat) \union (Nat \X Nat)
Projections ==
  [kind : ProjectionKinds, k : Keys, round : {1, 2}, at : Stores \union {"end"},
   saw : [Stores -> SUBSET Nat], before : [Stores -> Prints], build : [Stores -> SUBSET Nat],
   after : [Stores -> Prints]]

\* What it saw, built and compares.
SawInv(s) ==
  SawRead(s) =>
    /\ req.before[s] = Fingerprint(req.saw[s]) /\ Tracks(s, req.k, req.saw[s])
    /\ \A x \in Lineage(s, req.k) \ req.saw[s] : x + burst > lastId[s]
    /\ req.kind = "before" => \A c \in cache[req.k] : \A x \in req.saw[s] :
                                x <= Top(c.value[s]) => x \in c.value[s]

BuiltInv(s) ==
  Built(s) => /\ req.build[s] \ req.saw[s] \subseteq Lineage(s, req.k)
              /\ req.saw[s] \intersect Lineage(s, req.k) \subseteq req.build[s]

AgainInv(s) == ReadAgain(s) => (req.after[s] = req.before[s] => req.build[s] = req.saw[s])

ProjectionInv ==
  /\ req.kind \in ProjectionKinds =>
       req \in Projections /\ \A s \in Stores : SawInv(s) /\ BuiltInv(s) /\ AgainInv(s)
  /\ req.kind = "build" => req.at # "end"
  /\ req.kind = "served" => req.build = req.saw

RecordInv == StoreInv /\ ReadInv /\ CacheInv /\ ProjectionInv
\* Ordered sets of ids.
LEMMA LeastOf ==
  ASSUME NEW T \in SUBSET Nat, T # {}
  PROVE  \E m \in T : \A x \in T : m <= x
<1>1. IsWellFoundedOn(OpToRel(<, Nat), Nat)  BY NatLessThanWellFounded
<1>2. PICK m \in T : \A x \in T : ~(<<x, m>> \in OpToRel(<, Nat))  BY <1>1, WFMin, Zenon
<1>3. \A x \in T : ~(x < m)  BY <1>2 DEF OpToRel
<1> QED  BY <1>3

LEMMA GreatestOf ==
  ASSUME NEW n \in Nat, NEW S \in SUBSET Nat, \A x \in S : x <= n, S # {}
  PROVE  \E m \in S : \A x \in S : x <= m
<1>1. PICK m \in {n - x : x \in S} : \A y \in {n - x : x \in S} : m <= y
  <2>1. \A x \in S : n - x \in Nat  OBVIOUS
  <2>2. {n - x : x \in S} \in SUBSET Nat  BY <2>1
  <2>3. {n - x : x \in S} # {}  OBVIOUS
  <2> QED  BY <2>2, <2>3, LeastOf
<1>2. PICK g \in S : m = n - g  BY <1>1
<1>3. ASSUME NEW x \in S  PROVE x <= g
  <2>1. m <= n - x  BY <1>1
  <2>2. n \in Nat /\ g \in Nat /\ x \in Nat  OBVIOUS
  <2> QED  BY <1>2, <2>1, <2>2
<1> QED  BY <1>3

LEMMA IdsFinite ==
  ASSUME NEW n \in Nat, NEW S, UpTo(S, n)
  PROVE  /\ IsFiniteSet(S) /\ Cardinality(S) \in Nat
         /\ \A T \in SUBSET S : /\ IsFiniteSet(T) /\ Cardinality(T) \in Nat
                                /\ Cardinality(T) <= Cardinality(S)
                                /\ Cardinality(S) = Cardinality(T) => S = T
<1>2. IsFiniteSet(S)  BY FS_BoundedSetOfNaturals DEF UpTo
<1>3. Cardinality(S) \in Nat  BY <1>2, FS_CardinalityType
<1>4. ASSUME NEW T \in SUBSET S
      PROVE  /\ IsFiniteSet(T) /\ Cardinality(T) \in Nat /\ Cardinality(T) <= Cardinality(S)
             /\ Cardinality(S) = Cardinality(T) => S = T
  <2>1. /\ IsFiniteSet(T) /\ Cardinality(T) <= Cardinality(S)
        /\ Cardinality(S) = Cardinality(T) => S = T
    BY <1>2, FS_Subset
  <2> QED  BY <2>1, FS_CardinalityType
<1> QED  BY <1>2, <1>3, <1>4

\* Top is the newest id.
LEMMA TopIs ==
  ASSUME NEW n \in Nat, NEW v, UpTo(v, n)
  PROVE  /\ Top(v) \in Nat /\ Top(v) <= n /\ \A y \in v : y <= Top(v)
         /\ v # {} => Top(v) \in v
<1>0. v \in SUBSET Nat /\ \A y \in v : 1 <= y /\ y <= n  BY DEF UpTo
<1>1. \E m \in v \union {0} : \A y \in v \union {0} : m >= y
  <2>1. CASE v = {}  BY <2>1
  <2>2. CASE v # {}
    <3>1. PICK m \in v : \A x \in v : x <= m  BY <1>0, <2>2, GreatestOf
    <3> QED  BY <1>0, <3>1
  <2> QED  BY <2>1, <2>2
<1>2. Top(v) \in v \union {0} /\ \A y \in v \union {0} : Top(v) >= y
  BY <1>1 DEF Top, Max
<1>4. Top(v) \in Nat /\ Top(v) <= n
  <2>1. CASE Top(v) \in v  BY <1>0, <2>1
  <2>2. CASE Top(v) = 0  BY <2>2
  <2> QED  BY <1>2, <2>1, <2>2
<1>5. \A y \in v : y <= Top(v)  BY <1>0, <1>2, <1>4
<1>6. v # {} => Top(v) # 0
  <2>1. SUFFICES ASSUME NEW y \in v  PROVE Top(v) # 0  OBVIOUS
  <2>2. y \in Nat /\ 1 <= y /\ y <= Top(v)  BY <1>0, <1>5
  <2> QED  BY <2>2, <1>4
<1> QED  BY <1>2, <1>4, <1>5, <1>6

\* A later reading w of a lineage that was v has the same fingerprint only if it is v.
LEMMA SamePrint ==
  ASSUME NEW n \in Nat, NEW v, NEW w, UpTo(v, n), UpTo(w, n),
         \A x \in w : x <= Top(v) => x \in v, Fingerprint(v) = Fingerprint(w)
  PROVE  v = w
<1>1. CASE backend = "jsonl"  BY <1>1 DEF Fingerprint
<1>2. CASE backend # "jsonl"
  <2>1. Cardinality(v) = Cardinality(w) /\ Top(v) = Top(w)
    BY <1>2 DEF Fingerprint, Top
  <2>2. \A x \in w : x <= Top(w)  BY TopIs
  <2>3. w \in SUBSET v  BY <2>1, <2>2
  <2> QED  BY <2>1, <2>3, IdsFinite
<1> QED  BY <1>1, <1>2

LEMMA PrintType ==
  ASSUME NEW n \in Nat, NEW v, UpTo(v, n)
  PROVE  Fingerprint(v) \in Prints
<1>1. Top(v) \in Nat /\ Cardinality(v) \in Nat  BY TopIs, IdsFinite
<1>2. v \in SUBSET Nat  BY DEF UpTo
<1>3. Fingerprint(v) = v \/ Fingerprint(v) = <<Cardinality(v), Top(v)>>  BY DEF Fingerprint, Top
<1>4. <<Cardinality(v), Top(v)>> \in Nat \X Nat  BY <1>1
<1> QED  BY <1>2, <1>3, <1>4 DEF Prints

\* The newest ids are closed upwards, and there are as many as asked for when some are left.
LEMMA NewestClosed ==
  ASSUME NEW m \in Nat, NEW S, UpTo(S, m), NEW n \in Int, NEW x \in Newest(S, n),
         NEW y \in S, y >= x
  PROVE  y \in Newest(S, n)
<1>0. S \in SUBSET Nat /\ x \in S  BY DEF Newest, UpTo
<1>1. Newer(S, y) \in SUBSET Newer(S, x)
  <2>1. SUFFICES ASSUME NEW z \in S, z > y  PROVE z > x  BY DEF Newer
  <2>2. x \in Nat /\ y \in Nat /\ z \in Nat  BY <1>0
  <2> QED  BY <2>1, <2>2
<1>2. UpTo(Newer(S, x), m)  BY DEF UpTo, Newer
<1>3. /\ Cardinality(Newer(S, y)) <= Cardinality(Newer(S, x))
      /\ Cardinality(Newer(S, x)) \in Nat /\ Cardinality(Newer(S, y)) \in Nat
  BY <1>1, <1>2, IdsFinite
<1>4. Cardinality(Newer(S, x)) < n  BY DEF Newest
<1> QED  BY <1>3, <1>4 DEF Newest

LEMMA NewestCount ==
  ASSUME NEW m \in Nat, NEW S, UpTo(S, m), NEW n \in Nat, S \ Newest(S, n) # {}
  PROVE  n <= Cardinality(Newest(S, n))
<1> DEFINE rest == S \ Newest(S, n)
<1>0. S \in SUBSET Nat /\ \A x \in S : x <= m  BY DEF UpTo
<1>1. rest \in SUBSET Nat /\ rest # {} /\ \A x \in rest : x <= m  BY <1>0
<1>2. PICK z \in rest : \A x \in rest : x <= z  BY <1>1, GreatestOf
<1>3. Newer(S, z) \in SUBSET Newest(S, n)
  <2>1. SUFFICES ASSUME NEW x \in S, x > z  PROVE x \in Newest(S, n)  BY DEF Newer
  <2>2. x \in Nat /\ z \in Nat  BY <1>0, <1>2
  <2> QED  BY <1>2, <2>1, <2>2
<1>4. UpTo(Newest(S, n), m)  BY DEF UpTo, Newest
<1>5. /\ Cardinality(Newer(S, z)) <= Cardinality(Newest(S, n))
      /\ Cardinality(Newer(S, z)) \in Nat /\ Cardinality(Newest(S, n)) \in Nat
  BY <1>3, <1>4, IdsFinite
<1>6. ~(Cardinality(Newer(S, z)) < n)  BY <1>2 DEF Newest
<1> QED  BY <1>5, <1>6

\* What an append, whole or torn, does to store t: one more id at most, and of the old
\* rows it drops the oldest, though none as young as the request under way.
Shifted(t) ==
  /\ lastId[t] <= lastId'[t]
  /\ UpTo(DOMAIN rows'[t], lastId'[t])
  /\ \A x \in DOMAIN rows'[t] : x <= lastId[t] => x \in Ids(t) /\ rows'[t][x] = rows[t][x]
  /\ \A x \in DOMAIN rows'[t], y \in Ids(t) : y >= x => y \in DOMAIN rows'[t]
  /\ burst < MaxBurst => \A y \in Ids(t) : y + burst > lastId[t] => y \in DOMAIN rows'[t]
  /\ \A x \in DOMAIN rows'[t] : x > lastId[t] => x + burst + 1 > lastId'[t]
  /\ \A y \in Ids(t) : y + burst > lastId[t] => y + burst + 1 > lastId'[t]

LEMMA NewerCount ==
  ASSUME NEW n \in Nat, NEW S, UpTo(S, n), NEW y \in S
  PROVE  Cardinality(Newer(S, y)) \in Nat /\ Cardinality(Newer(S, y)) <= n - y
<1>0. y \in Nat /\ y <= n /\ S \in SUBSET Nat /\ \A z \in S : z <= n  BY DEF UpTo
<1>1. IsFiniteSet((y + 1) .. n) /\ Cardinality((y + 1) .. n) = n - y
  <2>1. y + 1 \in Int /\ n \in Int  BY <1>0
  <2>2. /\ IsFiniteSet((y + 1) .. n)
        /\ Cardinality((y + 1) .. n) = IF y + 1 > n THEN 0 ELSE n - (y + 1) + 1
    BY <2>1, FS_Interval
  <2> QED  BY <1>0, <2>2
<1>2. Newer(S, y) \in SUBSET ((y + 1) .. n)
  <2>1. SUFFICES ASSUME NEW z \in S, z > y  PROVE z \in (y + 1) .. n  BY DEF Newer
  <2>2. z \in Nat /\ z <= n  BY <1>0
  <2> QED  BY <1>0, <2>1, <2>2
<1>3. Cardinality(Newer(S, y)) <= n - y  BY <1>1, <1>2, FS_Subset
<1>4. IsFiniteSet(Newer(S, y))  BY <1>1, <1>2, FS_Subset
<1> QED  BY <1>3, <1>4, FS_CardinalityType

LEMMA RetainedIs ==
  ASSUME StoreInv, NEW s \in Stores, NEW keep \in Keeps(s)
  PROVE  /\ Retained(s, keep) \in SUBSET Ids(s)
         /\ \A x \in Retained(s, keep), y \in Ids(s) : y >= x => y \in Retained(s, keep)
         /\ burst < MaxBurst => \A y \in Ids(s) : y + burst > lastId[s] => y \in Retained(s, keep)
<1> DEFINE n == Cardinality(Ids(s))
<1>1. UpTo(Ids(s), lastId[s]) /\ lastId[s] \in Nat /\ burst \in Nat  BY DEF StoreInv
<1>2. n \in Nat  BY <1>1, IdsFinite
<1>3. MaxRows \in Nat /\ MaxRows >= 2  BY RecordAssumption
<1>4. /\ MaxRows \div 2 \in Nat /\ MaxRows \div 2 >= 1 /\ MaxRows \div 2 <= MaxRows
      /\ MaxBurst \in Nat /\ MaxBurst <= MaxRows \div 2
  <2>1. MaxRows \div 2 \in Nat /\ MaxRows \div 2 >= 1 /\ MaxRows \div 2 <= MaxRows  BY <1>3
  <2>2. MaxBurst \in 0 .. MaxRows \div 2  BY RecordAssumption
  <2> QED  BY <2>1, <2>2
<1>5. keep \in Nat /\ (keep = Most(s) \/ keep >= burst)  BY DEF Keeps
<1>6. n < MaxRows => Most(s) = n  BY DEF Most
<1>7. ~(n < MaxRows) => Most(s) >= MaxBurst - 1  BY <1>3, <1>4 DEF Most
<1> HIDE DEF n
<1>8. ASSUME burst < MaxBurst, NEW y \in Ids(s), y + burst > lastId[s]
      PROVE  y \in Retained(s, keep)
  <2>0. y \in Nat /\ y <= lastId[s]  BY <1>1 DEF UpTo
  <2>1. Cardinality(Newer(Ids(s), y)) \in Nat /\ Cardinality(Newer(Ids(s), y)) <= lastId[s] - y
    BY <1>1, NewerCount
  <2>2. CASE keep = Most(s) /\ n < MaxRows
    <3>1. Newer(Ids(s), y) \in SUBSET Ids(s) /\ y \notin Newer(Ids(s), y)  BY <2>0 DEF Newer
    <3>2. Cardinality(Newer(Ids(s), y)) <= n /\ Cardinality(Newer(Ids(s), y)) # n
      BY <1>1, <3>1, IdsFinite DEF n
    <3>3. Cardinality(Newer(Ids(s), y)) < keep  BY <1>2, <1>6, <2>1, <2>2, <3>2
    <3> QED  BY <3>3 DEF Newest, Retained
  <2>3. CASE keep >= burst \/ (keep = Most(s) /\ ~(n < MaxRows))
    <3>1. keep >= MaxBurst - 1 \/ keep >= burst  BY <1>7, <2>3
    <3>2. Cardinality(Newer(Ids(s), y)) < keep
      BY <1>1, <1>4, <1>5, <1>8, <2>0, <2>1, <3>1
    <3> QED  BY <3>2 DEF Newest, Retained
  <2> QED  BY <1>5, <2>2, <2>3
<1>9. ASSUME NEW x \in Retained(s, keep), NEW y \in Ids(s), y >= x  PROVE y \in Retained(s, keep)
  BY <1>1, <1>5, <1>9, NewestClosed DEF Retained
<1>10. Retained(s, keep) \in SUBSET Ids(s)  BY DEF Retained, Newest
<1> QED  BY <1>8, <1>9, <1>10

LEMMA StillShifted ==
  ASSUME StoreInv, NEW t \in Stores, rows'[t] = rows[t], lastId'[t] = lastId[t]
  PROVE  Shifted(t)
<1>1. UpTo(Ids(t), lastId[t]) /\ lastId[t] \in Nat /\ burst \in Nat  BY DEF StoreInv
<1>2. DOMAIN rows'[t] = Ids(t)  BY DEF Ids
<1>3. Ids(t) \in SUBSET Nat /\ \A x \in Ids(t) : x <= lastId[t]  BY <1>1 DEF UpTo
<1>4. \A x \in Ids(t) : ~(x > lastId[t])  BY <1>1, <1>3
<1>5. \A x \in Ids(t) : x + burst > lastId[t] => x + burst + 1 > lastId[t]  BY <1>1, <1>3
<1>6. lastId[t] <= lastId[t]  BY <1>1
<1> QED  BY <1>1, <1>2, <1>4, <1>5, <1>6 DEF Shifted

LEMMA AppendShifts ==
  ASSUME StoreInv, NEW s \in Stores, NEW k, NEW keep \in Keeps(s),
         lastId' = [lastId EXCEPT ![s] = @ + 1], rows' = [rows EXCEPT ![s] = Written(s, k, keep)]
  PROVE  /\ \A t \in Stores : Shifted(t)
         /\ rows' = [t \in Stores |-> rows'[t]] /\ lastId' \in [Stores -> Nat]
<1>0. rows = [t \in Stores |-> rows[t]] /\ lastId \in [Stores -> Nat]  BY DEF StoreInv
<1>1. UpTo(Ids(s), lastId[s]) /\ lastId[s] \in Nat /\ burst \in Nat  BY DEF StoreInv
<1>2. lastId'[s] = lastId[s] + 1 /\ lastId' \in [Stores -> Nat]  BY <1>0, <1>1
<1>3. rows'[s] = Written(s, k, keep)  BY <1>0
<1>4. \A t \in Stores \ {s} : rows'[t] = rows[t] /\ lastId'[t] = lastId[t]  BY <1>0
<1>5. \A t \in Stores \ {s} : Shifted(t)  BY <1>4, StillShifted
<1>6. PICK new \in {{}, {lastId[s] + 1}} :
        rows'[s] = [x \in Retained(s, keep) \union new |-> IF x \in new THEN k ELSE rows[s][x]]
  BY <1>3 DEF Written
<1>7. DOMAIN rows'[s] = Retained(s, keep) \union new  BY <1>6
<1>8. Ids(s) \in SUBSET Nat /\ \A x \in Ids(s) : 1 <= x /\ x <= lastId[s]  BY <1>1 DEF UpTo
<1>9. Retained(s, keep) \in SUBSET Ids(s)  BY RetainedIs
<1>10. \A x \in new : x = lastId[s] + 1  OBVIOUS
<1>11. Shifted(s)
  <2>1. lastId[s] <= lastId'[s]  BY <1>1, <1>2
  <2>2. UpTo(DOMAIN rows'[s], lastId'[s])
    <3>1. SUFFICES ASSUME NEW x \in DOMAIN rows'[s]
                   PROVE  x \in Nat /\ 1 <= x /\ x <= lastId'[s]
      BY DEF UpTo
    <3>2. CASE x \in Retained(s, keep)
      <4>1. x \in Nat /\ 1 <= x /\ x <= lastId[s]  BY <1>8, <1>9, <3>2
      <4> QED  BY <4>1, <1>1, <1>2
    <3>3. CASE x \in new
      <4>1. x = lastId[s] + 1  BY <1>10, <3>3
      <4> QED  BY <4>1, <1>1, <1>2
    <3> QED  BY <1>7, <3>2, <3>3
  <2>3. ASSUME NEW x \in DOMAIN rows'[s], x <= lastId[s]
        PROVE  x \in Ids(s) /\ rows'[s][x] = rows[s][x]
    <3>1. x \notin new  BY <1>1, <1>10, <2>3
    <3> QED  BY <1>6, <1>7, <1>9, <3>1
  <2>4. ASSUME NEW x \in DOMAIN rows'[s], NEW y \in Ids(s), y >= x  PROVE y \in DOMAIN rows'[s]
    <3>0. y \in Nat /\ y <= lastId[s]  BY <1>8
    <3>1. x \notin new  BY <1>1, <1>10, <2>4, <3>0
    <3> QED  BY <1>7, <2>4, <3>1, RetainedIs
  <2>5. ASSUME burst < MaxBurst, NEW y \in Ids(s), y + burst > lastId[s]
        PROVE  y \in DOMAIN rows'[s]
    BY <1>7, <2>5, RetainedIs
  <2>6. ASSUME NEW x \in DOMAIN rows'[s], x > lastId[s]  PROVE x + burst + 1 > lastId'[s]
    <3>1. x \notin Ids(s)
      <4>1. SUFFICES ASSUME x \in Ids(s)  PROVE FALSE  OBVIOUS
      <4>2. x \in Nat /\ x <= lastId[s]  BY <1>8, <4>1
      <4> QED  BY <1>1, <2>6, <4>2
    <3>2. x = lastId[s] + 1  BY <1>7, <1>9, <1>10, <3>1
    <3> QED  BY <1>1, <1>2, <3>2
  <2>7. ASSUME NEW y \in Ids(s), y + burst > lastId[s]  PROVE y + burst + 1 > lastId'[s]
    <3>1. y \in Nat  BY <1>8
    <3> QED  BY <1>1, <1>2, <2>7, <3>1
  <2> QED  BY <2>1, <2>2, <2>3, <2>4, <2>5, <2>6, <2>7 DEF Shifted
<1>12. rows' = [t \in Stores |-> rows'[t]]  BY <1>0
<1> QED  BY <1>2, <1>5, <1>11, <1>12

LEMMA ShiftedRows ==
  ASSUME StoreInv, NEW t \in Stores, Shifted(t)
  PROVE  /\ \A x \in Readable(t)' : x <= lastId[t] => x \in Readable(t)
         /\ \A x \in Readable(t)', y \in Readable(t) : y >= x => y \in Readable(t)'
         /\ \A k : \A x \in Lineage(t, k)' : x <= lastId[t] => x \in Lineage(t, k)
         /\ burst < MaxBurst => \A k : \A y \in Lineage(t, k) :
                                  y + burst > lastId[t] => y \in Lineage(t, k)'
<1>0. Ids(t) \in SUBSET Nat /\ \A x \in Ids(t) : x <= lastId[t]  BY DEF StoreInv, UpTo
<1>1. ASSUME NEW y \in Ids(t), y \in DOMAIN rows'[t]  PROVE rows'[t][y] = rows[t][y]
  BY <1>0, <1>1 DEF Shifted
<1>2. \A x \in Readable(t)' : x <= lastId[t] => x \in Readable(t)
  BY DEF Readable, Shifted, Ids
<1>3. \A x \in Readable(t)', y \in Readable(t) : y >= x => y \in Readable(t)'
  BY <1>1 DEF Readable, Shifted, Ids
<1>4. \A k : \A x \in Lineage(t, k)' : x <= lastId[t] => x \in Lineage(t, k)
  BY DEF Lineage, Shifted, Ids
<1>5. burst < MaxBurst => \A k : \A y \in Lineage(t, k) :
                            y + burst > lastId[t] => y \in Lineage(t, k)'
  BY <1>1 DEF Lineage, Shifted, Ids
<1> QED  BY <1>2, <1>3, <1>4, <1>5

LEMMA ShiftedTracks ==
  ASSUME StoreInv, lastId' \in [Stores -> Nat], NEW t \in Stores, Shifted(t), NEW k, NEW v,
         Tracks(t, k, v)
  PROVE  Tracks(t, k, v)'
<1>1. lastId[t] \in Nat /\ lastId'[t] \in Nat /\ lastId[t] <= lastId'[t]
  BY DEF StoreInv, Shifted
<1>2. UpTo(v, lastId[t])  BY DEF Tracks
<1>3. v \in SUBSET Nat /\ \A x \in v : 1 <= x /\ x <= lastId[t]  BY <1>2 DEF UpTo
<1>4. UpTo(v, lastId'[t])
  <2>1. SUFFICES ASSUME NEW x \in v  PROVE x \in Nat /\ 1 <= x /\ x <= lastId'[t]  BY DEF UpTo
  <2>2. x \in Nat /\ 1 <= x /\ x <= lastId[t]  BY <1>3
  <2> QED  BY <1>1, <2>2
<1>5. Top(v) \in Nat /\ Top(v) <= lastId[t]  BY <1>1, <1>2, TopIs
<1>6. ASSUME NEW x \in Lineage(t, k)', x <= Top(v)  PROVE x \in v
  <2>1. x \in Nat  BY DEF Lineage, Ids, Shifted, UpTo
  <2>2. x <= lastId[t]  BY <1>1, <1>5, <1>6, <2>1
  <2>3. x \in Lineage(t, k)  BY <2>2, ShiftedRows
  <2> QED  BY <1>6, <2>3 DEF Tracks
<1> QED  BY <1>4, <1>6 DEF Tracks

\* Nothing a reader has passed comes back.
LEMMA ReadStep ==
  ASSUME StoreInv, ReadInv, \A t \in Stores : Shifted(t), lastId' \in [Stores -> Nat], req' = req
  PROVE  ReadInv'
<1>1. CASE req.kind \notin ReadKinds
  BY <1>1 DEF ReadInv, ReadKinds
<1>2. CASE req.kind \in ReadKinds
  <2> PICK r : r = req  OBVIOUS
  <2>1. req = r /\ req' = r  OBVIOUS
  <2>2. /\ r \in ReadRequests /\ (r.twice => r.moved) /\ r.s \in Stores /\ r.due \in SUBSET Nat
        /\ \A x \in r.due : x <= lastId[r.s]
    BY <1>2, <2>1 DEF ReadInv, ReadRequests
  <2>3. lastId[r.s] \in Nat /\ lastId'[r.s] \in Nat /\ lastId[r.s] <= lastId'[r.s]
    BY <2>2 DEF StoreInv, Shifted
  <2>4. \A x \in r.due : x <= lastId'[r.s]
    <3>1. SUFFICES ASSUME NEW x \in r.due  PROVE x <= lastId'[r.s]  OBVIOUS
    <3>2. x \in Nat /\ x <= lastId[r.s]  BY <2>2
    <3> QED  BY <2>3, <3>2
  <2>5. \A x \in r.due \intersect Readable(r.s)' : x \in r.due \intersect Readable(r.s)
    BY <2>2, ShiftedRows
  <2>6. Due' \subseteq Due  BY <2>1, <2>5 DEF Due
  <2>7. ASSUME r.kind = "scan", NEW x \in Due' \ r.got
        PROVE  r.offset <= Cardinality(Newer(Readable(r.s)', x))
    <3>1. x \in Due \ r.got /\ x \in Readable(r.s)'  BY <2>1, <2>6 DEF Due
    <3>2. r.offset <= Cardinality(Newer(Readable(r.s), x)) /\ r.offset \in Nat
      BY <2>1, <2>2, <2>7, <3>1 DEF ReadInv, ReadRequests
    <3>3. UpTo(DOMAIN rows'[r.s], lastId'[r.s])  BY <2>2 DEF Shifted
    <3>4. UpTo(Newer(Readable(r.s)', x), lastId'[r.s])  BY <3>3 DEF UpTo, Newer, Readable, Ids
    <3>5. Ids(r.s) \in SUBSET Nat /\ x \in Nat  BY <2>2, <3>1 DEF StoreInv, UpTo, Due
    <3>6. Newer(Readable(r.s), x) \in SUBSET Newer(Readable(r.s)', x)
      <4>1. SUFFICES ASSUME NEW y \in Readable(r.s), y > x  PROVE y \in Readable(r.s)'
        BY DEF Newer
      <4>2. y \in Nat /\ y >= x  BY <3>5, <4>1 DEF Readable
      <4> QED  BY <2>2, <3>1, <4>2, ShiftedRows
    <3>7. /\ Cardinality(Newer(Readable(r.s), x)) <= Cardinality(Newer(Readable(r.s)', x))
          /\ Cardinality(Newer(Readable(r.s), x)) \in Nat
          /\ Cardinality(Newer(Readable(r.s)', x)) \in Nat
      BY <2>3, <3>4, <3>6, IdsFinite
    <3> QED  BY <3>2, <3>7
  <2>8. r.kind \in CursorKinds => /\ \A x \in Due' : x >= r.anchor => x \in r.got
                                  /\ ~ r.moved => \A x \in r.got : x >= r.anchor
    BY <2>1, <2>6 DEF ReadInv
  <2>9. r.kind = "done" => Due' \subseteq r.got  BY <2>1, <2>6 DEF ReadInv
  <2> QED  BY <2>1, <2>2, <2>4, <2>7, <2>8, <2>9 DEF ReadInv
<1> QED  BY <1>1, <1>2

LEMMA CacheStep ==
  ASSUME StoreInv, CacheInv, \A t \in Stores : Shifted(t), lastId' \in [Stores -> Nat],
         UNCHANGED <<backend, cache>>
  PROVE  CacheInv'
<1>1. \A v : Fingerprint(v)' = Fingerprint(v)  BY DEF Fingerprint
<1>2. ASSUME NEW k \in Keys, NEW c \in cache[k]
      PROVE  /\ c.fp = [s \in Stores |-> Fingerprint(c.value[s])']
             /\ c.value \in [Stores -> SUBSET Nat]
             /\ \A s \in Stores : Tracks(s, k, c.value[s])'
  <2>1. /\ c.fp = [s \in Stores |-> Fingerprint(c.value[s])]
        /\ c.value \in [Stores -> SUBSET Nat]
        /\ \A s \in Stores : Tracks(s, k, c.value[s])
    BY DEF CacheInv
  <2>2. \A s \in Stores : Tracks(s, k, c.value[s])'  BY <2>1, ShiftedTracks
  <2>3. [s \in Stores |-> Fingerprint(c.value[s])'] = [s \in Stores |-> Fingerprint(c.value[s])]
    BY <1>1
  <2> QED  BY <2>1, <2>2, <2>3
<1>3. cache' = cache /\ cache = [k \in Keys |-> cache[k]]  BY DEF CacheInv
<1> QED  BY <1>2, <1>3 DEF CacheInv

\* A row that was built and not seen is younger than the request and stays.
LEMMA ProjectionStep ==
  ASSUME StoreInv, CacheInv, ProjectionInv, \A t \in Stores : Shifted(t), lastId' \in [Stores -> Nat],
         UNCHANGED <<backend, cache, req>>,
         req.kind \in ProjectionKinds => burst < MaxBurst /\ burst' = burst + 1
  PROVE  ProjectionInv'
<1>1. CASE req.kind \notin ProjectionKinds
  BY <1>1 DEF ProjectionInv, ProjectionKinds
<1>2. CASE req.kind \in ProjectionKinds
  <2> PICK r : r = req  OBVIOUS
  <2>1. req = r /\ req' = r  OBVIOUS
  <2>2. burst < MaxBurst /\ burst' = burst + 1 /\ burst \in Nat
    BY <1>2 DEF ProjectionKinds, StoreInv
  <2>3. r \in Projections /\ \A s \in Stores : SawInv(s) /\ BuiltInv(s) /\ AgainInv(s)
    BY <1>2, <2>1 DEF ProjectionInv
  <2>4. r.k \in Keys /\ r.saw \in [Stores -> SUBSET Nat] /\ r.build \in [Stores -> SUBSET Nat]
    BY <2>3 DEF Projections
  <2>5. \A v : Fingerprint(v)' = Fingerprint(v)  BY DEF Fingerprint
  <2>6. ASSUME NEW s \in Stores  PROVE SawInv(s)' /\ BuiltInv(s)' /\ AgainInv(s)'
    <3>0. /\ SawRead(s)' = SawRead(s) /\ Built(s)' = Built(s) /\ ReadAgain(s)' = ReadAgain(s)
      BY DEF SawRead, Built, ReadAgain, Past
    <3>1. lastId[s] \in Nat /\ lastId'[s] \in Nat /\ lastId[s] <= lastId'[s]
      BY DEF StoreInv, Shifted
    <3>2. /\ \A x \in Lineage(s, r.k)' : x <= lastId[s] => x \in Lineage(s, r.k)
          /\ \A y \in Lineage(s, r.k) : y + burst > lastId[s] => y \in Lineage(s, r.k)'
      BY <2>2, ShiftedRows
    <3>3. \A x \in Lineage(s, r.k)' : x \in Nat  BY DEF Lineage, Ids, Shifted, UpTo
    <3>4. SawInv(s)'
      <4>1. SUFFICES ASSUME SawRead(s)  PROVE
              /\ r.before[s] = Fingerprint(r.saw[s]) /\ Tracks(s, r.k, r.saw[s])'
              /\ \A x \in Lineage(s, r.k)' \ r.saw[s] : x + burst' > lastId'[s]
              /\ r.kind = "before" => \A c \in cache[r.k] : \A x \in r.saw[s] :
                                        x <= Top(c.value[s]) => x \in c.value[s]
        BY <2>1, <2>5, <3>0 DEF SawInv
      <4>2. /\ r.before[s] = Fingerprint(r.saw[s]) /\ Tracks(s, r.k, r.saw[s])
            /\ \A x \in Lineage(s, r.k) \ r.saw[s] : x + burst > lastId[s]
            /\ r.kind = "before" => \A c \in cache[r.k] : \A x \in r.saw[s] :
                                      x <= Top(c.value[s]) => x \in c.value[s]
        BY <2>1, <2>3, <4>1 DEF SawInv
      <4>3. Tracks(s, r.k, r.saw[s])'  BY <4>2, ShiftedTracks
      <4>4. ASSUME NEW x \in Lineage(s, r.k)' \ r.saw[s]  PROVE x + burst' > lastId'[s]
        <5>0. x \in Nat /\ x \in DOMAIN rows'[s]  BY <3>3 DEF Lineage, Ids
        <5>1. CASE x <= lastId[s]
          <6>1. x \in Lineage(s, r.k) \ r.saw[s]  BY <3>2, <4>4, <5>1
          <6>2. x + burst > lastId[s] /\ x \in Ids(s)  BY <4>2, <6>1 DEF Lineage
          <6>3. x + burst + 1 > lastId'[s]  BY <6>2 DEF Shifted
          <6> QED  BY <2>2, <3>1, <5>0, <6>3
        <5>2. CASE x > lastId[s]
          <6>1. x + burst + 1 > lastId'[s]  BY <5>0, <5>2 DEF Shifted
          <6> QED  BY <2>2, <3>1, <5>0, <6>1
        <5> QED  BY <3>1, <5>0, <5>1, <5>2
      <4> QED  BY <4>2, <4>3, <4>4
    <3>5. BuiltInv(s)'
      <4>1. SUFFICES ASSUME Built(s)  PROVE
              /\ r.build[s] \ r.saw[s] \subseteq Lineage(s, r.k)'
              /\ r.saw[s] \intersect Lineage(s, r.k)' \subseteq r.build[s]
        BY <2>1, <3>0 DEF BuiltInv
      <4>2. /\ r.build[s] \ r.saw[s] \subseteq Lineage(s, r.k)
            /\ r.saw[s] \intersect Lineage(s, r.k) \subseteq r.build[s]
        BY <2>1, <2>3, <4>1 DEF BuiltInv
      <4>3. SawRead(s)  BY <4>1 DEF Built, SawRead
      <4>4. /\ \A x \in Lineage(s, r.k) \ r.saw[s] : x + burst > lastId[s]
            /\ UpTo(r.saw[s], lastId[s])
        BY <2>1, <2>3, <4>3 DEF SawInv, Tracks
      <4>5. \A x \in r.saw[s] : x <= lastId[s]  BY <4>4 DEF UpTo
      <4> QED  BY <3>2, <4>2, <4>4, <4>5
    <3>6. AgainInv(s)'  BY <2>3, <3>0 DEF AgainInv
    <3> QED  BY <3>4, <3>5, <3>6
  <2> QED  BY <1>2, <2>1, <2>3, <2>6 DEF ProjectionInv
<1> QED  BY <1>1, <1>2

LEMMA StoreStep ==
  ASSUME RecordInv, \A t \in Stores : Shifted(t), rows' = [t \in Stores |-> rows'[t]],
         lastId' \in [Stores -> Nat], file' \in [Stores -> Nat], UNCHANGED <<backend, cache, req>>,
         Counted
  PROVE  RecordInv'
<1>0. StoreInv /\ ReadInv /\ CacheInv /\ ProjectionInv /\ burst \in Nat  BY DEF RecordInv, StoreInv
<1>1. burst' \in Nat /\ (req.kind \in ProjectionKinds => burst < MaxBurst /\ burst' = burst + 1)
  BY <1>0 DEF Counted
<1>2. \A t \in Stores : UpTo(Ids(t), lastId[t])'  BY DEF Shifted, Ids
<1>3. StoreInv'  BY <1>0, <1>1, <1>2 DEF StoreInv
<1>4. ReadInv'  BY <1>0, ReadStep
<1>5. CacheInv'  BY <1>0, CacheStep
<1>6. ProjectionInv'  BY <1>0, <1>1, ProjectionStep
<1> QED  BY <1>3, <1>4, <1>5, <1>6 DEF RecordInv

LEMMA AppendKeeps ==
  ASSUME RecordInv, NEW s \in Stores, NEW k \in Keys, AppendRow(s, k)
  PROVE  RecordInv'
<1>0. StoreInv  BY DEF RecordInv
<1>1. /\ \A t \in Stores : Shifted(t)
      /\ rows' = [t \in Stores |-> rows'[t]] /\ lastId' \in [Stores -> Nat]
  <2>1. PICK keep \in Keeps(s) : rows' = [rows EXCEPT ![s] = Written(s, k, keep)]
    BY DEF AppendRow
  <2>2. lastId' = [lastId EXCEPT ![s] = @ + 1]  BY DEF AppendRow
  <2> QED  BY <1>0, <2>1, <2>2, AppendShifts
<1>2. file' \in [Stores -> Nat]  BY <1>0 DEF AppendRow, Trimmed, StoreInv
<1> QED  BY <1>1, <1>2, StoreStep DEF AppendRow

LEMMA TearKeeps ==
  ASSUME RecordInv, NEW s \in Stores, TearRow(s)
  PROVE  RecordInv'
<1>0. StoreInv  BY DEF RecordInv
<1>1. /\ \A t \in Stores : Shifted(t)
      /\ rows' = [t \in Stores |-> rows'[t]] /\ lastId' \in [Stores -> Nat]
      /\ file' \in [Stores -> Nat]
  <2>1. CASE backend = "jsonl"
    <3>1. file' \in [Stores -> Nat]  BY <1>0, <2>1 DEF TearRow, Trimmed, StoreInv
    <3>2. PICK keep \in Keeps(s) : rows' = [rows EXCEPT ![s] = Written(s, Corrupt, keep)]
      BY <2>1 DEF TearRow
    <3>3. lastId' = [lastId EXCEPT ![s] = @ + 1]  BY <2>1 DEF TearRow
    <3> QED  BY <1>0, <3>1, <3>2, <3>3, AppendShifts
  <2>2. CASE backend # "jsonl"
    <3>1. UNCHANGED <<rows, file, lastId>>  BY <2>2 DEF TearRow
    <3>2. \A t \in Stores : Shifted(t)  BY <1>0, <3>1, StillShifted
    <3> QED  BY <1>0, <3>1, <3>2 DEF StoreInv
  <2> QED  BY <2>1, <2>2
<1>2. CASE Counted /\ UNCHANGED <<req, cache>>
  BY <1>1, <1>2, StoreStep DEF TearRow
<1>3. CASE req' = Idle /\ cache' = [k \in Keys |-> {}] /\ burst' = 0
  <2>1. req'.kind = "none" /\ burst' \in Nat  BY <1>3 DEF Idle
  <2>2. \A t \in Stores : UpTo(Ids(t), lastId[t])'  BY <1>1 DEF Shifted, Ids
  <2>3. StoreInv'  BY <1>1, <2>1, <2>2 DEF StoreInv
  <2>4. ReadInv' /\ ProjectionInv'
    BY <2>1 DEF ReadInv, ProjectionInv, ReadKinds, CursorKinds, ProjectionKinds
  <2>5. CacheInv'  BY <1>3 DEF CacheInv
  <2> QED  BY <2>3, <2>4, <2>5 DEF RecordInv
<1> QED  BY <1>2, <1>3 DEF TearRow

LEMMA CacheStays ==
  ASSUME CacheInv, UNCHANGED <<backend, rows, lastId, cache>>
  PROVE  CacheInv'
<1>1. \A s, k : Lineage(s, k)' = Lineage(s, k)  BY DEF Lineage, Ids
<1>2. \A v : Fingerprint(v)' = Fingerprint(v)  BY DEF Fingerprint
<1>3. \A s, k, v : Tracks(s, k, v)' = Tracks(s, k, v)  BY <1>1 DEF Tracks
<1> QED  BY <1>2, <1>3 DEF CacheInv

\* A step of a reader leaves the stores and the cache alone.
LEMMA QuietStep ==
  ASSUME StoreInv, CacheInv, UNCHANGED <<storeVars, cache>>,
         req'.kind \in {"none", "missing"} \union ReadKinds \union ProjectionKinds
  PROVE  StoreInv' /\ CacheInv'
<1>1. StoreInv'  BY DEF StoreInv, storeVars, Ids
<1>2. UNCHANGED <<backend, rows, lastId, cache>>  BY DEF storeVars
<1>3. CacheInv'  BY <1>2, CacheStays
<1> QED  BY <1>1, <1>3

LEMMA ReadableIs ==
  ASSUME StoreInv, NEW s \in Stores
  PROVE  UpTo(Readable(s), lastId[s]) /\ lastId[s] \in Nat /\ Readable(s) \in SUBSET Nat
<1>1. UpTo(Ids(s), lastId[s]) /\ lastId[s] \in Nat  BY DEF StoreInv
<1> QED  BY <1>1 DEF UpTo, Readable

\* A step of a reader by cursor leaves the stores, the cache and the projections alone.
LEMMA CursorStep ==
  ASSUME RecordInv, UNCHANGED <<storeVars, cache>>, req' \in ReadRequests,
         req'.kind \in CursorKinds \union {"done", "expired"}, req'.twice => req'.moved,
         \A x \in req'.due : x <= lastId[req'.s],
         req'.kind \in CursorKinds =>
           /\ \A x \in Due' : x >= req'.anchor => x \in req'.got
           /\ ~ req'.moved => \A x \in req'.got : x >= req'.anchor,
         req'.kind = "done" => Due' \subseteq req'.got
  PROVE  RecordInv'
<1>0. StoreInv /\ CacheInv  BY DEF RecordInv
<1>1. \A x \in req'.due : x <= lastId'[req'.s]  BY DEF storeVars
<1>2. req'.kind # "scan"  BY DEF CursorKinds
<1>3. ReadInv'  BY <1>1, <1>2 DEF ReadInv
<1>4. ProjectionInv'  BY DEF ProjectionInv, ProjectionKinds, CursorKinds
<1>5. req'.kind \in {"none", "missing"} \union ReadKinds \union ProjectionKinds
  BY DEF ReadKinds
<1>6. StoreInv' /\ CacheInv'  BY <1>0, <1>5, QuietStep
<1> QED  BY <1>3, <1>4, <1>6 DEF RecordInv

\* One page of a reader that has passed what is not left.
LEMMA PagedKeeps ==
  ASSUME RecordInv, UNCHANGED <<storeVars, cache>>, NEW r \in ReadRequests, r.twice => r.moved,
         \A x \in r.due : x <= lastId[r.s], NEW left \in SUBSET Readable(r.s),
         \A x \in r.due \intersect Readable(r.s) : x \in left \/ x \in r.got,
         ~ r.moved /\ file[r.s] = r.file => \A x \in r.got, y \in left : x > y,
         CursorPaged(r, left)
  PROVE  RecordInv'
<1>0. StoreInv /\ r.s \in Stores /\ r.got \in SUBSET Nat /\ r.due \in SUBSET Nat
  BY DEF RecordInv, ReadRequests
<1>1. Readable(r.s) \in SUBSET Nat /\ file[r.s] \in Nat  BY <1>0, ReadableIs DEF StoreInv
<1>2. PICK oldest \in Newest(left, PageSize) :
        req' = [r EXCEPT !.anchor = oldest, !.got = @ \union Page(left, oldest),
                         !.twice = @ \/ r.got \intersect Page(left, oldest) # {},
                         !.moved = @ \/ file[r.s] # r.file,
                         !.file = file[r.s], !.kind = "more"]
  BY DEF CursorPaged
<1>3. oldest \in left /\ oldest \in Nat  BY <1>1 DEF Newest
<1> PICK P : P = Page(left, oldest)  OBVIOUS
<1>4. P \in SUBSET left /\ P \in SUBSET Nat /\ r.got \union P \in SUBSET Nat  BY <1>0, <1>1 DEF Page
<1> PICK again : again = (r.twice \/ r.got \intersect P # {})  OBVIOUS
<1> PICK away : away = (r.moved \/ file[r.s] # r.file)  OBVIOUS
<1>5. again \in BOOLEAN /\ away \in BOOLEAN  BY DEF ReadRequests
<1>6. req' = [r EXCEPT !.anchor = oldest, !.got = r.got \union P, !.twice = again,
                       !.moved = away, !.file = file[r.s], !.kind = "more"]
  BY <1>2
<1>7. /\ req'.kind = "more" /\ req'.s = r.s /\ req'.due = r.due /\ req'.anchor = oldest
      /\ req'.got = r.got \union P /\ req'.twice = again /\ req'.moved = away
  BY <1>6 DEF ReadRequests
<1>8. req' \in ReadRequests
  <2>1. PICK g \in SUBSET Nat : g = r.got \union P  BY <1>4
  <2>2. PICK v \in Nat : v = file[r.s]  BY <1>1
  <2>3. req' = [r EXCEPT !.anchor = oldest, !.got = g, !.twice = again, !.moved = away,
                         !.file = v, !.kind = "more"]
    BY <1>6, <2>1, <2>2
  <2>4. "more" \in ReadKinds  BY DEF ReadKinds, CursorKinds
  <2> QED  BY <1>3, <1>5, <2>3, <2>4 DEF ReadRequests
<1>9. ASSUME ~ away, NEW x \in r.got  PROVE x > oldest /\ x \notin P
  <2>1. ~ r.moved /\ file[r.s] = r.file  BY <1>9
  <2>2. \A y \in left : x > y  BY <2>1
  <2>3. x \in Nat  BY <1>0
  <2> QED  BY <1>3, <1>4, <2>2, <2>3
<1>10. again => away  BY <1>9
<1>11. Due' = r.due \intersect Readable(r.s)  BY <1>7 DEF Due, Readable, Ids, storeVars
<1>12. ASSUME NEW x \in Due', x >= oldest  PROVE x \in req'.got
  <2>1. x \in left \/ x \in r.got  BY <1>11
  <2> QED  BY <1>7, <1>12, <2>1 DEF Page
<1>13. ASSUME ~ away, NEW x \in req'.got  PROVE x >= oldest
  <2>1. CASE x \in r.got
    <3>1. x > oldest /\ x \in Nat  BY <1>0, <1>9, <1>13, <2>1
    <3> QED  BY <1>3, <3>1
  <2>2. CASE x \in P  BY <2>2 DEF Page
  <2> QED  BY <1>7, <2>1, <2>2
<1>14. req'.kind \in CursorKinds /\ req'.kind # "done"  BY <1>7 DEF CursorKinds
<1>15. req'.twice => req'.moved  BY <1>7, <1>10
<1>16. \A x \in req'.due : x <= lastId[req'.s]  BY <1>7
<1>17. /\ \A x \in Due' : x >= req'.anchor => x \in req'.got
       /\ ~ req'.moved => \A x \in req'.got : x >= req'.anchor
  BY <1>7, <1>12, <1>13
<1> QED  BY <1>8, <1>14, <1>15, <1>16, <1>17, CursorStep

LEMMA ReadingIs ==
  ASSUME StoreInv, NEW s \in Stores, NEW kind \in {"read", "scan"}
  PROVE  /\ Reading(kind, s) \in ReadRequests /\ Reading(kind, s).twice = FALSE
         /\ Reading(kind, s).kind = kind /\ Reading(kind, s).s = s
         /\ Reading(kind, s).due = Readable(s) /\ Reading(kind, s).got = {}
         /\ Reading(kind, s).offset = 0 /\ Reading(kind, s).anchor = lastId[s] + 1
         /\ \A x \in Readable(s) : x <= lastId[s]
<1>1. UpTo(Readable(s), lastId[s]) /\ file[s] \in Nat /\ lastId[s] + 1 \in Nat
  BY ReadableIs DEF StoreInv
<1>2. Readable(s) \in SUBSET Nat /\ \A x \in Readable(s) : x <= lastId[s]  BY <1>1 DEF UpTo
<1> QED  BY <1>1, <1>2 DEF Reading, ReadRequests, ReadKinds, CursorKinds

LEMMA StartCursorKeeps ==
  ASSUME RecordInv, NEW s \in Stores, StartCursor(s)
  PROVE  RecordInv'
<1>0. StoreInv  BY DEF RecordInv
<1> PICK r : r = Reading("read", s)  OBVIOUS
<1> PICK left : left = Readable(s)  OBVIOUS
<1>1. /\ r \in ReadRequests /\ r.twice = FALSE /\ r.kind = "read" /\ r.s = s
      /\ r.due = Readable(s) /\ r.got = {} /\ r.anchor = lastId[s] + 1
      /\ \A x \in Readable(s) : x <= lastId[s]
  BY <1>0, ReadingIs
<1>2. UNCHANGED <<storeVars, cache>>  BY DEF StartCursor
<1>3. CASE CursorPaged(r, left)
  <2>1. left \in SUBSET Readable(r.s) /\ \A x \in r.due : x <= lastId[r.s]  BY <1>1
  <2>2. \A x \in r.due \intersect Readable(r.s) : x \in left \/ x \in r.got  BY <1>1
  <2>3. \A x \in r.got, y \in left : x > y  BY <1>1
  <2> QED  BY <1>1, <1>2, <1>3, <2>1, <2>2, <2>3, PagedKeeps
<1>4. CASE req' = r
  <2>1. Due' = Readable(s)  BY <1>1, <1>2, <1>4 DEF Due, Readable, Ids, storeVars
  <2>2. ASSUME NEW x \in Due', x >= req'.anchor  PROVE FALSE
    <3>1. x \in Nat /\ lastId[s] \in Nat  BY <1>0, <2>1, ReadableIs
    <3>2. x <= lastId[s]  BY <1>1, <2>1
    <3> QED  BY <1>1, <1>4, <2>2, <3>1, <3>2
  <2>3. req'.kind \in CursorKinds /\ req'.kind # "done"  BY <1>1, <1>4 DEF CursorKinds
  <2>4. \A x \in req'.due : x <= lastId[req'.s]  BY <1>1, <1>4
  <2>5. \A x \in Due' : x >= req'.anchor => x \in req'.got  BY <2>2
  <2>6. req' \in ReadRequests /\ req'.twice = FALSE /\ req'.got = {}  BY <1>1, <1>4
  <2>7. \A x \in req'.got : x >= req'.anchor  BY <2>6
  <2>8. req'.twice => req'.moved  BY <2>6
  <2> QED  BY <1>2, <2>3, <2>4, <2>5, <2>6, <2>7, <2>8, CursorStep
<1> QED  BY <1>3, <1>4 DEF StartCursor

\* What a reader by cursor has not passed lies before its anchor.
LEMMA CursorIs ==
  ASSUME RecordInv, req.kind \in CursorKinds
  PROVE  /\ req \in ReadRequests /\ (req.twice => req.moved) /\ req.s \in Stores
         /\ req.anchor \in Nat /\ req.got \in SUBSET Nat /\ file[req.s] \in Nat
         /\ \A x \in req.due : x <= lastId[req.s]
         /\ \A x \in Due : x >= req.anchor => x \in req.got
         /\ ~ req.moved => \A x \in req.got : x >= req.anchor
         /\ \A x \in Due : x \in Older(req.s, req.anchor) \/ x \in req.got
<1>1. StoreInv /\ ReadInv /\ req.kind \in ReadKinds  BY DEF RecordInv, ReadKinds
<1>2. /\ req \in ReadRequests /\ (req.twice => req.moved)
      /\ \A x \in req.due : x <= lastId[req.s]
      /\ \A x \in Due : x >= req.anchor => x \in req.got
      /\ ~ req.moved => \A x \in req.got : x >= req.anchor
  BY <1>1 DEF ReadInv
<1>3. req.s \in Stores /\ req.anchor \in Nat /\ req.got \in SUBSET Nat  BY <1>2 DEF ReadRequests
<1>4. file[req.s] \in Nat /\ Readable(req.s) \in SUBSET Nat  BY <1>1, <1>3, ReadableIs DEF StoreInv
<1>5. ASSUME NEW x \in Due, x \notin req.got  PROVE x \in Older(req.s, req.anchor)
  <2>1. x \in Readable(req.s) /\ x \in Nat  BY <1>4 DEF Due
  <2>2. x < req.anchor  BY <1>2, <1>3, <1>5, <2>1
  <2> QED  BY <2>1, <2>2 DEF Older
<1> QED  BY <1>2, <1>3, <1>4, <1>5

\* The check before a page and the look after it move the reader on.
LEMMA CursorMovesOn ==
  ASSUME RecordInv, CheckCursor \/ LookFurther
  PROVE  RecordInv'
<1> PICK r : r = req  OBVIOUS
<1>1. r.kind \in CursorKinds /\ UNCHANGED <<storeVars, cache>>
  BY DEF CheckCursor, LookFurther, CursorKinds
<1>2. /\ r \in ReadRequests /\ (r.twice => r.moved) /\ file[r.s] \in Nat
      /\ \A x \in r.due : x <= lastId[r.s]
      /\ \A x \in Due : x >= r.anchor => x \in r.got
      /\ ~ r.moved => \A x \in r.got : x >= r.anchor
      /\ \A x \in Due : x \in Older(r.s, r.anchor) \/ x \in r.got
  BY <1>1, CursorIs
<1>3. ASSUME NEW k \in CursorKinds \union {"done", "expired"}, NEW i \in Nat,
             req' = [r EXCEPT !.kind = k, !.ident = i],
             k = "done" => Older(r.s, r.anchor) = {}
      PROVE  RecordInv'
  <2>1. /\ req'.kind = k /\ req'.s = r.s /\ req'.due = r.due /\ req'.got = r.got
        /\ req'.anchor = r.anchor /\ req'.twice = r.twice /\ req'.moved = r.moved
    BY <1>2, <1>3 DEF ReadRequests
  <2>2. req' \in ReadRequests  BY <1>2, <1>3 DEF ReadRequests, ReadKinds
  <2>3. Due' = Due  BY <1>1, <2>1 DEF Due, Readable, Ids, storeVars
  <2>4. k = "done" => Due' \subseteq req'.got  BY <1>2, <1>3, <2>1, <2>3
  <2> QED  BY <1>1, <1>2, <2>1, <2>2, <2>3, <2>4, CursorStep
<1>4. r.ident \in Nat  BY <1>2 DEF ReadRequests
<1>5. \A k : [r EXCEPT !.kind = k] = [r EXCEPT !.kind = k, !.ident = r.ident]  BY <1>2 DEF ReadRequests
<1>6. CASE CheckCursor
  <2>1. CASE req' = [r EXCEPT !.kind = "read", !.ident = file[r.s]]
    <3> PICK i \in Nat : i = file[r.s]  BY <1>2
    <3>1. req' = [r EXCEPT !.kind = "read", !.ident = i]  BY <2>1
    <3>2. "read" \in CursorKinds \union {"done", "expired"}  BY DEF CursorKinds
    <3> QED  BY <1>3, <3>1, <3>2
  <2>2. CASE req' = [r EXCEPT !.kind = "expired"]
    <3>1. req' = [r EXCEPT !.kind = "expired", !.ident = r.ident]  BY <1>5, <2>2
    <3> QED  BY <1>3, <1>4, <3>1
  <2> QED  BY <1>6, <2>1, <2>2 DEF CheckCursor
<1>7. CASE LookFurther
  <2>1. PICK k \in {"cursor", "done"} :
          req' = [r EXCEPT !.kind = k] /\ (k = "done" => Older(r.s, r.anchor) = {})
    BY <1>7 DEF LookFurther
  <2>2. req' = [r EXCEPT !.kind = k, !.ident = r.ident]  BY <1>5, <2>1
  <2> QED  BY <1>3, <1>4, <2>1, <2>2 DEF CursorKinds
<1> QED  BY <1>6, <1>7

\* The offset of a page lies at its anchor, or later in another version of the file.
LEMMA ReadPageKeeps ==
  ASSUME RecordInv, ReadPage
  PROVE  RecordInv'
<1>0. StoreInv  BY DEF RecordInv
<1> PICK r : r = req  OBVIOUS
<1>1. r.kind \in CursorKinds /\ UNCHANGED <<storeVars, cache>>  BY DEF ReadPage, CursorKinds
<1>2. /\ r \in ReadRequests /\ (r.twice => r.moved) /\ r.s \in Stores /\ r.anchor \in Nat
      /\ r.got \in SUBSET Nat /\ \A x \in r.due : x <= lastId[r.s]
      /\ ~ r.moved => \A x \in r.got : x >= r.anchor
      /\ \A x \in Due : x \in Older(r.s, r.anchor) \/ x \in r.got
  BY <1>1, CursorIs
<1>3. /\ Readable(r.s) \in SUBSET Nat /\ lastId[r.s] \in Nat
      /\ Ids(r.s) \in SUBSET Nat
  BY <1>0, <1>2, ReadableIs DEF StoreInv, UpTo
<1>4. PICK cut \in Cuts :
        IF Older(r.s, cut) = {} THEN req' = [r EXCEPT !.kind = "done"]
        ELSE CursorPaged(r, Older(r.s, cut))
  BY DEF ReadPage
<1> PICK left : left = Older(r.s, cut)  OBVIOUS
<1>5. cut \in Nat /\ cut >= r.anchor  BY <1>2, <1>3 DEF Cuts
<1>6. file[r.s] = r.file => cut = r.anchor  BY DEF Cuts
<1>7. left \in SUBSET Readable(r.s) /\ \A y \in left : y < cut  BY DEF Older
<1>8. \A x \in r.due \intersect Readable(r.s) : x \in left \/ x \in r.got
  <2>1. SUFFICES ASSUME NEW x \in Older(r.s, r.anchor)  PROVE x \in left  BY <1>2 DEF Due
  <2>2. x \in Readable(r.s) /\ x < r.anchor /\ x \in Nat  BY <1>3 DEF Older
  <2>3. x < cut  BY <1>2, <1>5, <2>2
  <2> QED  BY <2>2, <2>3 DEF Older
<1>9. CASE left # {}
  <2>1. ASSUME ~ r.moved, file[r.s] = r.file, NEW x \in r.got, NEW y \in left  PROVE x > y
    <3>1. x \in Nat /\ y \in Nat /\ x >= r.anchor /\ y < r.anchor
      BY <1>2, <1>3, <1>6, <1>7, <2>1
    <3> QED  BY <1>2, <3>1
  <2>2. CursorPaged(r, left)  BY <1>4, <1>9
  <2> QED  BY <1>1, <1>2, <1>7, <1>8, <2>1, <2>2, PagedKeeps
<1>10. CASE left = {}
  <2>1. req' = [r EXCEPT !.kind = "done"]  BY <1>4, <1>10
  <2>2. /\ req'.kind = "done" /\ req'.s = r.s /\ req'.due = r.due /\ req'.got = r.got
        /\ req'.twice = r.twice /\ req'.moved = r.moved
    BY <1>2, <2>1 DEF ReadRequests
  <2>3. req' \in ReadRequests  BY <1>2, <2>1 DEF ReadRequests, ReadKinds
  <2>4. Due' = r.due \intersect Readable(r.s)  BY <1>1, <2>2 DEF Due, Readable, Ids, storeVars
  <2>5. Due' \subseteq req'.got  BY <1>8, <1>10, <2>2, <2>4
  <2>6. req'.kind \notin CursorKinds  BY <2>2 DEF CursorKinds
  <2> QED  BY <1>1, <1>2, <2>2, <2>3, <2>5, <2>6, CursorStep
<1> QED  BY <1>9, <1>10

LEMMA StartScanKeeps ==
  ASSUME RecordInv, NEW s \in Stores, StartScan(s)
  PROVE  RecordInv'
<1>0. StoreInv /\ CacheInv  BY DEF RecordInv
<1>1. /\ req' \in ReadRequests /\ req'.twice = FALSE /\ req'.kind = "scan" /\ req'.s = s
      /\ req'.due = Readable(s) /\ req'.offset = 0 /\ \A x \in Readable(s) : x <= lastId[s]
  BY <1>0, ReadingIs DEF StartScan
<1>2. UNCHANGED <<storeVars, cache>>  BY DEF StartScan
<1>3. \A x \in req'.due : x <= lastId'[req'.s]  BY <1>1, <1>2 DEF storeVars
<1>4. req'.kind \in {"none", "missing"} \union ReadKinds \union ProjectionKinds
  BY <1>1 DEF ReadKinds
<1>5. StoreInv' /\ CacheInv'  BY <1>0, <1>2, <1>4, QuietStep
<1>6. ASSUME NEW x  PROVE 0 <= Cardinality(Newer(Readable(s), x))
  <2>1. UpTo(Readable(s), lastId[s]) /\ lastId[s] \in Nat  BY <1>0, ReadableIs
  <2>2. Newer(Readable(s), x) \in SUBSET Readable(s)  BY DEF Newer
  <2>3. Cardinality(Newer(Readable(s), x)) \in Nat  BY <2>1, <2>2, IdsFinite
  <2> QED  BY <2>3
<1>7. Readable(s)' = Readable(s)  BY <1>2 DEF Readable, Ids, storeVars
<1>8. ReadInv'  BY <1>1, <1>3, <1>6, <1>7 DEF ReadInv, CursorKinds
<1>9. ProjectionInv'  BY <1>1 DEF ProjectionInv, ProjectionKinds
<1> QED  BY <1>5, <1>8, <1>9 DEF RecordInv

\* A page of a scan leaves a request.
LEMMA ScannedIs ==
  ASSUME NEW r \in ReadRequests, NEW o \in Nat, NEW g \in SUBSET Nat
  PROVE  [r EXCEPT !.offset = o, !.got = g] \in ReadRequests
BY DEF ReadRequests

LEMMA ScanPageKeeps ==
  ASSUME RecordInv, ScanPage
  PROVE  RecordInv'
<1>0. StoreInv /\ CacheInv /\ ReadInv  BY DEF RecordInv
<1> PICK r : r = req  OBVIOUS
<1> PICK R : R = Readable(r.s)  OBVIOUS
<1> PICK N : N = Newest(R, r.offset)  OBVIOUS
<1>1. r.kind = "scan" /\ UNCHANGED <<storeVars, cache>>  BY DEF ScanPage
<1>2. /\ r \in ReadRequests /\ (r.twice => r.moved) /\ r.s \in Stores /\ r.offset \in Nat
      /\ r.got \in SUBSET Nat /\ \A x \in r.due : x <= lastId[r.s]
  BY <1>0, <1>1 DEF ReadInv, ReadRequests, ReadKinds
<1>3. \A x \in (r.due \intersect R) \ r.got : r.offset <= Cardinality(Newer(R, x))
  BY <1>0, <1>1 DEF ReadInv, Due
<1>4. UpTo(R, lastId[r.s]) /\ lastId[r.s] \in Nat /\ R \in SUBSET Nat  BY <1>0, <1>2, ReadableIs
<1>5. ASSUME NEW x  PROVE Cardinality(Newer(R, x)) \in Nat
  <2>1. Newer(R, x) \in SUBSET R  BY DEF Newer
  <2> QED  BY <1>4, <2>1, IdsFinite
<1>6. ASSUME NEW x \in (r.due \intersect R) \ r.got  PROVE x \in R \ N
  <2>1. ~(Cardinality(Newer(R, x)) < r.offset)  BY <1>2, <1>3, <1>5
  <2> QED  BY <2>1 DEF Newest
<1>7. Readable(r.s)' = R  BY <1>1 DEF Readable, Ids, storeVars
<1>8. CASE R \ N = {} /\ req' = [r EXCEPT !.kind = "done"]
  <2>1. /\ req' \in ReadRequests /\ req'.kind = "done" /\ (req'.twice => req'.moved) /\ req'.s = r.s
        /\ req'.due = r.due /\ req'.got = r.got
    BY <1>2, <1>8 DEF ReadRequests, ReadKinds, CursorKinds
  <2>2. Due' \subseteq req'.got  BY <1>6, <1>7, <1>8, <2>1 DEF Due
  <2>3. \A x \in req'.due : x <= lastId'[req'.s]  BY <1>1, <1>2, <2>1 DEF storeVars
  <2>4. ReadInv'  BY <2>1, <2>2, <2>3 DEF ReadInv, CursorKinds
  <2>5. ProjectionInv'  BY <2>1 DEF ProjectionInv, ProjectionKinds
  <2>6. req'.kind \in {"none", "missing"} \union ReadKinds \union ProjectionKinds
    BY <2>1 DEF ReadKinds, CursorKinds
  <2> QED  BY <1>0, <1>1, <2>4, <2>5, <2>6, QuietStep DEF RecordInv
<1>9. ASSUME NEW oldest \in Newest(R \ N, PageSize), NEW P, P = Page(R \ N, oldest),
             req' = [r EXCEPT !.offset = r.offset + Cardinality(P), !.got = @ \union P]
      PROVE  RecordInv'
  <2>1. oldest \in R \ N /\ oldest \in Nat  BY <1>4 DEF Newest
  <2>2. P \in SUBSET R /\ N \in SUBSET R /\ P \intersect N = {}  BY <1>9 DEF Page, Newest
  <2>3. /\ IsFiniteSet(P) /\ IsFiniteSet(N) /\ Cardinality(P) \in Nat /\ Cardinality(N) \in Nat
    BY <1>4, <2>2, IdsFinite
  <2>4. r.offset <= Cardinality(N)  BY <1>2, <1>4, <2>1, NewestCount
  <2>5. /\ IsFiniteSet(N \union P) /\ Cardinality(N \union P) = Cardinality(N) + Cardinality(P)
    <3>1. N \intersect P = {} /\ Cardinality({}) = 0  BY <2>2, FS_EmptySet
    <3>2. Cardinality(N \union P) = Cardinality(N) + Cardinality(P) - Cardinality(N \cap P)
      BY <2>3, FS_Union
    <3>3. IsFiniteSet(N \union P)  BY <2>3, FS_Union
    <3>4. Cardinality(N \cap P) = 0  BY <3>1
    <3>5. Cardinality(N \union P) = Cardinality(N) + Cardinality(P)  BY <2>3, <3>2, <3>4
    <3> QED  BY <3>3, <3>5
  <2>6. /\ req' \in ReadRequests /\ req'.kind = "scan" /\ (req'.twice => req'.moved) /\ req'.s = r.s
        /\ req'.due = r.due /\ req'.got = r.got \union P
        /\ req'.offset = r.offset + Cardinality(P)
    <3> PICK o : o = r.offset + Cardinality(P)  OBVIOUS
    <3> PICK g : g = r.got \union P  OBVIOUS
    <3>0. g \in SUBSET Nat  BY <1>2, <1>4, <2>2
    <3>1. o \in Nat  BY <1>2, <2>3
    <3>2. r.kind = "scan" /\ (r.twice => r.moved)  BY <1>1, <1>2
    <3>3. req' = [r EXCEPT !.offset = o, !.got = g]  BY <1>9
    <3>4. req' \in ReadRequests  BY <1>2, <3>0, <3>1, <3>3, ScannedIs
    <3>5. /\ req'.kind = "scan" /\ (req'.twice => req'.moved) /\ req'.s = r.s
          /\ req'.due = r.due /\ req'.got = g /\ req'.offset = o
      BY <1>2, <3>2, <3>3 DEF ReadRequests
    <3> QED  BY <3>4, <3>5
  <2>7. ASSUME NEW x \in Due' \ req'.got
        PROVE  r.offset + Cardinality(P) <= Cardinality(Newer(R, x))
    <3>1. x \in (r.due \intersect R) \ r.got /\ x \notin P  BY <1>7, <2>6 DEF Due
    <3>2. x \in R \ N /\ x \in Nat  BY <1>4, <1>6, <3>1
    <3>3. ~(x >= oldest)  BY <1>9, <3>1, <3>2 DEF Page
    <3>4. x < oldest  BY <2>1, <3>2, <3>3
    <3>5. ASSUME NEW y \in P  PROVE y > x
      <4>1. y >= oldest /\ y \in Nat  BY <1>4, <1>9, <2>2 DEF Page
      <4> QED  BY <2>1, <3>2, <3>4, <4>1
    <3>6. ASSUME NEW y \in N  PROVE y > x
      <4>1. y \in Nat /\ r.offset \in Int  BY <1>2, <1>4, <2>2
      <4>2. ~(x >= y)  BY <1>4, <3>2, <4>1, NewestClosed
      <4> QED  BY <3>2, <4>1, <4>2
    <3>7. N \union P \in SUBSET Newer(R, x)  BY <2>2, <3>5, <3>6 DEF Newer
    <3>8. UpTo(Newer(R, x), lastId[r.s])  BY <1>4 DEF UpTo, Newer
    <3>9. Cardinality(N \union P) <= Cardinality(Newer(R, x))  BY <1>4, <3>7, <3>8, IdsFinite
    <3> QED  BY <1>2, <1>5, <2>3, <2>4, <2>5, <3>9
  <2>8. \A x \in req'.due : x <= lastId'[req'.s]  BY <1>1, <1>2, <2>6 DEF storeVars
  <2>9. \A x \in Due' \ req'.got : req'.offset <= Cardinality(Newer(Readable(r.s)', x))
    BY <1>7, <2>6, <2>7
  <2>10. ReadInv'  BY <2>6, <2>8, <2>9 DEF ReadInv, CursorKinds
  <2>11. ProjectionInv'  BY <2>6 DEF ProjectionInv, ProjectionKinds
  <2>12. req'.kind \in {"none", "missing"} \union ReadKinds \union ProjectionKinds
    BY <2>6 DEF ReadKinds, CursorKinds
  <2> QED  BY <1>0, <1>1, <2>10, <2>11, <2>12, QuietStep DEF RecordInv
<1>10. \/ R \ N = {} /\ req' = [r EXCEPT !.kind = "done"]
       \/ \E oldest \in Newest(R \ N, PageSize) :
            req' = [r EXCEPT !.offset = r.offset + Cardinality(Page(R \ N, oldest)),
                             !.got = @ \union Page(R \ N, oldest)]
  BY DEF ScanPage, Advance
<1>11. CASE \E oldest \in Newest(R \ N, PageSize) :
              req' = [r EXCEPT !.offset = r.offset + Cardinality(Page(R \ N, oldest)),
                               !.got = @ \union Page(R \ N, oldest)]
  <2>1. PICK oldest \in Newest(R \ N, PageSize) :
          req' = [r EXCEPT !.offset = r.offset + Cardinality(Page(R \ N, oldest)),
                           !.got = @ \union Page(R \ N, oldest)]
    BY <1>11
  <2> PICK P : P = Page(R \ N, oldest)  OBVIOUS
  <2>2. req' = [r EXCEPT !.offset = r.offset + Cardinality(P), !.got = @ \union P]  BY <2>1
  <2> QED  BY <1>9, <2>2
<1> QED  BY <1>8, <1>10, <1>11

LEMMA LineageIs ==
  ASSUME StoreInv, NEW s \in Stores, NEW k
  PROVE  /\ UpTo(Lineage(s, k), lastId[s]) /\ lastId[s] \in Nat /\ Lineage(s, k) \in SUBSET Nat
         /\ Tracks(s, k, Lineage(s, k)) /\ Fingerprint(Lineage(s, k)) \in Prints
<1>1. UpTo(Ids(s), lastId[s]) /\ lastId[s] \in Nat  BY DEF StoreInv
<1>2. UpTo(Lineage(s, k), lastId[s]) /\ Lineage(s, k) \in SUBSET Nat  BY <1>1 DEF UpTo, Lineage
<1>3. Fingerprint(Lineage(s, k)) \in Prints  BY <1>1, <1>2, PrintType
<1> QED  BY <1>1, <1>2, <1>3 DEF Tracks

\* A step of a projection, which leaves the stores and the cache alone.
LEMMA ProjectionReads ==
  ASSUME RecordInv, UNCHANGED <<storeVars, cache>>, req' \in Projections,
         \A s \in Stores : SawInv(s)' /\ BuiltInv(s)' /\ AgainInv(s)',
         req'.kind = "build" => req'.at # "end", req'.kind = "served" => req'.build = req'.saw
  PROVE  RecordInv'
<1>0. StoreInv /\ CacheInv  BY DEF RecordInv
<1>1. req'.kind \in ProjectionKinds  BY DEF Projections
<1>2. ProjectionInv'  BY DEF ProjectionInv
<1>3. ReadInv'  BY <1>1 DEF ReadInv, ReadKinds, CursorKinds, ProjectionKinds
<1>4. req'.kind \in {"none", "missing"} \union ReadKinds \union ProjectionKinds  BY <1>1
<1> QED  BY <1>0, <1>2, <1>3, <1>4, QuietStep DEF RecordInv

LEMMA StartedIs ==
  ASSUME NEW k \in Keys, NEW round \in {1, 2}, req' = Started(k, round)
  PROVE  /\ req' \in Projections /\ req'.kind = "before" /\ req'.at = "reports" /\ req'.k = k
         /\ \A s \in Stores : SawInv(s)' /\ BuiltInv(s)' /\ AgainInv(s)'
<1>1. Nothing \in [Stores -> SUBSET Nat] /\ Nothing \in [Stores -> Prints]
  BY DEF Nothing, Prints
<1>2. /\ req' \in Projections /\ req'.kind = "before" /\ req'.at = "reports" /\ req'.k = k
  BY <1>1 DEF Started, Projections, ProjectionKinds, Stores
<1>3. ASSUME NEW s \in Stores  PROVE ~SawRead(s)' /\ ~Built(s)' /\ ~ReadAgain(s)'
  BY <1>2 DEF SawRead, Built, ReadAgain, Past
<1> QED  BY <1>2, <1>3 DEF SawInv, BuiltInv, AgainInv

LEMMA StartProjectionKeeps ==
  ASSUME RecordInv, NEW k \in Keys, StartProjection(k)
  PROVE  RecordInv'
<1>1. req' = Started(k, 1) /\ UNCHANGED <<storeVars, cache>>  BY DEF StartProjection
<1>2. /\ req' \in Projections /\ req'.kind = "before"
      /\ \A s \in Stores : SawInv(s)' /\ BuiltInv(s)' /\ AgainInv(s)'
  BY <1>1, StartedIs
<1> QED  BY <1>1, <1>2, ProjectionReads

LEMMA ReadBeforeKeeps ==
  ASSUME RecordInv, ReadFingerprint, req.kind = "before"
  PROVE  RecordInv'
<1>0. StoreInv /\ CacheInv /\ ProjectionInv /\ burst \in Nat  BY DEF RecordInv, StoreInv
<1> PICK r : r = req  OBVIOUS
<1>1. /\ r \in Projections /\ r.kind = "before" /\ r.at \in Stores /\ r.k \in Keys
      /\ \A s \in Stores : SawInv(s)
  BY <1>0 DEF ProjectionInv, ProjectionKinds, Projections, ReadFingerprint
<1> PICK a : a = r.at  OBVIOUS
<1> PICK found : found = Lineage(a, r.k)  OBVIOUS
<1> PICK print : print = Fingerprint(found)  OBVIOUS
<1>2. UNCHANGED <<storeVars, cache>>  BY DEF ReadFingerprint
<1>3. /\ UpTo(found, lastId[a]) /\ lastId[a] \in Nat /\ found \in SUBSET Nat
      /\ Tracks(a, r.k, found) /\ print \in Prints
  BY <1>0, <1>1, LineageIs
<1>4. req' = [r EXCEPT !.at = After(a), !.before[a] = print, !.saw[a] = found]
  BY DEF ReadFingerprint
<1>5. After(a) \in Stores \union {"end"}  BY DEF After, Stores
<1>6. /\ r.before \in [Stores -> Prints] /\ r.saw \in [Stores -> SUBSET Nat]
      /\ [r.before EXCEPT ![a] = print] \in [Stores -> Prints]
      /\ [r.saw EXCEPT ![a] = found] \in [Stores -> SUBSET Nat]
  BY <1>1, <1>3 DEF Projections
<1> PICK b : b = [r.before EXCEPT ![a] = print]  OBVIOUS
<1> PICK v : v = [r.saw EXCEPT ![a] = found]  OBVIOUS
<1>7. req' = [r EXCEPT !.at = After(a), !.before = b, !.saw = v]  BY <1>4
<1>8. /\ req' \in Projections /\ req'.kind = "before" /\ req'.k = r.k /\ req'.at = After(a)
      /\ req'.before = b /\ req'.saw = v
  <2>1. b \in [Stores -> Prints] /\ v \in [Stores -> SUBSET Nat]  BY <1>6
  <2> PICK t \in Stores \union {"end"} : t = After(a)  BY <1>5
  <2>2. req' = [r EXCEPT !.at = t, !.before = b, !.saw = v]  BY <1>7
  <2>3. /\ req' = [kind |-> r.kind, k |-> r.k, round |-> r.round, at |-> t, saw |-> v,
                   before |-> b, build |-> r.build, after |-> r.after]
        /\ r.round \in {1, 2} /\ r.build \in [Stores -> SUBSET Nat] /\ r.after \in [Stores -> Prints]
        /\ r.kind \in ProjectionKinds
    <3> HIDE DEF ProjectionKinds, Stores, Prints
    <3> QED  BY <1>1, <2>2 DEF Projections
  <2>4. req' \in Projections
    <3> HIDE DEF ProjectionKinds, Stores, Prints
    <3> QED  BY <1>1, <2>1, <2>3 DEF Projections
  <2>5. /\ req'.kind = "before" /\ req'.k = r.k /\ req'.at = t /\ req'.before = b /\ req'.saw = v
    BY <1>1, <2>3
  <2> QED  BY <2>4, <2>5
<1>9. \A s \in Stores : ~Built(s)' /\ ~ReadAgain(s)'  BY <1>8 DEF Built, ReadAgain
<1>10. ASSUME NEW s \in Stores, SawRead(s)'  PROVE s = a \/ SawRead(s)
  BY <1>1, <1>8, <1>10 DEF SawRead, Past, After, Stores
<1>11. \A u : Fingerprint(u)' = Fingerprint(u)  BY <1>2 DEF Fingerprint, storeVars
<1>12. \A s \in Stores : /\ Lineage(s, r.k)' = Lineage(s, r.k)
                         /\ \A u : Tracks(s, r.k, u)' = Tracks(s, r.k, u)
  BY <1>2 DEF Tracks, Lineage, Ids, storeVars
<1>13. ASSUME NEW s \in Stores  PROVE SawInv(s)'
  <2>1. CASE s = a
    <3>1. b[s] = print /\ v[s] = found  BY <1>1, <1>6, <2>1
    <3>2. ASSUME NEW c \in cache[r.k], NEW x \in found, x <= Top(c.value[s])
          PROVE  x \in c.value[s]
      <4>1. Tracks(s, r.k, c.value[s])  BY <1>0, <1>1 DEF CacheInv
      <4> QED  BY <2>1, <3>2, <4>1 DEF Tracks
    <3>3. cache' = cache  BY <1>2
    <3> QED  BY <1>3, <1>8, <1>11, <1>12, <2>1, <3>1, <3>2, <3>3 DEF SawInv
  <2>2. CASE s # a /\ SawRead(s)
    <3>1. b[s] = r.before[s] /\ v[s] = r.saw[s]  BY <1>6, <2>2
    <3>2. /\ r.before[s] = Fingerprint(r.saw[s]) /\ Tracks(s, r.k, r.saw[s])
          /\ \A x \in Lineage(s, r.k) \ r.saw[s] : x + burst > lastId[s]
          /\ \A c \in cache[r.k] : \A x \in r.saw[s] :
                x <= Top(c.value[s]) => x \in c.value[s]
      BY <1>1, <2>2 DEF SawInv
    <3>3. cache' = cache /\ burst' = burst /\ lastId' = lastId  BY <1>2 DEF storeVars
    <3> QED  BY <1>8, <1>11, <1>12, <3>1, <3>2, <3>3 DEF SawInv
  <2>3. CASE ~SawRead(s)'  BY <2>3 DEF SawInv
  <2> QED  BY <1>10, <2>1, <2>2, <2>3
<1>14. \A s \in Stores : BuiltInv(s)' /\ AgainInv(s)'  BY <1>9 DEF BuiltInv, AgainInv
<1> QED  BY <1>2, <1>8, <1>13, <1>14, ProjectionReads

LEMMA ReadAfterKeeps ==
  ASSUME RecordInv, ReadFingerprint, req.kind = "after"
  PROVE  RecordInv'
<1>0. StoreInv /\ CacheInv /\ ProjectionInv  BY DEF RecordInv
<1> PICK r : r = req  OBVIOUS
<1>1. /\ r \in Projections /\ r.kind = "after" /\ r.at \in Stores /\ r.k \in Keys
      /\ \A s \in Stores : SawInv(s) /\ BuiltInv(s) /\ AgainInv(s)
  BY <1>0 DEF ProjectionInv, ProjectionKinds, Projections, ReadFingerprint
<1> PICK a : a = r.at  OBVIOUS
<1> PICK found : found = Lineage(a, r.k)  OBVIOUS
<1> PICK print : print = Fingerprint(found)  OBVIOUS
<1>2. UNCHANGED <<storeVars, cache>>  BY DEF ReadFingerprint
<1>3. UpTo(found, lastId[a]) /\ lastId[a] \in Nat /\ print \in Prints
  BY <1>0, <1>1, LineageIs
<1>4. req' = [r EXCEPT !.at = After(a), !.after[a] = print]
  BY <1>1 DEF ReadFingerprint
<1>5. After(a) \in Stores \union {"end"}  BY DEF After, Stores
<1>6. r.after \in [Stores -> Prints] /\ [r.after EXCEPT ![a] = print] \in [Stores -> Prints]
  BY <1>1, <1>3 DEF Projections
<1> PICK b : b = [r.after EXCEPT ![a] = print]  OBVIOUS
<1>7. req' = [r EXCEPT !.at = After(a), !.after = b]  BY <1>4
<1>8. /\ req' \in Projections /\ req'.kind = "after" /\ req'.k = r.k /\ req'.at = After(a)
      /\ req'.before = r.before /\ req'.saw = r.saw /\ req'.build = r.build /\ req'.after = b
  BY <1>1, <1>5, <1>6, <1>7 DEF Projections
<1>9. \A u : Fingerprint(u)' = Fingerprint(u)  BY <1>2 DEF Fingerprint, storeVars
<1>10. \A s \in Stores : /\ Lineage(s, r.k)' = Lineage(s, r.k)
                         /\ \A u : Tracks(s, r.k, u)' = Tracks(s, r.k, u)
  BY <1>2 DEF Tracks, Lineage, Ids, storeVars
<1>11. ASSUME NEW s \in Stores
       PROVE  /\ r.before[s] = Fingerprint(r.saw[s]) /\ Tracks(s, r.k, r.saw[s])
              /\ \A x \in Lineage(s, r.k) \ r.saw[s] : x + burst > lastId[s]
              /\ r.build[s] \ r.saw[s] \subseteq Lineage(s, r.k)
              /\ r.saw[s] \intersect Lineage(s, r.k) \subseteq r.build[s]
  BY <1>1 DEF SawInv, SawRead, BuiltInv, Built
<1>12. ASSUME NEW s \in Stores  PROVE SawInv(s)' /\ BuiltInv(s)'
  <2>1. burst' = burst /\ lastId' = lastId  BY <1>2 DEF storeVars
  <2> QED  BY <1>8, <1>9, <1>10, <1>11, <2>1 DEF SawInv, BuiltInv
<1>13. ASSUME NEW s \in Stores  PROVE AgainInv(s)'
  <2>1. CASE s = a
    <3>1. SUFFICES ASSUME print = r.before[a]  PROVE r.build[a] = r.saw[a]
      BY <1>1, <1>6, <1>8, <2>1 DEF AgainInv
    <3>2. /\ Fingerprint(r.saw[a]) = Fingerprint(found) /\ UpTo(r.saw[a], lastId[a])
          /\ \A x \in found : x <= Top(r.saw[a]) => x \in r.saw[a]
      BY <1>1, <1>11, <3>1 DEF Tracks
    <3>3. r.saw[a] = found  BY <1>3, <3>2, SamePrint
    <3>4. /\ r.build[a] \ r.saw[a] \subseteq r.saw[a]
          /\ r.saw[a] \intersect r.saw[a] \subseteq r.build[a]
      BY <1>1, <1>11, <3>3
    <3> QED  BY <3>4
  <2>2. CASE s # a
    <3>1. b[s] = r.after[s]  BY <1>6, <2>2
    <3>2. ReadAgain(s)' => ReadAgain(s)
      BY <1>1, <1>8, <2>2 DEF ReadAgain, Past, After, Stores
    <3> QED  BY <1>1, <1>8, <3>1, <3>2 DEF AgainInv
  <2> QED  BY <2>1, <2>2
<1> QED  BY <1>2, <1>8, <1>12, <1>13, ProjectionReads

\* A cache with other entries, each of which was the lineages of its key once.
LEMMA CacheMoves ==
  ASSUME RecordInv, UNCHANGED storeVars, cache' = [k \in Keys |-> cache'[k]],
         \A k \in Keys : \A c \in cache'[k] :
           \/ c \in cache[k]
           \/ /\ c.fp = [s \in Stores |-> Fingerprint(c.value[s])]
              /\ c.value \in [Stores -> SUBSET Nat]
              /\ \A s \in Stores : Tracks(s, k, c.value[s])
  PROVE  CacheInv'
<1>1. \A k \in Keys : \A c \in cache'[k] :
        /\ c.fp = [s \in Stores |-> Fingerprint(c.value[s])]
        /\ c.value \in [Stores -> SUBSET Nat]
        /\ \A s \in Stores : Tracks(s, k, c.value[s])
  BY DEF RecordInv, CacheInv
<1>2. \A u : Fingerprint(u)' = Fingerprint(u)  BY DEF Fingerprint, storeVars
<1>3. \A s \in Stores, k \in Keys : \A u : Tracks(s, k, u)' = Tracks(s, k, u)
  BY DEF Tracks, Lineage, Ids, storeVars
<1> QED  BY <1>1, <1>2, <1>3 DEF CacheInv

LEMMA ProjectionMoves ==
  ASSUME RecordInv, UNCHANGED storeVars, CacheInv', req' \in Projections,
         \A s \in Stores : SawInv(s)' /\ BuiltInv(s)' /\ AgainInv(s)',
         req'.kind = "build" => req'.at # "end", req'.kind = "served" => req'.build = req'.saw
  PROVE  RecordInv'
<1>0. StoreInv  BY DEF RecordInv
<1>1. req'.kind \in ProjectionKinds  BY DEF Projections
<1>2. ProjectionInv'  BY DEF ProjectionInv
<1>3. ReadInv'  BY <1>1 DEF ReadInv, ReadKinds, CursorKinds, ProjectionKinds
<1>4. StoreInv'  BY <1>0, <1>1 DEF StoreInv, storeVars, Ids
<1> QED  BY <1>2, <1>3, <1>4 DEF RecordInv

LEMMA LookUpKeeps ==
  ASSUME RecordInv, LookUp
  PROVE  RecordInv'
<1>0. StoreInv /\ CacheInv /\ ProjectionInv  BY DEF RecordInv
<1> PICK r : r = req  OBVIOUS
<1> PICK hits : hits = {c \in cache[r.k] : c.fp = r.before}  OBVIOUS
<1>1. /\ r.kind = "before" /\ r.at = "end" /\ UNCHANGED storeVars
      /\ cache' = [cache EXCEPT ![r.k] = hits]
      /\ req' = IF hits = {} THEN [r EXCEPT !.kind = "build", !.at = "reports"]
                ELSE [r EXCEPT !.kind = "served", !.build = (CHOOSE c \in hits : TRUE).value]
  BY DEF LookUp
<1>2. /\ r \in Projections /\ r.k \in Keys /\ r.saw \in [Stores -> SUBSET Nat]
      /\ \A s \in Stores : SawInv(s)
  BY <1>0, <1>1 DEF ProjectionInv, ProjectionKinds, Projections
<1>3. \A s \in Stores :
        /\ r.before[s] = Fingerprint(r.saw[s]) /\ Tracks(s, r.k, r.saw[s])
        /\ \A x \in Lineage(s, r.k) \ r.saw[s] : x + burst > lastId[s]
        /\ \A c \in cache[r.k] : \A x \in r.saw[s] :
             x <= Top(c.value[s]) => x \in c.value[s]
  BY <1>1, <1>2 DEF SawInv, SawRead, Past
<1>4. CacheInv'
  <2>1. cache = [k \in Keys |-> cache[k]]  BY <1>0 DEF CacheInv
  <2>2. cache' = [k \in Keys |-> cache'[k]] /\ \A k \in Keys : \A c \in cache'[k] : c \in cache[k]
    BY <1>1, <1>2, <2>1
  <2> QED  BY <1>1, <2>2, CacheMoves
<1>5. \A u : Fingerprint(u)' = Fingerprint(u)  BY <1>1 DEF Fingerprint, storeVars
<1>6. \A s \in Stores : /\ Lineage(s, r.k)' = Lineage(s, r.k)
                        /\ \A u : Tracks(s, r.k, u)' = Tracks(s, r.k, u)
  BY <1>1 DEF Tracks, Lineage, Ids, storeVars
<1>7. ASSUME req'.kind \in {"build", "served"}, req'.at = "reports" \/ req'.kind = "served",
             req'.k = r.k, req'.before = r.before, req'.saw = r.saw
      PROVE  \A s \in Stores : SawInv(s)' /\ BuiltInv(s)' /\ AgainInv(s)'
  <2>1. burst' = burst /\ lastId' = lastId  BY <1>1 DEF storeVars
  <2>2. ASSUME NEW s \in Stores  PROVE SawInv(s)'
    BY <1>3, <1>5, <1>6, <1>7, <2>1 DEF SawInv
  <2>3. ASSUME NEW s \in Stores  PROVE ~Built(s)' /\ ~ReadAgain(s)'
    BY <1>7 DEF Built, ReadAgain, Past
  <2> QED  BY <2>2, <2>3 DEF BuiltInv, AgainInv
<1>8. CASE hits = {}
  <2>1. /\ req' \in Projections /\ req'.kind = "build" /\ req'.at = "reports" /\ req'.k = r.k
        /\ req'.before = r.before /\ req'.saw = r.saw
    BY <1>1, <1>2, <1>8 DEF Projections, ProjectionKinds, Stores
  <2> QED  BY <1>1, <1>4, <1>7, <2>1, ProjectionMoves
<1>9. CASE hits # {}
  <2>1. PICK c \in hits : req' = [r EXCEPT !.kind = "served", !.build = c.value]
    BY <1>1, <1>9
  <2>2. /\ c \in cache[r.k] /\ c.fp = r.before /\ c.value \in [Stores -> SUBSET Nat]
        /\ c.fp = [s \in Stores |-> Fingerprint(c.value[s])]
        /\ \A s \in Stores : Tracks(s, r.k, c.value[s])
    BY <1>0, <1>2, <2>1 DEF CacheInv
  <2>3. ASSUME NEW s \in Stores  PROVE c.value[s] = r.saw[s]
    <3>1. lastId[s] \in Nat  BY <1>0 DEF StoreInv
    <3>2. UpTo(c.value[s], lastId[s]) /\ UpTo(r.saw[s], lastId[s])
      BY <1>3, <2>2 DEF Tracks
    <3>3. Fingerprint(c.value[s]) = Fingerprint(r.saw[s])  BY <1>3, <2>2
    <3>4. \A x \in r.saw[s] : x <= Top(c.value[s]) => x \in c.value[s]  BY <1>3, <2>2
    <3> QED  BY <3>1, <3>2, <3>3, <3>4, SamePrint
  <2>4. c.value = r.saw  BY <1>2, <2>2, <2>3
  <2>5. /\ req' \in Projections /\ req'.kind = "served" /\ req'.k = r.k
        /\ req'.before = r.before /\ req'.saw = r.saw /\ req'.build = c.value
    BY <1>2, <2>1, <2>2 DEF Projections, ProjectionKinds
  <2> QED  BY <1>1, <1>4, <1>7, <2>4, <2>5, ProjectionMoves
<1> QED  BY <1>8, <1>9

LEMMA BuildKeeps ==
  ASSUME RecordInv, Build
  PROVE  RecordInv'
<1>0. StoreInv /\ CacheInv /\ ProjectionInv  BY DEF RecordInv
<1> PICK r : r = req  OBVIOUS
<1>1. /\ r \in Projections /\ r.kind = "build" /\ r.at \in Stores /\ r.k \in Keys
      /\ r.build \in [Stores -> SUBSET Nat]
      /\ \A s \in Stores : SawInv(s) /\ BuiltInv(s)
  BY <1>0 DEF ProjectionInv, ProjectionKinds, Projections, Build
<1> PICK a : a = r.at  OBVIOUS
<1> PICK found : found = Lineage(a, r.k)  OBVIOUS
<1> PICK b : b = [r.build EXCEPT ![a] = found]  OBVIOUS
<1>2. UNCHANGED <<storeVars, cache>>  BY DEF Build
<1>3. found \in SUBSET Nat  BY <1>0, <1>1, LineageIs
<1>4. b \in [Stores -> SUBSET Nat] /\ b[a] = found /\ \A s \in Stores \ {a} : b[s] = r.build[s]
  BY <1>1, <1>3
<1>5. \/ req' = [kind |-> "missing"]
      \/ a = "reports" /\ req' = [r EXCEPT !.at = "detections", !.build = b]
      \/ a = "detections" /\ req' = [r EXCEPT !.kind = "after", !.at = "reports", !.build = b]
  <2>1. CASE a = "reports" /\ found = {}  BY <2>1 DEF Build
  <2>2. CASE a = "reports" /\ found # {}
    <3>1. req' = [r EXCEPT !.at = "detections", !.build["reports"] = found]  BY <2>2 DEF Build
    <3> QED  BY <2>2, <3>1
  <2>3. CASE a = "detections"
    <3>1. req' = [r EXCEPT !.kind = "after", !.at = "reports", !.build["detections"] = found]
      BY <2>3 DEF Build
    <3> QED  BY <2>3, <3>1
  <2> QED  BY <1>1, <2>1, <2>2, <2>3 DEF Stores
<1>6. CASE req' = [kind |-> "missing"]
  <2>1. req'.kind = "missing"  BY <1>6
  <2>2. ReadInv' /\ ProjectionInv'
    BY <2>1 DEF ReadInv, ProjectionInv, ReadKinds, CursorKinds, ProjectionKinds
  <2>3. req'.kind \in {"none", "missing"} \union ReadKinds \union ProjectionKinds  BY <2>1
  <2> QED  BY <1>0, <1>2, <2>2, <2>3, QuietStep DEF RecordInv
<1>7. CASE req' # [kind |-> "missing"]
  <2>1. /\ req' \in Projections /\ req'.k = r.k /\ req'.before = r.before /\ req'.saw = r.saw
        /\ req'.build = b
        /\ \/ req'.kind = "build" /\ req'.at = "detections" /\ a = "reports"
           \/ req'.kind = "after" /\ req'.at = "reports" /\ a = "detections"
    <3>1. CASE a = "reports" /\ req' = [r EXCEPT !.at = "detections", !.build = b]
      BY <1>1, <1>4, <3>1 DEF Projections, Stores
    <3>2. CASE a = "detections" /\ req' = [r EXCEPT !.kind = "after", !.at = "reports", !.build = b]
      BY <1>1, <1>4, <3>2 DEF Projections, Stores, ProjectionKinds
    <3> QED  BY <1>5, <1>7, <3>1, <3>2
  <2>2. \A s \in Stores : ~ReadAgain(s)'  BY <2>1 DEF ReadAgain, Past
  <2>3. \A u : Fingerprint(u)' = Fingerprint(u)  BY <1>2 DEF Fingerprint, storeVars
  <2>4. \A s \in Stores : /\ Lineage(s, r.k)' = Lineage(s, r.k)
                          /\ \A u : Tracks(s, r.k, u)' = Tracks(s, r.k, u)
    BY <1>2 DEF Tracks, Lineage, Ids, storeVars
  <2>5. ASSUME NEW s \in Stores  PROVE SawInv(s)'
    <3>1. burst' = burst /\ lastId' = lastId  BY <1>2 DEF storeVars
    <3>2. /\ r.before[s] = Fingerprint(r.saw[s]) /\ Tracks(s, r.k, r.saw[s])
          /\ \A x \in Lineage(s, r.k) \ r.saw[s] : x + burst > lastId[s]
      BY <1>1 DEF SawInv, SawRead
    <3> QED  BY <2>1, <2>3, <2>4, <3>1, <3>2 DEF SawInv
  <2>6. ASSUME NEW s \in Stores  PROVE BuiltInv(s)'
    <3>1. CASE s = a  BY <1>4, <2>1, <2>4, <3>1 DEF BuiltInv
    <3>2. CASE s # a
      <4>1. Built(s)' => Built(s)  BY <1>1, <2>1, <3>2 DEF Built, Past, Stores
      <4> QED  BY <1>1, <1>4, <2>1, <2>4, <3>2, <4>1 DEF BuiltInv
    <3> QED  BY <3>1, <3>2
  <2>7. \A s \in Stores : AgainInv(s)'  BY <2>2 DEF AgainInv
  <2>8. (req'.kind = "build" => req'.at # "end") /\ req'.kind # "served"  BY <2>1
  <2> QED  BY <1>2, <2>1, <2>5, <2>6, <2>7, <2>8, ProjectionReads
<1> QED  BY <1>6, <1>7

LEMMA ConcludeKeeps ==
  ASSUME RecordInv, Conclude
  PROVE  RecordInv'
<1>0. StoreInv /\ CacheInv /\ ProjectionInv  BY DEF RecordInv
<1> PICK r : r = req  OBVIOUS
<1>1. r.kind = "after" /\ r.at = "end" /\ UNCHANGED storeVars  BY DEF Conclude
<1>2. /\ r \in Projections /\ r.k \in Keys /\ r.round \in {1, 2}
      /\ r.build \in [Stores -> SUBSET Nat] /\ r.saw \in [Stores -> SUBSET Nat]
      /\ r.before \in [Stores -> Prints]
      /\ \A s \in Stores : SawInv(s) /\ AgainInv(s)
  BY <1>0, <1>1 DEF ProjectionInv, ProjectionKinds, Projections
<1>3. \A s \in Stores :
        /\ r.before[s] = Fingerprint(r.saw[s]) /\ Tracks(s, r.k, r.saw[s])
        /\ \A x \in Lineage(s, r.k) \ r.saw[s] : x + burst > lastId[s]
        /\ r.after[s] = r.before[s] => r.build[s] = r.saw[s]
  BY <1>1, <1>2 DEF SawInv, SawRead, AgainInv, ReadAgain, Past
<1>4. r.before = r.after => r.build = r.saw  BY <1>2, <1>3
<1> PICK entry : entry = [fp |-> r.after, value |-> r.build]  OBVIOUS
<1>5. CacheInv'
  <2>1. cache = [k \in Keys |-> cache[k]]  BY <1>0 DEF CacheInv
  <2>2. CASE UNCHANGED cache
    <3>1. cache' = [k \in Keys |-> cache'[k]] /\ \A k \in Keys : \A c \in cache'[k] : c \in cache[k]
      BY <2>1, <2>2
    <3> QED  BY <1>1, <3>1, CacheMoves
  <2>3. ASSUME NEW keep \in SUBSET (Keys \ {r.k}), r.before = r.after,
               cache' = [k \in Keys |-> IF k = r.k THEN {entry}
                                        ELSE IF k \in keep THEN cache[k] ELSE {}]
        PROVE  CacheInv'
    <3>1. /\ entry.fp = [s \in Stores |-> Fingerprint(entry.value[s])]
          /\ entry.value \in [Stores -> SUBSET Nat]
          /\ \A s \in Stores : Tracks(s, r.k, entry.value[s])
      <4>1. entry.fp = r.before /\ entry.value = r.saw  BY <1>4, <2>3
      <4> QED  BY <1>2, <1>3, <4>1
    <3>2. cache' = [k \in Keys |-> cache'[k]]  BY <2>3
    <3>3. \A k \in Keys : \A c \in cache'[k] : c \in cache[k] \/ (k = r.k /\ c = entry)
      BY <2>3
    <3>4. \A k \in Keys : \A c \in cache'[k] :
            \/ c \in cache[k]
            \/ /\ c.fp = [s \in Stores |-> Fingerprint(c.value[s])]
               /\ c.value \in [Stores -> SUBSET Nat]
               /\ \A s \in Stores : Tracks(s, k, c.value[s])
      BY <3>1, <3>3
    <3> QED  BY <1>1, <3>2, <3>4, CacheMoves
  <2> QED  BY <2>2, <2>3 DEF Conclude
<1>6. ASSUME NEW kind \in {"served", "unstable"}, req' = [r EXCEPT !.kind = kind],
             kind = "served" => r.before = r.after
      PROVE  RecordInv'
  <2>1. /\ req' \in Projections /\ req'.kind = kind /\ req'.k = r.k /\ req'.before = r.before
        /\ req'.saw = r.saw /\ req'.build = r.build
    BY <1>2, <1>6 DEF Projections, ProjectionKinds
  <2>2. \A u : Fingerprint(u)' = Fingerprint(u)  BY <1>1 DEF Fingerprint, storeVars
  <2>3. \A s \in Stores : /\ Lineage(s, r.k)' = Lineage(s, r.k)
                          /\ \A u : Tracks(s, r.k, u)' = Tracks(s, r.k, u)
    BY <1>1 DEF Tracks, Lineage, Ids, storeVars
  <2>4. burst' = burst /\ lastId' = lastId  BY <1>1 DEF storeVars
  <2>5. ASSUME NEW s \in Stores  PROVE SawInv(s)'
    BY <1>3, <2>1, <2>2, <2>3, <2>4 DEF SawInv
  <2>6. \A s \in Stores : ~Built(s)' /\ ~ReadAgain(s)'  BY <2>1 DEF Built, ReadAgain
  <2>7. \A s \in Stores : BuiltInv(s)' /\ AgainInv(s)'  BY <2>6 DEF BuiltInv, AgainInv
  <2> QED  BY <1>1, <1>4, <1>5, <1>6, <2>1, <2>5, <2>7, ProjectionMoves
<1>7. CASE req' = Started(r.k, 2)
  <2>1. /\ req' \in Projections /\ req'.kind = "before"
        /\ \A s \in Stores : SawInv(s)' /\ BuiltInv(s)' /\ AgainInv(s)'
    BY <1>2, <1>7, StartedIs
  <2> QED  BY <1>1, <1>5, <2>1, ProjectionMoves
<1>8. \/ r.before = r.after /\ req' = [r EXCEPT !.kind = "served"]
      \/ req' = Started(r.k, 2)
      \/ req' = [r EXCEPT !.kind = "unstable"]
  BY DEF Conclude
<1> QED  BY <1>6, <1>7, <1>8

LEMMA AnswerKeeps ==
  ASSUME RecordInv, Answer
  PROVE  RecordInv'
<1>0. StoreInv /\ CacheInv  BY DEF RecordInv
<1>1. req'.kind = "none" /\ burst' \in Nat  BY DEF Answer, Idle
<1>2. ReadInv' /\ ProjectionInv'
  BY <1>1 DEF ReadInv, ProjectionInv, ReadKinds, CursorKinds, ProjectionKinds
<1>3. StoreInv'  BY <1>0, <1>1 DEF StoreInv, Answer, Ids
<1>4. CacheInv'
  <2>1. UNCHANGED <<backend, rows, lastId, cache>>  BY DEF Answer
  <2> QED  BY <1>0, <2>1, CacheStays
<1> QED  BY <1>2, <1>3, <1>4 DEF RecordInv

LEMMA RecordInitInv == RecordInit => RecordInv
<1> SUFFICES ASSUME RecordInit  PROVE RecordInv  OBVIOUS
<1>1. req.kind = "none"  BY DEF RecordInit, Idle
<1>2. ReadInv /\ ProjectionInv
  BY <1>1 DEF ReadInv, ProjectionInv, ReadKinds, CursorKinds, ProjectionKinds
<1>3. \A s \in Stores : Ids(s) = {}  BY DEF RecordInit, Ids
<1>4. StoreInv  BY <1>1, <1>3 DEF RecordInit, StoreInv, UpTo
<1>5. CacheInv  BY DEF RecordInit, CacheInv
<1> QED  BY <1>2, <1>4, <1>5 DEF RecordInv

LEMMA RecordNextInv == RecordInv /\ [RecordNext]_recVars => RecordInv'
<1> SUFFICES ASSUME RecordInv, [RecordNext]_recVars  PROVE RecordInv'  OBVIOUS
<1>1. ASSUME NEW s \in Stores, NEW k \in Keys, AppendRow(s, k)  PROVE RecordInv'
  BY <1>1, AppendKeeps
<1>2. ASSUME NEW s \in Stores, TearRow(s)  PROVE RecordInv'  BY <1>2, TearKeeps
<1>3. ASSUME NEW s \in Stores, StartCursor(s)  PROVE RecordInv'  BY <1>3, StartCursorKeeps
<1>4. ASSUME NEW s \in Stores, StartScan(s)  PROVE RecordInv'  BY <1>4, StartScanKeeps
<1>5. ASSUME NEW k \in Keys, StartProjection(k)  PROVE RecordInv'  BY <1>5, StartProjectionKeeps
<1>6. CASE CheckCursor \/ LookFurther  BY <1>6, CursorMovesOn
<1>14. CASE ReadPage  BY <1>14, ReadPageKeeps
<1>7. CASE ScanPage  BY <1>7, ScanPageKeeps
<1>8. CASE ReadFingerprint
  <2>1. req.kind = "before" \/ req.kind = "after"  BY <1>8 DEF ReadFingerprint
  <2> QED  BY <1>8, <2>1, ReadBeforeKeeps, ReadAfterKeeps
<1>9. CASE LookUp  BY <1>9, LookUpKeeps
<1>10. CASE Build  BY <1>10, BuildKeeps
<1>11. CASE Conclude  BY <1>11, ConcludeKeeps
<1>12. CASE Answer  BY <1>12, AnswerKeeps
<1>13. CASE UNCHANGED recVars
  <2>1. UNCHANGED <<backend, rows, lastId, file, burst, cache, req>>  BY <1>13 DEF recVars
  <2>2. StoreInv'  BY <2>1 DEF RecordInv, StoreInv, Ids
  <2>3. CacheInv'  BY <2>1, CacheStays DEF RecordInv
  <2>4. ReadInv'  BY <2>1 DEF RecordInv, ReadInv, Due, Readable, Ids
  <2>5. \A s \in Stores : SawInv(s)' = SawInv(s) /\ BuiltInv(s)' = BuiltInv(s)
                           /\ AgainInv(s)' = AgainInv(s)
    BY <2>1 DEF SawInv, BuiltInv, AgainInv, SawRead, Built, ReadAgain, Past, Tracks, Lineage, Ids,
                Fingerprint
  <2>6. ProjectionInv'  BY <2>1, <2>5 DEF RecordInv, ProjectionInv
  <2> QED  BY <2>2, <2>3, <2>4, <2>6 DEF RecordInv
<1> QED
  BY <1>1, <1>2, <1>3, <1>4, <1>5, <1>6, <1>7, <1>8, <1>9, <1>10, <1>11, <1>12, <1>13,
     <1>14 DEF RecordNext

\* The invariant of the stores, of the readers by cursor and by offset, of the cache and of
\* the projection under way holds for any interleaving of appends, torn appends, crashes
\* and queries (append, cursor_page, _retained_rows, _get_report_projection).
THEOREM RecordsHold == RecordSpec => []RecordInv
<1>1. RecordInv /\ [RecordNext]_recVars => RecordInv'  BY RecordNextInv
<1> QED  BY <1>1, RecordInitInv, PTL DEF RecordSpec

\* Whoever follows the cursors or the offsets to the end has seen every row that was there
\* when it began and still is, for any cap, any sizes, any page size and any number of
\* appends between two queries or between the steps of one; by cursor it has seen a row
\* twice only if the JSONL file was replaced between a check and the read after it
\* (cursor_page, _retained_rows).
THEOREM ReadsMissNothing == RecordSpec => []ReadMissesNothing
<1>1. RecordInv => ReadMissesNothing
  BY DEF RecordInv, ReadInv, ReadMissesNothing, ReadKinds, CursorKinds
<1> QED  BY <1>1, RecordsHold, PTL

\* A projection served as current is what both stores held when their fingerprints were
\* read for this request, although a SQLite fingerprint is only a number and the newest id
\* (_get_report_projection).
THEOREM ServedAreCurrent == RecordSpec => []ServedIsCurrent
<1>1. RecordInv => ServedIsCurrent  BY DEF RecordInv, ProjectionInv, ServedIsCurrent
<1> QED  BY <1>1, RecordsHold, PTL

-----------------------------------------------------------------------------
(* The spool of the agent.                                                 *)

Replaying == {"list", "replay", "post", "bury", "remove"}
Uploads == [pc : {"rest", "deliver", "spool", "live"} \union Replaying,
            item : Payloads \union {"none"}, snap : SUBSET Payloads, missed : SUBSET Payloads]

SpoolTypeOK ==
  /\ queue \in SUBSET Payloads /\ turn \in [Payloads -> Nat] /\ named \in Nat
  /\ dead \in Seq(Payloads) /\ up \in [Uploaders -> Uploads]
  /\ fresh \in SUBSET Payloads

\* Names are given in order, to each payload once; what is not handed over yet, or is on
\* its way to the queue, has none.
NameInv ==
  /\ \A p \in Payloads : turn[p] <= named
  /\ \A p, q \in Payloads : turn[p] = turn[q] /\ turn[p] # 0 => p = q
  /\ \A p \in queue : turn[p] # 0
  /\ \A p \in fresh : turn[p] = 0
  /\ \A u \in Uploaders : up[u].item # "none" =>
       /\ up[u].item \notin fresh
       /\ up[u].pc \notin {"rest", "live"} => turn[up[u].item] = 0
       /\ \A v \in Uploaders : v # u => up[v].item # up[u].item
  /\ \A u \in Uploaders : up[u].pc \in {"spool", "deliver", "live"} => up[u].item # "none"

\* What a replay may send to the dead letters.
Bad == Invalid \union garbled

First(p, T) == p \in T /\ \A q \in T : turn[p] <= turn[q]

\* What a replay has left of its list, and what it knows of the file it is at.
SnapInv(u) ==
  /\ \A p \in up[u].snap : turn[p] # 0
  /\ up[u].pc \notin Replaying => up[u].snap = {}
  /\ up[u].pc = "list" => up[u].missed = {}
  /\ up[u].pc \in {"post", "bury", "remove"} => up[u].snap # {}
  /\ up[u].pc = "bury" => \A p \in up[u].snap : First(p, up[u].snap) => p \in Bad
  /\ up[u].pc = "remove" => \A p \in up[u].snap :
       First(p, up[u].snap) => p \in held \union (buried \intersect Bad)

\* A file older than one that is left has been dealt with.
OrderInv(u) ==
  \A p \in up[u].snap : \A q \in queue : q \notin up[u].snap \union up[u].missed /\ turn[q] < turn[p] =>
    q \in held \union Bad \union skipped

SpoolInv ==
  /\ SpoolTypeOK /\ NameInv /\ (\A u \in Uploaders : SnapInv(u) /\ OrderInv(u)) /\ SpooledIsKept

\* The numbers up to m are m.
LEMMA CountUpTo ==
  ASSUME NEW m \in Nat
  PROVE  IsFiniteSet(1 .. m) /\ Cardinality(1 .. m) = m
<1>1. 1 \in Int /\ m \in Int  OBVIOUS
<1>2. IsFiniteSet(1 .. m) /\ Cardinality(1 .. m) = IF 1 > m THEN 0 ELSE m - 1 + 1
  BY <1>1, FS_Interval
<1> QED  BY <1>2

\* The oldest of some files is one of them and older than the others.
LEMMA OldestIs ==
  ASSUME SpoolTypeOK, NameInv, NEW S \in SUBSET Payloads, S # {}, \A p \in S : turn[p] # 0
  PROVE  /\ Oldest(S) \in S /\ \A q \in S : turn[Oldest(S)] <= turn[q]
         /\ \A p \in S : First(p, S) <=> p = Oldest(S)
<1>1. {turn[p] : p \in S} \in SUBSET Nat /\ {turn[p] : p \in S} # {}  BY DEF SpoolTypeOK
<1>2. PICK m \in {turn[p] : p \in S} : \A x \in {turn[p] : p \in S} : m <= x  BY <1>1, LeastOf
<1>3. \E p \in S : \A q \in S : turn[p] <= turn[q]  BY <1>2
<1>4. Oldest(S) \in S /\ \A q \in S : turn[Oldest(S)] <= turn[q]  BY <1>3 DEF Oldest
<1>5. ASSUME NEW p \in S, First(p, S)  PROVE p = Oldest(S)
  <2>1. p \in S /\ turn[p] <= turn[Oldest(S)] /\ turn[Oldest(S)] <= turn[p]  BY <1>4, <1>5 DEF First
  <2>2. turn[p] \in Nat /\ turn[Oldest(S)] \in Nat  BY <1>4, <2>1 DEF SpoolTypeOK
  <2>3. turn[p] = turn[Oldest(S)] /\ turn[p] # 0  BY <2>1, <2>2
  <2> QED  BY <1>4, <2>1, <2>3 DEF NameInv
<1>6. First(Oldest(S), S)  BY <1>4 DEF First
<1> QED  BY <1>4, <1>5, <1>6

\* Weights are sums.
LEMMA BytesFinite ==
  ASSUME NEW D, IsFiniteSet(D), NEW f \in [D -> Payloads]
  PROVE  IsFiniteSet(Bytes(f)) /\ Weight(f) \in Nat
<1> DEFINE g == [x \in D |-> {x} \X (1 .. Size[f[x]])]
           T == {{x} \X (1 .. Size[f[x]]) : x \in D}
<1>1. g \in Surjection(D, T)  BY DEF Surjection
<1>2. IsFiniteSet(T)  BY <1>1, FS_Surjection
<1>3. ASSUME NEW x \in D  PROVE IsFiniteSet({x} \X (1 .. Size[f[x]]))
  <2>1. Size[f[x]] \in Nat  BY SpoolAssumption
  <2>2. IsFiniteSet(1 .. Size[f[x]])  BY <2>1, CountUpTo
  <2>3. IsFiniteSet({x})  BY FS_Singleton
  <2> QED  BY <2>2, <2>3, FS_Product
<1>4. \A t \in T : IsFiniteSet(t)  BY <1>3
<1>5. IsFiniteSet(UNION T)  BY <1>2, <1>4, FS_UNION
<1>6. Bytes(f) = UNION T  BY DEF Bytes
<1> QED  BY <1>5, <1>6, FS_CardinalityType DEF Weight

LEMMA WeightGrows ==
  ASSUME NEW D, IsFiniteSet(D), NEW f \in [D -> Payloads], NEW x, x \notin D,
         NEW g \in [D \union {x} -> Payloads], \A y \in D : g[y] = f[y]
  PROVE  Weight(g) = Weight(f) + Size[g[x]]
<1>i. PICK i \in Payloads : i = g[x]  OBVIOUS
<1> DEFINE N == {x} \X (1 .. Size[i])
<1>1. Bytes(g) = Bytes(f) \union N
  <2>1. DOMAIN g = D \union {x} /\ DOMAIN f = D  OBVIOUS
  <2> QED  BY <1>i, <2>1 DEF Bytes
<1>2. Bytes(f) \intersect N = {}
  <2>1. ASSUME NEW b \in Bytes(f)  PROVE b \notin N
    <3>1. PICK y \in D : b \in {y} \X (1 .. Size[f[y]])  BY DEF Bytes
    <3>2. b[1] = y  BY <3>1
    <3> QED  BY <3>1, <3>2
  <2> QED  BY <2>1
<1>3. Size[i] \in Nat  BY SpoolAssumption
<1>4. IsFiniteSet(N) /\ Cardinality(N) = Size[i]
  <2>1. IsFiniteSet(1 .. Size[i]) /\ Cardinality(1 .. Size[i]) = Size[i]  BY <1>3, CountUpTo
  <2>2. IsFiniteSet({x}) /\ Cardinality({x}) = 1  BY FS_Singleton
  <2>3. IsFiniteSet(N) /\ Cardinality(N) = Cardinality({x}) * Cardinality(1 .. Size[i])
    BY <2>1, <2>2, FS_Product, Zenon
  <2> HIDE DEF N
  <2>4. Cardinality(N) = 1 * Size[i]  BY <2>1, <2>2, <2>3, Zenon
  <2> QED  BY <1>3, <2>3, <2>4
<1>5. IsFiniteSet(Bytes(f)) /\ Weight(f) \in Nat  BY BytesFinite
<1>6. Cardinality(Bytes(f) \intersect N) = 0  BY <1>2, FS_EmptySet
<1> HIDE DEF N
<1>7. Cardinality(Bytes(f) \union N)
        = Cardinality(Bytes(f)) + Cardinality(N) - Cardinality(Bytes(f) \intersect N)
  BY <1>4, <1>5, FS_Union
<1> QED  BY <1>i, <1>1, <1>3, <1>4, <1>5, <1>6, <1>7 DEF Weight

\* The same as one formula, which Zenon can instantiate.
LEMMA WeightGrowsAll ==
  \A D : IsFiniteSet(D) =>
    \A f \in [D -> Payloads] : \A x, g :
      x \notin D /\ g \in [D \union {x} -> Payloads] /\ (\A y \in D : g[y] = f[y])
      => Weight(g) = Weight(f) + Size[g[x]]
BY WeightGrows

LEMMA QueueWeights ==
  ASSUME NEW T \in SUBSET Payloads
  PROVE  /\ QueueWeight(T) \in Nat
         /\ \A S \in SUBSET T : QueueWeight(S) <= QueueWeight(T)
         /\ \A i \in Payloads \ T : QueueWeight(T \union {i}) = QueueWeight(T) + Size[i]
<1>1. ASSUME NEW S \in SUBSET Payloads
      PROVE  IsFiniteSet(Bytes([p \in S |-> p])) /\ QueueWeight(S) \in Nat /\ IsFiniteSet(S)
  <2>1. IsFiniteSet(S)  BY SpoolAssumption, FS_Subset
  <2>2. [p \in S |-> p] \in [S -> Payloads]  OBVIOUS
  <2> QED  BY <2>1, <2>2, BytesFinite DEF QueueWeight
<1>2. ASSUME NEW S \in SUBSET T  PROVE QueueWeight(S) <= QueueWeight(T)
  <2>1. Bytes([p \in S |-> p]) \in SUBSET Bytes([p \in T |-> p])  BY DEF Bytes
  <2>2. IsFiniteSet(Bytes([p \in T |-> p]))  BY <1>1
  <2> QED  BY <2>1, <2>2, FS_Subset DEF QueueWeight, Weight
<1>3. ASSUME NEW i \in Payloads \ T
      PROVE  QueueWeight(T \union {i}) = QueueWeight(T) + Size[i]
  <2> DEFINE f == [p \in T |-> p]  g == [p \in T \union {i} |-> p]
  <2>1. IsFiniteSet(T)  BY <1>1
  <2>2. f \in [T -> Payloads] /\ g \in [T \union {i} -> Payloads] /\ g[i] = i
        /\ \A y \in T : g[y] = f[y]
    OBVIOUS
  <2> HIDE DEF f, g
  <2>3. Weight(g) = Weight(f) + Size[g[i]]  BY <2>1, <2>2, WeightGrows
  <2> QED  BY <2>2, <2>3 DEF f, g, QueueWeight
<1> QED  BY <1>1, <1>2, <1>3

LEMMA DeadWeight ==
  ASSUME NEW s \in Seq(Payloads)
  PROVE  Len(s) \in Nat /\ Weight(s) \in Nat
<1>1. s \in [1 .. Len(s) -> Payloads] /\ Len(s) \in Nat  BY LenProperties
<1>2. IsFiniteSet(1 .. Len(s))  BY <1>1, CountUpTo
<1> QED  BY <1>1, <1>2, BytesFinite

LEMMA DeadGrows ==
  ASSUME NEW s \in Seq(Payloads), NEW i \in Payloads
  PROVE  /\ Append(s, i) \in Seq(Payloads) /\ Len(Append(s, i)) = Len(s) + 1
         /\ Weight(Append(s, i)) = Weight(s) + Size[i]
<1>1. s \in [1 .. Len(s) -> Payloads] /\ Len(s) \in Nat  BY LenProperties
<1>2. IsFiniteSet(1 .. Len(s))  BY <1>1, CountUpTo
<1>t. PICK t : t = Append(s, i)  OBVIOUS
<1>4. /\ t \in Seq(Payloads) /\ Len(t) = Len(s) + 1 /\ t[Len(s) + 1] = i
      /\ \A n \in 1 .. Len(s) : t[n] = s[n]
  BY <1>t
<1>5. t \in [1 .. Len(t) -> Payloads]  BY <1>4, LenProperties
<1>6. 1 .. Len(t) = (1 .. Len(s)) \union {Len(s) + 1} /\ Len(s) + 1 \notin 1 .. Len(s)
  BY <1>1, <1>4
<1>7. t \in [(1 .. Len(s)) \union {Len(s) + 1} -> Payloads]  BY <1>5, <1>6
<1>8. Weight(t) = Weight(s) + Size[i]
  <2>1. Len(s) + 1 \notin 1 .. Len(s) /\ t[Len(s) + 1] = i /\ \A y \in 1 .. Len(s) : t[y] = s[y]
    BY <1>4, <1>6
  <2>2. \A f \in [1 .. Len(s) -> Payloads] : \A x, g :
          x \notin 1 .. Len(s) /\ g \in [(1 .. Len(s)) \union {x} -> Payloads] /\ (\A y \in 1 .. Len(s) : g[y] = f[y])
          => Weight(g) = Weight(f) + Size[g[x]]
    BY ONLY <1>2, WeightGrowsAll, Zenon
  <2>3. \A x, g :
          /\ x \notin 1 .. Len(s)
          /\ g \in [(1 .. Len(s)) \union {x} -> Payloads] /\ (\A y \in 1 .. Len(s) : g[y] = s[y])
          => Weight(g) = Weight(s) + Size[g[x]]
    BY ONLY <1>1, <2>2, Zenon
  <2>4. Weight(t) = Weight(s) + Size[t[Len(s) + 1]]
    BY ONLY <1>7, <2>1, <2>3, Zenon
  <2> QED  BY <2>1, <2>4
<1> QED  BY <1>t, <1>4, <1>8

-----------------------------------------------------------------------------
(* What a step has to keep.                                                *)

\* Knowledge grows, names stay, and a file that comes gets the newest name.
Onward ==
  /\ held \subseteq held' /\ buried \subseteq buried' /\ skipped \subseteq skipped'
  /\ garbled \subseteq garbled'
  /\ \A p \in Payloads : turn[p] # 0 => turn'[p] = turn[p]
  /\ \A q \in queue' : q \in queue \/ turn'[q] = named + 1

\* A replay that does not move keeps what it knows.
LEMMA ReplayStays ==
  ASSUME SpoolInv, SpoolTypeOK', Onward, NEW v \in Uploaders, up'[v] = up[v]
  PROVE  SnapInv(v)' /\ OrderInv(v)'
<1>t. PICK S \in SUBSET Payloads : S = up[v].snap  BY DEF SpoolInv, SpoolTypeOK, Uploads
<1>1. \A p \in S : turn[p] # 0 /\ turn'[p] = turn[p]  BY <1>t DEF SpoolInv, SnapInv, Onward
<1>2. \A p \in S : First(p, S)' => First(p, S)  BY <1>1 DEF First
<1>3. SnapInv(v)'
  <2>1. SnapInv(v)  BY DEF SpoolInv
  <2>2. up'[v].snap = S  BY <1>t
  <2>3. up[v].pc = "bury" => \A p \in S : First(p, S)' => p \in Bad'
    BY <1>t, <1>2, <2>1 DEF SnapInv, Onward, Bad
  <2>4. up[v].pc = "remove" => \A p \in S : First(p, S)' => p \in held' \union (buried' \intersect Bad')
    BY <1>t, <1>2, <2>1 DEF SnapInv, Onward, Bad
  <2> QED  BY <1>t, <1>1, <2>1, <2>2, <2>3, <2>4 DEF SnapInv, First
<1>4. OrderInv(v)'
  <2> SUFFICES ASSUME NEW p \in S, NEW q \in queue', q \notin S \union up[v].missed, turn'[q] < turn'[p]
               PROVE  q \in held' \union Bad' \union skipped'
    BY <1>t DEF OrderInv
  <2>1. turn[p] \in Nat /\ turn[p] <= named /\ turn'[p] = turn[p] /\ named \in Nat
    BY <1>1 DEF SpoolInv, SpoolTypeOK, NameInv
  <2>2. q \in queue  BY <2>1 DEF Onward
  <2>3. turn'[q] = turn[q]  BY <2>2 DEF SpoolInv, SpoolTypeOK, NameInv, Onward
  <2>4. q \in held \union Bad \union skipped  BY <1>t, <2>1, <2>2, <2>3 DEF SpoolInv, OrderInv
  <2> QED  BY <2>4 DEF Onward, Bad
<1> QED  BY <1>3, <1>4

\* An uploader without a list knows nothing.
LEMMA NoList ==
  ASSUME NEW v \in Uploaders, up'[v].snap = {}, up'[v].pc \notin {"list", "post", "bury", "remove"}
  PROVE  SnapInv(v)' /\ OrderInv(v)'
BY DEF SnapInv, OrderInv

\* Names stay.
LEMMA NamesStay ==
  ASSUME SpoolTypeOK, NameInv, NEW u \in Uploaders, NEW r, up' = [up EXCEPT ![u] = r],
         turn' = turn, named' = named, queue' \subseteq queue, fresh' \subseteq fresh,
         r.item # "none" =>
           /\ r.item \notin fresh'
           /\ \/ r.item = up[u].item /\ (up[u].pc \in {"rest", "live"} => r.pc \in {"rest", "live"})
              \/ r.item \in fresh,
         r.pc \in {"spool", "deliver", "live"} => r.item # "none"
  PROVE  NameInv'
<1>u. up'[u] = r /\ \A v \in Uploaders : v # u => up'[v] = up[v]  BY DEF SpoolTypeOK
<1>1. /\ \A p \in Payloads : turn'[p] <= named'
      /\ \A p, q \in Payloads : turn'[p] = turn'[q] /\ turn'[p] # 0 => p = q
      /\ \A p \in queue' : turn'[p] # 0
      /\ \A p \in fresh' : turn'[p] = 0
  BY DEF NameInv
<1>2. \A v \in Uploaders : up'[v].pc \in {"spool", "deliver", "live"} => up'[v].item # "none"
  BY <1>u DEF NameInv
<1>3. \A v \in Uploaders : up'[v].item # "none" => up'[v].item \notin fresh'
  BY <1>u DEF NameInv
<1>4. \A v \in Uploaders : up'[v].item # "none" /\ up'[v].pc \notin {"rest", "live"} => turn'[up'[v].item] = 0
  <2>1. r.item # "none" /\ r.pc \notin {"rest", "live"} => turn[r.item] = 0
    BY DEF NameInv
  <2> QED  BY <1>u, <2>1 DEF NameInv
<1>5. \A v, w \in Uploaders : v # w /\ up'[v].item # "none" => up'[w].item # up'[v].item
  <2>1. \A v \in Uploaders : v # u /\ r.item # "none" => up[v].item # r.item  BY DEF NameInv
  <2>2. \A v, w \in Uploaders : v # w /\ up[v].item # "none" => up[w].item # up[v].item
    BY DEF NameInv
  <2> QED  BY <1>u, <2>1, <2>2
<1>6. \A v \in Uploaders : up'[v].item # "none" =>
        /\ up'[v].item \notin fresh'
        /\ up'[v].pc \notin {"rest", "live"} => turn'[up'[v].item] = 0
        /\ \A w \in Uploaders : w # v => up'[w].item # up'[v].item
  BY <1>3, <1>4, <1>5
<1> QED  BY <1>1, <1>2, <1>6 DEF NameInv

\* A step of one uploader that changes no directory.
LEMMA MoveKeeps ==
  ASSUME SpoolInv, NEW u \in Uploaders, NEW r \in Uploads, up' = [up EXCEPT ![u] = r],
         UNCHANGED <<queue, turn, named, dead, garbled, evicted, buried, spooled>>,
         held \subseteq held', skipped \subseteq skipped', fresh' \subseteq fresh,
         r.item # "none" =>
           /\ r.item \notin fresh'
           /\ \/ r.item = up[u].item /\ (up[u].pc \in {"rest", "live"} => r.pc \in {"rest", "live"})
              \/ r.item \in fresh,
         r.pc \in {"spool", "deliver", "live"} => r.item # "none",
         SnapInv(u)' /\ OrderInv(u)'
  PROVE  SpoolInv'
<1>0. SpoolTypeOK /\ NameInv /\ SpooledIsKept  BY DEF SpoolInv
<1>1. SpoolTypeOK'  BY <1>0 DEF SpoolTypeOK
<1>2. NameInv'  BY <1>0, NamesStay
<1>3. Onward  BY DEF Onward
<1>4. \A v \in Uploaders : v # u => up'[v] = up[v]  BY <1>0 DEF SpoolTypeOK
<1>5. \A v \in Uploaders : SnapInv(v)' /\ OrderInv(v)'  BY <1>1, <1>3, <1>4, ReplayStays
<1>6. SpooledIsKept'  BY <1>0 DEF SpooledIsKept, Oversized
<1> QED  BY <1>1, <1>2, <1>5, <1>6 DEF SpoolInv

\* The list of a replay.
LEMMA ListIs ==
  ASSUME SpoolInv, NEW u \in Uploaders, up[u].snap # {}
  PROVE  /\ up[u] \in Uploads /\ up[u].snap \in SUBSET Payloads
         /\ Oldest(up[u].snap) \in up[u].snap
         /\ \A q \in up[u].snap : turn[Oldest(up[u].snap)] <= turn[q]
         /\ First(Oldest(up[u].snap), up[u].snap)
<1>1. up[u] \in Uploads /\ up[u].snap \in SUBSET Payloads  BY DEF SpoolInv, SpoolTypeOK, Uploads
<1>2. \A p \in up[u].snap : turn[p] # 0  BY DEF SpoolInv, SnapInv
<1>3. SpoolTypeOK /\ NameInv  BY DEF SpoolInv
<1> QED  BY <1>1, <1>2, <1>3, OldestIs

\* A replay goes on with the next file.
LEMMA NextFile ==
  ASSUME SpoolInv, NEW u \in Uploaders, up[u].snap # {},
         up' = [up EXCEPT ![u].pc = "replay", ![u].snap = Others(up[u].snap)],
         turn' = turn, queue' \subseteq queue, held \subseteq held', skipped \subseteq skipped',
         garbled' = garbled,
         Oldest(up[u].snap) \in queue' => Oldest(up[u].snap) \in held' \union Bad \union skipped'
  PROVE  /\ SnapInv(u)' /\ OrderInv(u)'
         /\ \E r \in Uploads : /\ up' = [up EXCEPT ![u] = r] /\ r.item = up[u].item /\ r.pc = "replay"
<1>1. /\ up[u] \in Uploads /\ up[u].snap \in SUBSET Payloads
      /\ Oldest(up[u].snap) \in up[u].snap
  BY ListIs
<1>2. up'[u].pc = "replay" /\ up'[u].snap = Others(up[u].snap) /\ up'[u].missed = up[u].missed
  BY <1>1 DEF SpoolInv, SpoolTypeOK, Uploads
<1>3. SnapInv(u)'
  BY <1>2 DEF SnapInv, Others, SpoolInv, Replaying
<1>4. OrderInv(u)'
  <2> SUFFICES ASSUME NEW p \in Others(up[u].snap), NEW q \in queue',
                      q \notin Others(up[u].snap) \union up[u].missed, turn[q] < turn[p]
               PROVE  q \in held' \union Bad \union skipped'
    BY <1>2 DEF OrderInv, Bad
  <2>1. CASE q = Oldest(up[u].snap)  BY <2>1
  <2>2. CASE q # Oldest(up[u].snap)
    <3>1. q \notin up[u].snap /\ p \in up[u].snap /\ q \in queue  BY <2>2 DEF Others
    <3> QED  BY <3>1 DEF SpoolInv, OrderInv
  <2> QED  BY <2>1, <2>2
<1>5. PICK r : r = [up[u] EXCEPT !.pc = "replay", !.snap = Others(up[u].snap)]  OBVIOUS
<1>6. r \in Uploads /\ r.item = up[u].item /\ r.pc = "replay"
  BY <1>1, <1>5 DEF Uploads, Others, Replaying
<1>7. up' = [up EXCEPT ![u] = r]  BY <1>5
<1> QED  BY <1>3, <1>4, <1>6, <1>7

LEMMA OpenSpoolFailsKeeps ==
  ASSUME SpoolInv, NEW u \in Uploaders, NEW i, OpenSpoolFails(u, i)
  PROVE  SpoolInv'
<1>0. i \in Payloads /\ i # "none"  BY SpoolAssumption DEF OpenSpoolFails, SpoolInv, SpoolTypeOK
<1>1. PICK r : r = Uploading("live", i)  OBVIOUS
<1>2. r \in Uploads /\ r.pc = "live" /\ r.item = i /\ r.snap = {}  BY <1>0, <1>1 DEF Uploads, Uploading
<1>3. /\ up' = [up EXCEPT ![u] = r] /\ i \in fresh /\ fresh' = fresh \ {i}
      /\ UNCHANGED <<queue, turn, named, dead, garbled, evicted, buried, skipped, spooled, held>>
  BY <1>1 DEF OpenSpoolFails, disk
<1>4. up'[u] = r  BY <1>3 DEF SpoolInv, SpoolTypeOK
<1>5. SnapInv(u)' /\ OrderInv(u)'  BY <1>2, <1>4, NoList
<1> QED  BY <1>0, <1>2, <1>3, <1>5, MoveKeeps

LEMMA ListQueueKeeps ==
  ASSUME SpoolInv, NEW u \in Uploaders, ListQueue(u)
  PROVE  SpoolInv'
<1> DEFINE late == queue \ up[u].snap
<1>0. up[u] \in Uploads /\ queue \in SUBSET Payloads  BY DEF SpoolInv, SpoolTypeOK
<1>1. PICK seen \in SUBSET late :
        up' = [up EXCEPT ![u].pc = "replay", ![u].snap = (up[u].snap \intersect queue) \union seen,
                 ![u].missed = {q \in late \ seen : \E p \in seen : turn[q] < turn[p]}]
  BY DEF ListQueue
<1>2. PICK T, M : /\ T = (up[u].snap \intersect queue) \union seen
                  /\ M = {q \in late \ seen : \E p \in seen : turn[q] < turn[p]}
  OBVIOUS
<1>s. T \in SUBSET queue /\ M \in SUBSET queue  BY <1>2
<1>3. PICK r : r = [up[u] EXCEPT !.pc = "replay", !.snap = T, !.missed = M]  OBVIOUS
<1>4. r \in Uploads /\ r.pc = "replay" /\ r.snap = T /\ r.missed = M /\ r.item = up[u].item
  BY <1>0, <1>s, <1>3 DEF Uploads, Replaying
<1>5. /\ up' = [up EXCEPT ![u] = r] /\ up[u].pc = "list"
      /\ UNCHANGED <<queue, turn, named, dead, garbled, evicted, buried, skipped, spooled, held, fresh>>
  BY <1>1, <1>2, <1>3 DEF ListQueue, disk
<1>6. up'[u] = r  BY <1>5 DEF SpoolInv, SpoolTypeOK
<1>7. SnapInv(u)'
  <2>1. \A p \in T : turn[p] # 0  BY <1>s DEF SpoolInv, NameInv
  <2> QED  BY <1>4, <1>5, <1>6, <2>1 DEF SnapInv, Replaying
<1>8. OrderInv(u)'
  <2> SUFFICES ASSUME NEW p \in T, NEW q \in queue, q \notin T \union M, turn[q] < turn[p]
               PROVE  q \in held \union Bad \union skipped
    BY <1>4, <1>5, <1>6 DEF OrderInv, Bad
  <2>1. q \notin up[u].snap /\ p \notin seen  BY <1>2
  <2>2. CASE q \in up[u].missed
    <3>1. up[u].missed = {}  BY <1>5 DEF SpoolInv, SnapInv
    <3> QED  BY <2>2, <3>1
  <2>3. CASE q \notin up[u].missed
    <3>1. p \in up[u].snap  BY <1>2, <2>1
    <3> QED  BY <2>1, <2>3, <3>1 DEF SpoolInv, OrderInv
  <2> QED  BY <2>2, <2>3
<1>9. r.item # "none" => r.item \notin fresh  BY <1>4 DEF SpoolInv, NameInv
<1> QED  BY <1>4, <1>5, <1>7, <1>8, <1>9, MoveKeeps

\* A step that only takes an uploader to another line.
LEMMA GoesTo ==
  ASSUME SpoolInv, NEW u \in Uploaders, NEW pc, GoTo(u, pc),
         pc \in {"deliver", "spool", "live"} \union Replaying
  PROVE  \E r \in Uploads : /\ up' = [up EXCEPT ![u] = r] /\ up'[u] = r
                            /\ r.pc = pc /\ r.snap = up[u].snap /\ r.item = up[u].item
                            /\ r.missed = up[u].missed
<1>1. up[u] \in Uploads  BY DEF SpoolInv, SpoolTypeOK
<1>2. PICK r : r = [up[u] EXCEPT !.pc = pc]  OBVIOUS
<1>3. /\ r \in Uploads /\ r.pc = pc /\ r.snap = up[u].snap /\ r.item = up[u].item
      /\ r.missed = up[u].missed
  BY <1>1, <1>2 DEF Uploads
<1>4. up' = [up EXCEPT ![u] = r]  BY <1>2 DEF GoTo
<1>5. up'[u] = r  BY <1>4 DEF SpoolInv, SpoolTypeOK
<1> QED  BY <1>3, <1>4, <1>5

LEMMA RestsAt ==
  ASSUME SpoolInv, NEW u \in Uploaders, Rest(u)
  PROVE  /\ Asleep \in Uploads /\ up' = [up EXCEPT ![u] = Asleep] /\ up'[u] = Asleep
         /\ Asleep.item = "none" /\ Asleep.pc = "rest" /\ Asleep.snap = {}
         /\ SnapInv(u)' /\ OrderInv(u)'
<1>1. Asleep \in Uploads /\ Asleep.item = "none" /\ Asleep.pc = "rest" /\ Asleep.snap = {}
  BY DEF Asleep, Uploading, Uploads
<1>2. up' = [up EXCEPT ![u] = Asleep] /\ up'[u] = Asleep  BY DEF Rest, SpoolInv, SpoolTypeOK
<1> QED  BY <1>1, <1>2, NoList

LEMMA ItemIs ==
  ASSUME SpoolInv, NEW u \in Uploaders
  PROVE  /\ up[u] \in Uploads /\ (up[u].item # "none" => up[u].item \notin fresh)
         /\ up[u].pc \in {"spool", "deliver", "live"} => up[u].item \in Payloads /\ up[u].item # "none"
         /\ up[u].pc \notin Replaying => up[u].snap = {}
BY DEF SpoolInv, SpoolTypeOK, Uploads, NameInv, SnapInv

\* An uploader without a list goes on.
LEMMA BegunAt ==
  ASSUME SpoolInv, NEW u \in Uploaders, NEW pc \in {"replay", "deliver"},
         up' = [up EXCEPT ![u] = Uploading(pc, up[u].item)]
  PROVE  \E r \in Uploads : /\ up' = [up EXCEPT ![u] = r] /\ r.item = up[u].item /\ r.pc = pc
                            /\ SnapInv(u)' /\ OrderInv(u)'
<1>1. up[u] \in Uploads  BY DEF SpoolInv, SpoolTypeOK
<1>2. PICK r : r = Uploading(pc, up[u].item)  OBVIOUS
<1>3. r \in Uploads /\ r.pc = pc /\ r.snap = {} /\ r.item = up[u].item
  BY <1>1, <1>2 DEF Uploads, Uploading, Replaying
<1>4. up' = [up EXCEPT ![u] = r]  BY <1>2
<1>5. up'[u] = r  BY <1>4 DEF SpoolInv, SpoolTypeOK
<1>6. SnapInv(u)' /\ OrderInv(u)'  BY <1>3, <1>5, NoList
<1> QED  BY <1>3, <1>4, <1>6

LEMMA ListQueueFailsKeeps ==
  ASSUME SpoolInv, NEW u \in Uploaders, ListQueueFails(u)
  PROVE  SpoolInv'
<1>0. up[u].pc = "list" /\ up' = [up EXCEPT ![u] = Uploading("replay", up[u].item)]
  BY DEF ListQueueFails
<1>1. PICK r \in Uploads : /\ up' = [up EXCEPT ![u] = r] /\ r.item = up[u].item /\ r.pc = "replay"
                           /\ SnapInv(u)' /\ OrderInv(u)'
  BY <1>0, BegunAt
<1>2. UNCHANGED <<queue, turn, named, dead, garbled, evicted, buried, skipped, spooled, held, fresh>>
  BY DEF ListQueueFails, disk
<1> QED  BY <1>0, <1>1, <1>2, ItemIs, MoveKeeps

LEMMA ReadFileKeeps ==
  ASSUME SpoolInv, NEW u \in Uploaders, ReadFile(u)
  PROVE  SpoolInv'
<1>0. /\ up[u].pc = "replay" /\ up[u].snap # {}
      /\ UNCHANGED <<queue, turn, named, dead, garbled, evicted, buried, skipped, spooled, held, fresh>>
  BY DEF ReadFile, disk
<1>1. CASE Oldest(up[u].snap) \in queue
  <2>0. PICK pc \in {"bury", "post"} : GoTo(u, pc) /\ (pc = "bury" => Oldest(up[u].snap) \in garbled)
    BY <1>1 DEF ReadFile
  <2>1. PICK r \in Uploads : /\ up' = [up EXCEPT ![u] = r] /\ up'[u] = r
                             /\ r.pc = pc /\ r.snap = up[u].snap /\ r.item = up[u].item /\ r.missed = up[u].missed
    BY <2>0, GoesTo DEF Replaying
  <2>2. SnapInv(u) /\ OrderInv(u)  BY DEF SpoolInv
  <2>3. SnapInv(u)'
    <3>1. \A p \in up[u].snap : First(p, up[u].snap) => p = Oldest(up[u].snap)
      BY <1>0, <2>2, ItemIs, OldestIs DEF SpoolInv, SnapInv, Uploads
    <3>2. pc = "bury" => \A p \in up[u].snap : First(p, up[u].snap)' => p \in Bad'
      BY <1>0, <2>0, <2>1, <3>1 DEF First, Bad
    <3> QED  BY <1>0, <2>0, <2>1, <2>2, <3>2 DEF SnapInv, First, Replaying
  <2>4. OrderInv(u)'  BY <1>0, <2>1, <2>2 DEF OrderInv, Bad
  <2> QED  BY <1>0, <2>0, <2>1, <2>3, <2>4, ItemIs, MoveKeeps
<1>2. CASE Oldest(up[u].snap) \notin queue
  <2>1. up' = [up EXCEPT ![u].snap = Others(up[u].snap)]  BY <1>2 DEF ReadFile
  <2>2. up' = [up EXCEPT ![u].pc = "replay", ![u].snap = Others(up[u].snap)]
    BY <1>0, <2>1, ItemIs DEF SpoolInv, SpoolTypeOK, Uploads
  <2>3. SnapInv(u)' /\ OrderInv(u)'  BY <1>0, <1>2, <2>2, NextFile
  <2>4. PICK r \in Uploads : up' = [up EXCEPT ![u] = r] /\ r.item = up[u].item /\ r.pc = "replay"
    BY <1>0, <1>2, <2>2, NextFile
  <2> QED  BY <1>0, <2>3, <2>4, ItemIs, MoveKeeps
<1> QED  BY <1>1, <1>2

LEMMA ReadFileFailsKeeps ==
  ASSUME SpoolInv, NEW u \in Uploaders, ReadFileFails(u)
  PROVE  SpoolInv'
<1>0. /\ up[u].pc = "replay" /\ up[u].snap # {}
      /\ UNCHANGED <<queue, turn, named, dead, garbled, evicted, buried, spooled, held, fresh>>
      /\ skipped' = skipped \union {Oldest(up[u].snap)}
      /\ up' = [up EXCEPT ![u].snap = Others(up[u].snap)]
  BY DEF ReadFileFails
<1>2. up' = [up EXCEPT ![u].pc = "replay", ![u].snap = Others(up[u].snap)]
  BY <1>0, ItemIs DEF SpoolInv, SpoolTypeOK, Uploads
<1>3. SnapInv(u)' /\ OrderInv(u)'  BY <1>0, <1>2, NextFile
<1>4. PICK r \in Uploads : up' = [up EXCEPT ![u] = r] /\ r.item = up[u].item /\ r.pc = "replay"
  BY <1>0, <1>2, NextFile
<1> QED  BY <1>0, <1>3, <1>4, ItemIs, MoveKeeps

LEMMA EndReplayKeeps ==
  ASSUME SpoolInv, NEW u \in Uploaders, EndReplay(u)
  PROVE  SpoolInv'
<1>0. /\ up[u].pc = "replay" /\ up[u].snap = {}
      /\ UNCHANGED <<queue, turn, named, dead, garbled, evicted, buried, skipped, spooled, held, fresh>>
  BY DEF EndReplay, disk
<1>1. CASE up[u].item = "none"
  <2>1. Rest(u)  BY <1>1 DEF EndReplay
  <2> QED  BY <1>0, <2>1, RestsAt, MoveKeeps
<1>2. CASE up[u].item # "none"
  <2>0. up' = [up EXCEPT ![u] = Uploading("deliver", up[u].item)]  BY <1>2 DEF EndReplay
  <2>1. PICK r \in Uploads : /\ up' = [up EXCEPT ![u] = r] /\ r.item = up[u].item /\ r.pc = "deliver"
                             /\ SnapInv(u)' /\ OrderInv(u)'
    BY <2>0, BegunAt
  <2> QED  BY <1>0, <1>2, <2>1, ItemIs, MoveKeeps
<1> QED  BY <1>1, <1>2

\* A step of one uploader that gives no name.
LEMMA FilesMove ==
  ASSUME SpoolInv, NEW u \in Uploaders, NEW r \in Uploads, up' = [up EXCEPT ![u] = r],
         UNCHANGED <<turn, named, garbled>>, queue' \subseteq queue, dead' \in Seq(Payloads),
         held \subseteq held', skipped \subseteq skipped', buried \subseteq buried', fresh' \subseteq fresh,
         r.item # "none" =>
           /\ r.item \notin fresh'
           /\ \/ r.item = up[u].item /\ (up[u].pc \in {"rest", "live"} => r.pc \in {"rest", "live"})
              \/ r.item \in fresh,
         r.pc \in {"spool", "deliver", "live"} => r.item # "none",
         SnapInv(u)' /\ OrderInv(u)', SpooledIsKept'
  PROVE  SpoolInv'
<1>0. SpoolTypeOK /\ NameInv  BY DEF SpoolInv
<1>1. SpoolTypeOK'  BY <1>0 DEF SpoolTypeOK
<1>2. NameInv'  BY <1>0, NamesStay
<1>3. Onward  BY DEF Onward
<1>4. \A v \in Uploaders : v # u => up'[v] = up[v]  BY <1>0 DEF SpoolTypeOK
<1>5. \A v \in Uploaders : SnapInv(v)' /\ OrderInv(v)'  BY <1>1, <1>3, <1>4, ReplayStays
<1> QED  BY <1>1, <1>2, <1>5 DEF SpoolInv

\* The limits of the dead letters.
LEMMA EnforcedIs ==
  ASSUME SpoolInv, NEW n \in Nat, NEW b \in Nat, NEW s \in Enforced(n, b)
  PROVE  s \in Seq(Payloads) /\ Len(s) + n <= DeadItems /\ Weight(s) + b <= DeadBytes
<1>1. dead \in Seq(Payloads)  BY DEF SpoolInv, SpoolTypeOK
<1>2. s \in Suffixes(dead) /\ Len(s) + n <= DeadItems /\ Weight(s) + b <= DeadBytes  BY DEF Enforced
<1>3. <<>> \in Seq(Payloads)  OBVIOUS
<1>4. ASSUME NEW l \in 1 .. Len(dead)  PROVE SubSeq(dead, l, Len(dead)) \in Seq(Payloads)
  BY <1>1, SubSeqProperties
<1> QED  BY <1>2, <1>3, <1>4 DEF Suffixes

LEMMA BuriedIn ==
  ASSUME SpoolInv, NEW i \in Payloads, BuryIn(i)
  PROVE  /\ dead' \in Seq(Payloads) /\ buried' = buried \union {i}
         /\ Len(dead') <= DeadItems /\ Weight(dead') <= DeadBytes
<1>0. Size[i] \in Nat /\ DeadItems \in Nat /\ DeadBytes \in Nat  BY SpoolAssumption
<1>1. CASE Size[i] > DeadBytes
  BY <1>1 DEF BuryIn, SpoolInv, SpoolTypeOK, SpooledIsKept
<1>2. CASE ~(Size[i] > DeadBytes)
  <2>1. PICK s \in Enforced(1, Size[i]) : dead' = Append(s, i)  BY <1>2 DEF BuryIn
  <2>2. s \in Seq(Payloads) /\ Len(s) + 1 <= DeadItems /\ Weight(s) + Size[i] <= DeadBytes
    BY <1>0, EnforcedIs
  <2>3. /\ Append(s, i) \in Seq(Payloads) /\ Len(Append(s, i)) = Len(s) + 1
        /\ Weight(Append(s, i)) = Weight(s) + Size[i]
    BY <2>2, DeadGrows
  <2>4. Len(dead') <= DeadItems /\ Weight(dead') <= DeadBytes  BY <2>1, <2>2, <2>3
  <2> QED  BY <2>1, <2>3, <2>4 DEF BuryIn
<1> QED  BY <1>1, <1>2

LEMMA OpenSpoolKeeps ==
  ASSUME SpoolInv, NEW u \in Uploaders, NEW i, OpenSpool(u, i)
  PROVE  SpoolInv'
<1>0. /\ i \in fresh \union {"none"} /\ fresh' = fresh \ {i} /\ dead' \in Enforced(0, 0)
      /\ UNCHANGED <<queue, turn, named, garbled, evicted, buried, skipped, spooled, held>>
  BY DEF OpenSpool
<1>1. PICK pc \in Entry(i) :
        up' = [up EXCEPT ![u] = [Uploading(pc, i) EXCEPT !.snap = IF pc = "list" THEN queue ELSE {}]]
  BY DEF OpenSpool
<1>2. PICK r : r = [Uploading(pc, i) EXCEPT !.snap = IF pc = "list" THEN queue ELSE {}]  OBVIOUS
<1>3. pc \in {"list", "spool"} /\ (i = "none" => pc = "list")  BY <1>1 DEF Entry
<1>4. /\ r \in Uploads /\ r.item = i /\ r.pc = pc /\ r.missed = {}
      /\ (pc = "list" => r.snap = queue) /\ (pc # "list" => r.snap = {})
  BY <1>0, <1>2, <1>3 DEF Uploads, Uploading, Replaying, SpoolInv, SpoolTypeOK
<1>5. up' = [up EXCEPT ![u] = r]  BY <1>1, <1>2
<1>6. up'[u] = r  BY <1>5 DEF SpoolInv, SpoolTypeOK
<1>7. SnapInv(u)' /\ OrderInv(u)'
  <2>1. CASE pc # "list"  BY <1>3, <1>4, <1>6, <2>1, NoList
  <2>2. CASE pc = "list"
    <3>1. \A p \in queue : turn[p] # 0  BY DEF SpoolInv, NameInv
    <3> QED  BY <1>0, <1>4, <1>6, <2>2, <3>1 DEF SnapInv, OrderInv, Replaying
  <2> QED  BY <2>1, <2>2
<1>8. dead' \in Seq(Payloads) /\ Len(dead') <= DeadItems /\ Weight(dead') <= DeadBytes
  <2>1. PICK s \in Enforced(0, 0) : s = dead'  BY <1>0
  <2>2. s \in Seq(Payloads) /\ Len(s) + 0 <= DeadItems /\ Weight(s) + 0 <= DeadBytes
    BY EnforcedIs
  <2>3. Len(s) \in Nat /\ Weight(s) \in Nat  BY <2>2, DeadWeight
  <2> QED  BY <2>1, <2>2, <2>3
<1>9. SpooledIsKept'
  <2>1. SpooledIsKept  BY DEF SpoolInv
  <2>2. QueueWeight(queue)' = QueueWeight(queue)  BY <1>0
  <2>3. Weight(dead)' = Weight(dead')  OBVIOUS
  <2> QED  BY <1>0, <1>8, <2>1, <2>2, <2>3 DEF SpooledIsKept, Oversized
<1>10. fresh' \subseteq fresh /\ (r.item # "none" => r.item \in fresh /\ r.item \notin fresh')
  BY <1>0, <1>4
<1> QED  BY <1>0, <1>3, <1>4, <1>5, <1>7, <1>8, <1>9, <1>10, FilesMove

\* What Form holds grows.
LEMMA ArrivedGrows ==
  ASSUME NEW i, NEW reply
  PROVE  held \subseteq Arrived(i, reply) /\ (reply = "accepted" => i \in Arrived(i, reply))
BY DEF Arrived

LEMMA ReplayKeeps ==
  ASSUME SpoolInv, NEW u \in Uploaders, NEW reply, Replay(u, reply)
  PROVE  SpoolInv'
<1> DEFINE o == Oldest(up[u].snap)
<1>0. /\ up[u].pc = "post" /\ reply \in Replies(o) /\ held' = Arrived(o, reply)
      /\ UNCHANGED <<queue, turn, named, dead, garbled, evicted, buried, skipped, spooled, fresh>>
  BY DEF Replay, disk
<1>1. SnapInv(u) /\ OrderInv(u) /\ up[u] \in Uploads  BY ItemIs DEF SpoolInv
<1>2. up[u].snap # {}  BY <1>0, <1>1 DEF SnapInv
<1>3. o \in up[u].snap /\ First(o, up[u].snap)  BY <1>2, ListIs
<1>f. \A p \in up[u].snap : First(p, up[u].snap) => p = o
  BY <1>1, <1>2, OldestIs DEF SpoolInv, SnapInv, Uploads
<1>h. held \subseteq held' /\ (reply = "accepted" => o \in held')  BY <1>0, ArrivedGrows
<1>4. ASSUME NEW pc \in {"bury", "remove"}, GoTo(u, pc),
             pc = "bury" => o \in Bad, pc = "remove" => o \in held'
      PROVE  SpoolInv'
  <2>1. PICK r \in Uploads : /\ up' = [up EXCEPT ![u] = r] /\ up'[u] = r
                             /\ r.pc = pc /\ r.snap = up[u].snap /\ r.item = up[u].item /\ r.missed = up[u].missed
    BY <1>4, GoesTo DEF Replaying
  <2>2. \A p \in up[u].snap : First(p, up[u].snap)' => p = o  BY <1>f, <1>0, <2>1 DEF First
  <2>3. SnapInv(u)'
    <3>1. pc = "bury" => \A p \in up[u].snap : First(p, up[u].snap)' => p \in Bad'  BY <1>0, <1>4, <2>2 DEF Bad
    <3>2. pc = "remove" => \A p \in up[u].snap : First(p, up[u].snap)' => p \in held'  BY <1>4, <2>2
    <3>3. \A p \in up[u].snap : turn'[p] # 0  BY <1>0, <1>1 DEF SnapInv
    <3> QED  BY <1>2, <2>1, <3>1, <3>2, <3>3 DEF SnapInv, First, Replaying
  <2>4. OrderInv(u)'  BY <1>0, <1>1, <1>h, <2>1 DEF OrderInv, Bad
  <2> QED  BY <1>0, <1>h, <2>1, <2>3, <2>4, ItemIs, MoveKeeps DEF Replaying
<1>5. CASE reply = "accepted"
  <2>1. GoTo(u, "remove")  BY <1>5 DEF Replay, DrainStep, GoTo
  <2> QED  BY <1>4, <1>5, <1>h, <2>1 DEF Replaying
<1>6. CASE reply = "rejected"
  <2>1. GoTo(u, "bury")  BY <1>6 DEF Replay, DrainStep, GoTo
  <2>2. o \in Bad  BY <1>0, <1>6 DEF Replies, Bad
  <2> QED  BY <1>4, <2>1, <2>2 DEF Replaying
<1>7. CASE reply \notin {"accepted", "rejected"}
  <2>1. PICK r : r = [up[u] EXCEPT !.pc = "replay", !.snap = {}]  OBVIOUS
  <2>2. r \in Uploads /\ r.pc = "replay" /\ r.snap = {} /\ r.item = up[u].item
    BY <1>1, <2>1 DEF Uploads, Replaying
  <2>3. up' = [up EXCEPT ![u] = r]  BY <1>7, <2>1 DEF Replay, DrainStep, AfterOutage
  <2>4. up'[u] = r  BY <2>3 DEF SpoolInv, SpoolTypeOK
  <2>5. SnapInv(u)' /\ OrderInv(u)'  BY <2>2, <2>4, NoList
  <2> QED  BY <1>0, <1>h, <2>2, <2>3, <2>5, ItemIs, MoveKeeps
<1> QED  BY <1>5, <1>6, <1>7

\* The file a replay is at.
LEMMA AtFile ==
  ASSUME SpoolInv, NEW u \in Uploaders, up[u].pc \in {"post", "bury", "remove"}
  PROVE  /\ up[u].snap # {} /\ Oldest(up[u].snap) \in Payloads
         /\ up[u].pc = "bury" => Oldest(up[u].snap) \in Bad
         /\ up[u].pc = "remove" => Oldest(up[u].snap) \in held \union (buried \intersect Bad)
<1>1. SnapInv(u)  BY DEF SpoolInv
<1>2. up[u].snap # {}  BY <1>1 DEF SnapInv
<1>3. Oldest(up[u].snap) \in up[u].snap /\ First(Oldest(up[u].snap), up[u].snap)
      /\ up[u].snap \in SUBSET Payloads
  BY <1>2, ListIs
<1> QED  BY <1>1, <1>2, <1>3 DEF SnapInv

LEMMA BuryKeeps ==
  ASSUME SpoolInv, NEW u \in Uploaders, Bury(u)
  PROVE  SpoolInv'
<1> DEFINE o == Oldest(up[u].snap)
<1>0. /\ up[u].pc = "bury" /\ BuryIn(o) /\ GoTo(u, "remove")
      /\ UNCHANGED <<queue, turn, named, garbled, evicted, skipped, fresh, spooled, held>>
  BY DEF Bury
<1>1. up[u].snap # {} /\ o \in Payloads /\ o \in Bad  BY <1>0, AtFile
<1>2. /\ dead' \in Seq(Payloads) /\ buried' = buried \union {o}
      /\ Len(dead') <= DeadItems /\ Weight(dead') <= DeadBytes
  BY <1>0, <1>1, BuriedIn
<1>3. PICK r \in Uploads : /\ up' = [up EXCEPT ![u] = r] /\ up'[u] = r
                           /\ r.pc = "remove" /\ r.snap = up[u].snap /\ r.item = up[u].item /\ r.missed = up[u].missed
  BY <1>0, GoesTo DEF Replaying
<1>4. SnapInv(u) /\ OrderInv(u) /\ up[u] \in Uploads  BY ItemIs DEF SpoolInv
<1>5. SnapInv(u)'
  <2>1. \A p \in up[u].snap : First(p, up[u].snap) => p = o
    BY <1>1, <1>4, OldestIs DEF SpoolInv, SnapInv, Uploads
  <2>2. \A p \in up[u].snap : First(p, up[u].snap)' => p = o  BY <1>0, <1>3, <2>1 DEF First
  <2>3. \A p \in up[u].snap : First(p, up[u].snap)' => p \in buried' \intersect Bad'
    BY <1>0, <1>1, <1>2, <2>2 DEF Bad
  <2>4. \A p \in up[u].snap : turn'[p] # 0  BY <1>0, <1>4 DEF SnapInv
  <2> QED  BY <1>1, <1>3, <2>3, <2>4 DEF SnapInv, First, Replaying
<1>6. OrderInv(u)'  BY <1>0, <1>3, <1>4 DEF OrderInv, Bad
<1>7. SpooledIsKept'
  <2>1. SpooledIsKept  BY DEF SpoolInv
  <2>2. QueueWeight(queue)' = QueueWeight(queue)  BY <1>0
  <2>3. Weight(dead)' = Weight(dead')  OBVIOUS
  <2> QED  BY <1>0, <1>1, <1>2, <2>1, <2>2, <2>3 DEF SpooledIsKept, Oversized, Bad
<1> QED  BY <1>0, <1>2, <1>3, <1>5, <1>6, <1>7, ItemIs, FilesMove

LEMMA RemoveFileKeeps ==
  ASSUME SpoolInv, NEW u \in Uploaders, RemoveFile(u)
  PROVE  SpoolInv'
<1> DEFINE o == Oldest(up[u].snap)
<1>0. /\ up[u].pc = "remove" /\ queue' = queue \ {o}
      /\ up' = [up EXCEPT ![u].pc = "replay", ![u].snap = Others(up[u].snap)]
      /\ UNCHANGED <<turn, named, dead, garbled, evicted, skipped, buried, fresh, spooled, held>>
  BY DEF RemoveFile
<1>1. up[u].snap # {} /\ o \in held \union (buried \intersect Bad)  BY <1>0, AtFile
<1>2. SnapInv(u)' /\ OrderInv(u)'  BY <1>0, <1>1, NextFile
<1>3. PICK r \in Uploads : up' = [up EXCEPT ![u] = r] /\ r.item = up[u].item /\ r.pc = "replay"
  BY <1>0, <1>1, NextFile
<1>4. SpooledIsKept'
  <2>1. SpooledIsKept /\ queue \in SUBSET Payloads  BY DEF SpoolInv, SpoolTypeOK
  <2>2. QueueWeight(queue') <= QueueBytes
    <3>1. queue' \in SUBSET queue /\ queue' \in SUBSET Payloads  BY <1>0, <2>1
    <3>2. QueueWeight(queue') <= QueueWeight(queue)  BY <2>1, <3>1, QueueWeights
    <3>3. QueueWeight(queue') \in Nat /\ QueueWeight(queue) \in Nat  BY <2>1, <3>1, QueueWeights
    <3> QED  BY <2>1, <3>2, <3>3, SpoolAssumption DEF SpooledIsKept
  <2>3. Weight(dead)' = Weight(dead) /\ QueueWeight(queue)' = QueueWeight(queue')
    BY <1>0 DEF QueueWeight, Weight, Bytes
  <2>4. spooled' \subseteq queue' \union held' \union evicted' \union buried'
    BY <1>0, <1>1, <2>1 DEF SpooledIsKept
  <2> QED  BY <1>0, <2>1, <2>2, <2>3, <2>4 DEF SpooledIsKept, Oversized
<1>5. dead' \in Seq(Payloads)  BY <1>0 DEF SpoolInv, SpoolTypeOK
<1> QED  BY <1>0, <1>2, <1>3, <1>4, <1>5, ItemIs, FilesMove

LEMMA RemoveFileFailsKeeps ==
  ASSUME SpoolInv, NEW u \in Uploaders, RemoveFileFails(u)
  PROVE  SpoolInv'
<1>0. /\ up[u].pc \in {"bury", "remove"}
      /\ up' = [up EXCEPT ![u].pc = "replay", ![u].snap = Others(up[u].snap)]
      /\ UNCHANGED <<queue, turn, named, dead, garbled, evicted, skipped, buried, fresh, spooled, held>>
  BY DEF RemoveFileFails, disk
<1>1. up[u].snap # {} /\ Oldest(up[u].snap) \in held \union Bad  BY <1>0, AtFile
<1>2. SnapInv(u)' /\ OrderInv(u)'  BY <1>0, <1>1, NextFile
<1>3. PICK r \in Uploads : up' = [up EXCEPT ![u] = r] /\ r.item = up[u].item /\ r.pc = "replay"
  BY <1>0, <1>1, NextFile
<1> QED  BY <1>0, <1>2, <1>3, ItemIs, MoveKeeps

LEMMA PostJsonKeeps ==
  ASSUME SpoolInv, NEW u \in Uploaders, NEW reply, PostJson(u, reply)
  PROVE  SpoolInv'
<1>0. /\ up[u].pc = "deliver" /\ held' = Arrived(up[u].item, reply)
      /\ UNCHANGED <<queue, turn, named, dead, garbled, evicted, buried, skipped, spooled, fresh>>
  BY DEF PostJson, disk
<1>h. held \subseteq held'  BY <1>0, ArrivedGrows
<1>1. CASE DrainStep(reply) # "transient"
  <2>1. Rest(u)  BY <1>1 DEF PostJson
  <2> QED  BY <1>0, <1>h, <2>1, RestsAt, MoveKeeps
<1>2. CASE DrainStep(reply) = "transient"
  <2>0. GoTo(u, "spool")  BY <1>2 DEF PostJson
  <2>1. PICK r \in Uploads : /\ up' = [up EXCEPT ![u] = r] /\ up'[u] = r
                             /\ r.pc = "spool" /\ r.snap = up[u].snap /\ r.item = up[u].item /\ r.missed = up[u].missed
    BY <2>0, GoesTo
  <2>2. r.snap = {} /\ r.item # "none"  BY <1>0, <2>1, ItemIs DEF Replaying
  <2>3. SnapInv(u)' /\ OrderInv(u)'  BY <2>1, <2>2, NoList
  <2> QED  BY <1>0, <1>h, <2>1, <2>2, <2>3, ItemIs, MoveKeeps
<1> QED  BY <1>1, <1>2

LEMMA UploadLiveKeeps ==
  ASSUME SpoolInv, NEW u \in Uploaders, NEW reply, UploadLive(u, reply)
  PROVE  SpoolInv'
<1>0. /\ up[u].pc = "live" /\ held' = Arrived(up[u].item, reply)
      /\ UNCHANGED <<queue, turn, named, dead, garbled, evicted, buried, skipped, spooled, fresh>>
  BY DEF UploadLive, disk
<1>h. held \subseteq held'  BY <1>0, ArrivedGrows
<1>1. CASE DrainStep(reply) # "transient"
  <2>1. Rest(u)  BY <1>1 DEF UploadLive
  <2> QED  BY <1>0, <1>h, <2>1, RestsAt, MoveKeeps
<1>2. CASE DrainStep(reply) = "transient"
  <2>1. up' = up  BY <1>2 DEF UploadLive
  <2>2. up' = [up EXCEPT ![u] = up[u]] /\ up'[u] = up[u]  BY <2>1 DEF SpoolInv, SpoolTypeOK
  <2>3. up[u].snap = {} /\ up[u].item # "none" /\ up[u] \in Uploads /\ up[u].item \notin fresh
    BY <1>0, ItemIs DEF Replaying
  <2>4. SnapInv(u)' /\ OrderInv(u)'  BY <1>0, <2>2, <2>3, NoList
  <2> QED  BY <1>0, <1>h, <2>2, <2>3, <2>4, MoveKeeps
<1> QED  BY <1>1, <1>2

LEMMA DropLiveKeeps ==
  ASSUME SpoolInv, NEW u \in Uploaders, DropLive(u)
  PROVE  SpoolInv'
<1>0. Rest(u) /\ UNCHANGED <<queue, turn, named, dead, garbled, evicted, buried, skipped, spooled, held, fresh>>
  BY DEF DropLive, disk
<1> QED  BY <1>0, RestsAt, MoveKeeps

\* Eviction makes room.
LEMMA FittingFits ==
  ASSUME SpoolInv, NEW n \in Nat, n <= QueueBytes
  PROVE  Fitting(n) \in SUBSET queue /\ QueueWeight(Fitting(n)) + n <= QueueBytes
<1>0. SpoolTypeOK /\ NameInv /\ queue \in SUBSET Payloads  BY DEF SpoolInv, SpoolTypeOK
<1>1. Fitting(n) \in SUBSET queue /\ Fitting(n) \in SUBSET Payloads  BY <1>0 DEF Fitting
<1>2. CASE Fitting(n) = {}
  <2>1. Bytes([p \in {} |-> p]) = {}  BY DEF Bytes
  <2>2. QueueWeight({}) = 0  BY <2>1, FS_EmptySet DEF QueueWeight, Weight
  <2> QED  BY <1>1, <1>2, <2>2
<1>3. CASE Fitting(n) # {}
  <2>1. PICK o : o = Oldest(Fitting(n))  OBVIOUS
  <2>2. \A p \in Fitting(n) : turn[p] # 0  BY <1>0, <1>1 DEF NameInv
  <2>3. o \in Fitting(n) /\ \A q \in Fitting(n) : turn[o] <= turn[q]
    BY <1>0, <1>1, <1>3, <2>1, <2>2, OldestIs
  <2>4. PICK T : T = FilesSince(turn[o])  OBVIOUS
  <2>5. T \in SUBSET Payloads /\ Fitting(n) \in SUBSET T  BY <1>0, <1>1, <2>3, <2>4 DEF FilesSince
  <2>6. QueueWeight(Fitting(n)) <= QueueWeight(T) /\ QueueWeight(T) \in Nat
    BY <2>5, QueueWeights
  <2>7. QueueWeight(Fitting(n)) \in Nat  BY <1>1, QueueWeights
  <2>8. QueueWeight(T) + n <= QueueBytes  BY <2>3, <2>4 DEF Fitting
  <2>9. QueueBytes \in Nat  BY SpoolAssumption
  <2> QED  BY <1>1, <2>6, <2>7, <2>8, <2>9
<1> QED  BY <1>2, <1>3

\* Fewer files weigh less.
LEMMA LessWeighs ==
  ASSUME SpoolInv, NEW T \in SUBSET queue
  PROVE  QueueWeight(T) <= QueueBytes
<1>1. queue \in SUBSET Payloads /\ T \in SUBSET Payloads /\ QueueWeight(queue) <= QueueBytes
  BY DEF SpoolInv, SpoolTypeOK, SpooledIsKept
<1>2. QueueWeight(T) <= QueueWeight(queue) /\ QueueWeight(T) \in Nat /\ QueueWeight(queue) \in Nat
  BY <1>1, QueueWeights
<1> QED  BY <1>1, <1>2, SpoolAssumption

\* A payload gets its file, and older ones make room for it.
LEMMA PublishKeeps ==
  ASSUME SpoolInv, NEW u \in Uploaders, NEW r \in Uploads, up' = [up EXCEPT ![u] = r],
         up[u].pc = "spool", ~Oversized(up[u].item), Publish(up[u].item),
         evicted' = evicted \union (queue \ queue'), spooled' \subseteq spooled \union {up[u].item},
         UNCHANGED <<dead, garbled, skipped, buried, fresh, held>>,
         r.snap = {}, r.pc \in {"rest", "live"}, r.item \in {"none", up[u].item},
         r.pc = "live" => r.item # "none"
  PROVE  SpoolInv'
<1>i. PICK i : i = up[u].item  OBVIOUS
<1>0. SpoolTypeOK /\ NameInv /\ SpooledIsKept  BY DEF SpoolInv
<1>1. i \in Payloads /\ i # "none" /\ i \notin fresh /\ turn[i] = 0
  <2>1. i \in Payloads /\ i # "none" /\ i \notin fresh  BY <1>i, ItemIs
  <2> QED  BY <1>i, <1>0, <2>1 DEF NameInv
<1>2. queue' = Fitting(Size[i]) \union {i} /\ turn' = [turn EXCEPT ![i] = named + 1] /\ named' = named + 1
  BY <1>i DEF Publish
<1>3. Size[i] \in Nat /\ Size[i] <= QueueBytes /\ QueueBytes \in Nat
  BY <1>i, <1>1, SpoolAssumption DEF Oversized
<1>4. Fitting(Size[i]) \in SUBSET queue /\ QueueWeight(Fitting(Size[i])) + Size[i] <= QueueBytes
  BY <1>3, FittingFits
<1>t. /\ turn \in [Payloads -> Nat] /\ named \in Nat /\ queue \in SUBSET Payloads
      /\ turn'[i] = named + 1 /\ \A p \in Payloads : p # i => turn'[p] = turn[p]
  BY <1>0, <1>1, <1>2 DEF SpoolTypeOK
<1>5. SpoolTypeOK'
  <2>1. turn' \in [Payloads -> Nat] /\ named' \in Nat  BY <1>1, <1>2, <1>t
  <2>2. queue' \in SUBSET Payloads  BY <1>1, <1>2, <1>4, <1>t
  <2> QED  BY <1>0, <2>1, <2>2 DEF SpoolTypeOK
<1>u. up'[u] = r /\ \A v \in Uploaders : v # u => up'[v] = up[v]  BY <1>0 DEF SpoolTypeOK
<1>6. NameInv'
  <2>1. \A p \in Payloads : turn'[p] <= named'
    BY <1>0, <1>2, <1>t DEF NameInv
  <2>2. \A p, q \in Payloads : turn'[p] = turn'[q] /\ turn'[p] # 0 => p = q
    <3>1. \A p \in Payloads : turn[p] <= named /\ turn[p] \in Nat  BY <1>0, <1>t DEF NameInv
    <3>2. \A p \in Payloads : turn[p] # named + 1  BY <1>t, <3>1
    <3>3. \A p, q \in Payloads : turn[p] = turn[q] /\ turn[p] # 0 => p = q  BY <1>0 DEF NameInv
    <3> QED  BY <1>t, <3>2, <3>3
  <2>3. \A p \in queue' : turn'[p] # 0
    <3>1. \A p \in queue : turn[p] # 0 /\ p \in Payloads  BY <1>0, <1>t DEF NameInv
    <3>2. named + 1 # 0  BY <1>t
    <3> QED  BY <1>2, <1>4, <1>t, <3>1, <3>2
  <2>4. \A p \in fresh' : turn'[p] = 0
    <3>1. \A p \in fresh : turn[p] = 0 /\ p \in Payloads /\ p # i  BY <1>0, <1>1 DEF NameInv, SpoolTypeOK
    <3> QED  BY <1>t, <3>1
  <2>5. \A v \in Uploaders : v # u => up[v].item # i  BY <1>i, <1>0, <1>1 DEF NameInv
  <2>6. \A v \in Uploaders : up'[v].item # "none" => up'[v].item \notin fresh'
    BY <1>i, <1>0, <1>1, <1>u DEF NameInv
  <2>7. \A v \in Uploaders : up'[v].item # "none" /\ up'[v].pc \notin {"rest", "live"} => turn'[up'[v].item] = 0
    <3> SUFFICES ASSUME NEW v \in Uploaders, v # u, up[v].item # "none", up[v].pc \notin {"rest", "live"}
                 PROVE  turn'[up[v].item] = 0
      BY <1>u
    <3>1. turn[up[v].item] = 0 /\ up[v].item # i  BY <1>0, <2>5 DEF NameInv
    <3>2. up[v].item \in Payloads  BY ItemIs DEF Uploads
    <3> QED  BY <1>t, <3>1, <3>2
  <2>8. \A v, w \in Uploaders : w # v /\ up'[v].item # "none" => up'[w].item # up'[v].item
    <3>1. \A v, w \in Uploaders : w # v /\ up[v].item # "none" => up[w].item # up[v].item
      BY <1>0 DEF NameInv
    <3> QED  BY <1>i, <1>u, <2>5, <3>1
  <2>9. \A v \in Uploaders : up'[v].pc \in {"spool", "deliver", "live"} => up'[v].item # "none"
    BY <1>0, <1>u DEF NameInv
  <2>10. \A v \in Uploaders : up'[v].item # "none" =>
           /\ up'[v].item \notin fresh'
           /\ up'[v].pc \notin {"rest", "live"} => turn'[up'[v].item] = 0
           /\ \A w \in Uploaders : w # v => up'[w].item # up'[v].item
    BY <2>6, <2>7, <2>8
  <2> QED  BY <2>1, <2>2, <2>3, <2>4, <2>9, <2>10 DEF NameInv
<1>7. Onward
  <2>1. \A p \in Payloads : turn[p] # 0 => turn'[p] = turn[p]  BY <1>1, <1>t
  <2>2. \A q \in queue' : q \in queue \/ turn'[q] = named + 1  BY <1>2, <1>4, <1>t
  <2> QED  BY <2>1, <2>2 DEF Onward
<1>8. \A v \in Uploaders : v # u => SnapInv(v)' /\ OrderInv(v)'  BY <1>5, <1>7, <1>u, ReplayStays
<1>9. SnapInv(u)' /\ OrderInv(u)'  BY <1>u, NoList
<1>10. SpooledIsKept'
  <2>1. spooled' \subseteq queue' \union held' \union evicted' \union buried'
    BY <1>i, <1>0, <1>2 DEF SpooledIsKept
  <2>2. QueueWeight(queue') <= QueueBytes
    <3>1. Fitting(Size[i]) \in SUBSET Payloads  BY <1>4, <1>t
    <3>2. i \notin Fitting(Size[i])  BY <1>0, <1>1, <1>4 DEF NameInv
    <3>3. QueueWeight(Fitting(Size[i]) \union {i}) = QueueWeight(Fitting(Size[i])) + Size[i]
      BY <1>1, <3>1, <3>2, QueueWeights
    <3> QED  BY <1>2, <1>4, <3>3
  <2>3. Weight(dead)' = Weight(dead) /\ QueueWeight(queue)' = QueueWeight(queue')
    BY DEF QueueWeight, Weight, Bytes
  <2> QED  BY <1>0, <2>1, <2>2, <2>3 DEF SpooledIsKept, Oversized
<1> QED  BY <1>5, <1>6, <1>8, <1>9, <1>10 DEF SpoolInv

\* Files go for a payload that is not published in the end.
LEMMA EvictKeeps ==
  ASSUME SpoolInv, NEW u \in Uploaders, NEW r \in Uploads, up' = [up EXCEPT ![u] = r],
         queue' \subseteq queue, evicted' = evicted \union (queue \ queue'),
         UNCHANGED <<turn, named, dead, garbled, skipped, buried, fresh, spooled, held>>,
         r.snap = {}, r.pc \in {"rest", "live"}, r.item \in {"none", up[u].item},
         r.pc = "live" => r.item # "none"
  PROVE  SpoolInv'
<1>1. up'[u] = r  BY DEF SpoolInv, SpoolTypeOK
<1>2. SnapInv(u)' /\ OrderInv(u)'  BY <1>1, NoList
<1>3. dead' \in Seq(Payloads)  BY DEF SpoolInv, SpoolTypeOK
<1>4. SpooledIsKept'
  <2>1. SpooledIsKept  BY DEF SpoolInv
  <2>2. QueueWeight(queue') <= QueueBytes  BY LessWeighs
  <2>3. Weight(dead)' = Weight(dead) /\ QueueWeight(queue)' = QueueWeight(queue')
    BY DEF QueueWeight, Weight, Bytes
  <2>4. spooled' \subseteq queue' \union held' \union evicted' \union buried'
    BY <2>1 DEF SpooledIsKept
  <2> QED  BY <2>1, <2>2, <2>3, <2>4 DEF SpooledIsKept, Oversized
<1>5. r.item # "none" => r.item \notin fresh /\ r.item = up[u].item  BY ItemIs
<1> QED  BY <1>2, <1>3, <1>4, <1>5, FilesMove

\* An enqueue that comes to some point.
LEMMA HalfwayKeeps ==
  ASSUME SpoolInv, NEW u \in Uploaders, NEW r \in Uploads, up' = [up EXCEPT ![u] = r],
         up[u].pc = "spool", Halfway(up[u].item),
         UNCHANGED <<dead, garbled, skipped, buried, fresh, spooled, held>>,
         r.snap = {}, r.pc \in {"rest", "live"}, r.item \in {"none", up[u].item},
         r.pc = "live" => r.item # "none"
  PROVE  SpoolInv'
<1>1. CASE UNCHANGED <<queue, turn, named, evicted>>
  <2>1. evicted' = evicted \union (queue \ queue')  BY <1>1
  <2> QED  BY <1>1, <2>1, EvictKeeps
<1>2. CASE /\ ~Oversized(up[u].item) /\ Publish(up[u].item)
           /\ evicted' = evicted \union (queue \ queue')
  BY <1>2, PublishKeeps
<1>3. CASE /\ \E n \in 1 .. named + 1 : queue' = FilesSince(n)
           /\ UNCHANGED <<turn, named>> /\ evicted' = evicted \union (queue \ queue')
  <2>1. queue' \subseteq queue  BY <1>3 DEF FilesSince
  <2> QED  BY <1>3, <2>1, EvictKeeps
<1> QED  BY <1>1, <1>2, <1>3 DEF Halfway

\* Where an enqueue without success leads.
LEMMA UnspooledIs ==
  ASSUME SpoolInv, NEW u \in Uploaders, up[u].pc = "spool", Unspooled(u)
  PROVE  \E r \in Uploads :
           /\ up' = [up EXCEPT ![u] = r] /\ up'[u] = r /\ r.snap = {} /\ r.pc \in {"rest", "live"}
           /\ r.item \in {"none", up[u].item} /\ (r.pc = "live" => r.item # "none")
<1>1. CASE up[u].item \in Batches
  <2>1. GoTo(u, "live")  BY <1>1 DEF Unspooled
  <2>2. PICK r \in Uploads : /\ up' = [up EXCEPT ![u] = r] /\ up'[u] = r
                             /\ r.pc = "live" /\ r.snap = up[u].snap /\ r.item = up[u].item /\ r.missed = up[u].missed
    BY <2>1, GoesTo
  <2>3. up[u].snap = {} /\ up[u].item # "none"  BY ItemIs DEF Replaying
  <2> QED  BY <2>2, <2>3
<1>2. CASE up[u].item \notin Batches
  <2>1. Rest(u)  BY <1>2 DEF Unspooled
  <2> QED  BY <2>1, RestsAt
<1> QED  BY <1>1, <1>2

LEMMA SpoolPayloadKeeps ==
  ASSUME SpoolInv, NEW u \in Uploaders, SpoolPayload(u)
  PROVE  SpoolInv'
<1>1. /\ up[u].pc = "spool" /\ ~Oversized(up[u].item) /\ Publish(up[u].item) /\ Rest(u)
      /\ evicted' = evicted \union (queue \ queue') /\ spooled' = spooled \union {up[u].item}
      /\ UNCHANGED <<dead, garbled, skipped, buried, fresh, held>>
  BY DEF SpoolPayload
<1>2. /\ Asleep \in Uploads /\ up' = [up EXCEPT ![u] = Asleep] /\ Asleep.item = "none"
      /\ Asleep.pc = "rest" /\ Asleep.snap = {}
  BY <1>1, RestsAt
<1> QED  BY <1>1, <1>2, PublishKeeps

LEMMA SpoolOversizedKeeps ==
  ASSUME SpoolInv, NEW u \in Uploaders, SpoolOversized(u)
  PROVE  SpoolInv'
<1>1. /\ up[u].pc = "spool" /\ Oversized(up[u].item) /\ BuryIn(up[u].item) /\ Unspooled(u)
      /\ UNCHANGED <<queue, turn, named, garbled, evicted, skipped, fresh, spooled, held>>
  BY DEF SpoolOversized
<1>2. PICK r \in Uploads :
        /\ up' = [up EXCEPT ![u] = r] /\ up'[u] = r /\ r.snap = {} /\ r.pc \in {"rest", "live"}
        /\ r.item \in {"none", up[u].item} /\ (r.pc = "live" => r.item # "none")
  BY <1>1, UnspooledIs
<1>3. up[u].item \in Payloads /\ up[u].item \notin fresh  BY <1>1, ItemIs
<1>4. /\ dead' \in Seq(Payloads) /\ buried' = buried \union {up[u].item}
      /\ Len(dead') <= DeadItems /\ Weight(dead') <= DeadBytes
  BY <1>1, <1>3, BuriedIn
<1>5. SnapInv(u)' /\ OrderInv(u)'  BY <1>2, NoList
<1>6. SpooledIsKept'
  <2>1. SpooledIsKept  BY DEF SpoolInv
  <2>2. QueueWeight(queue)' = QueueWeight(queue)  BY <1>1
  <2>3. Weight(dead)' = Weight(dead')  OBVIOUS
  <2> QED  BY <1>1, <1>3, <1>4, <2>1, <2>2, <2>3 DEF SpooledIsKept, Oversized
<1>7. r.item # "none" => r.item \notin fresh' /\ r.item = up[u].item  BY <1>1, <1>2, <1>3
<1> QED  BY <1>1, <1>2, <1>4, <1>5, <1>6, <1>7, FilesMove

LEMMA SpoolFailsKeeps ==
  ASSUME SpoolInv, NEW u \in Uploaders, SpoolFails(u)
  PROVE  SpoolInv'
<1>1. /\ up[u].pc = "spool" /\ Unspooled(u)
      /\ UNCHANGED <<dead, garbled, skipped, buried, fresh, spooled, held>>
  BY DEF SpoolFails
<1>2. PICK r \in Uploads :
        /\ up' = [up EXCEPT ![u] = r] /\ up'[u] = r /\ r.snap = {} /\ r.pc \in {"rest", "live"}
        /\ r.item \in {"none", up[u].item} /\ (r.pc = "live" => r.item # "none")
  BY <1>1, UnspooledIs
<1>3. Halfway(up[u].item)  BY DEF SpoolFails, Halfway
<1> QED  BY <1>1, <1>2, <1>3, HalfwayKeeps

LEMMA DieUploaderKeeps ==
  ASSUME SpoolInv, NEW u \in Uploaders, DieUploader(u)
  PROVE  SpoolInv'
<1>1. Rest(u) /\ UNCHANGED <<dead, garbled, skipped, buried, fresh, spooled, held>>  BY DEF DieUploader
<1>2. /\ Asleep \in Uploads /\ up' = [up EXCEPT ![u] = Asleep] /\ Asleep.item = "none"
      /\ Asleep.pc = "rest" /\ Asleep.snap = {}
  BY <1>1, RestsAt
<1>3. CASE up[u].pc = "spool" /\ ~doubled
  <2>1. Halfway(up[u].item)  BY <1>3 DEF DieUploader
  <2> QED  BY <1>1, <1>2, <1>3, <2>1, HalfwayKeeps
<1>4. CASE ~(up[u].pc = "spool" /\ ~doubled)
  <2>1. UNCHANGED <<queue, turn, named, evicted>>  BY <1>4 DEF DieUploader
  <2>2. queue' \subseteq queue /\ evicted' = evicted \union (queue \ queue')  BY <2>1
  <2> QED  BY <1>1, <1>2, <2>1, <2>2, EvictKeeps
<1> QED  BY <1>3, <1>4

\* A damaged file only adds to what may be dead-lettered.
LEMMA GarbleFileKeeps ==
  ASSUME SpoolInv, NEW p, GarbleFile(p)
  PROVE  SpoolInv'
<1>0. /\ garbled' = garbled \union {p}
      /\ UNCHANGED <<queue, turn, named, dead, evicted, buried, skipped, up, fresh, spooled, held>>
  BY DEF GarbleFile
<1>1. SpoolTypeOK'  BY <1>0 DEF SpoolInv, SpoolTypeOK
<1>2. NameInv'  BY <1>0 DEF SpoolInv, NameInv
<1>3. Onward  BY <1>0 DEF Onward
<1>4. \A u \in Uploaders : SnapInv(u)' /\ OrderInv(u)'  BY <1>0, <1>1, <1>3, ReplayStays
<1>5. SpooledIsKept'
  <2>1. SpooledIsKept  BY DEF SpoolInv
  <2>2. QueueWeight(queue)' = QueueWeight(queue) /\ Weight(dead)' = Weight(dead)
    BY <1>0 DEF QueueWeight, Weight, Bytes
  <2> QED  BY <1>0, <2>1, <2>2 DEF SpooledIsKept, Oversized
<1> QED  BY <1>1, <1>2, <1>4, <1>5 DEF SpoolInv

LEMMA SpoolInitInv == SpoolInit => SpoolInv
<1> SUFFICES ASSUME SpoolInit  PROVE SpoolInv
  OBVIOUS
<1>1. Asleep \in Uploads /\ Asleep.item = "none" /\ Asleep.pc = "rest" /\ Asleep.snap = {}
  BY DEF Asleep, Uploading, Uploads
<1>2. \A u \in Uploaders : up[u] = Asleep  BY DEF SpoolInit
<1>3. SpoolTypeOK  BY <1>1 DEF SpoolInit, SpoolTypeOK
<1>4. NameInv  BY <1>1, <1>2 DEF SpoolInit, NameInv
<1>5. \A u \in Uploaders : SnapInv(u) /\ OrderInv(u)  BY <1>1, <1>2 DEF SnapInv, OrderInv
<1>6. SpooledIsKept
  <2>1. Bytes([p \in {} |-> p]) = {} /\ Bytes(<<>>) = {}  BY DEF Bytes
  <2>2. QueueWeight({}) = 0 /\ Weight(<<>>) = 0  BY <2>1, FS_EmptySet DEF QueueWeight, Weight
  <2>3. queue = {} /\ dead = <<>> /\ spooled = {} /\ buried = {} /\ Len(dead) = 0  BY DEF SpoolInit
  <2>4. {QueueBytes, DeadItems, DeadBytes} \subseteq Nat  BY SpoolAssumption
  <2> QED  BY <2>2, <2>3, <2>4 DEF SpooledIsKept
<1> QED  BY <1>3, <1>4, <1>5, <1>6 DEF SpoolInv

LEMMA SpoolNextInv == SpoolInv /\ [SpoolNext]_spoolVars => SpoolInv'
<1> SUFFICES ASSUME SpoolInv, [SpoolNext]_spoolVars  PROVE SpoolInv'
  OBVIOUS
<1>1. CASE UNCHANGED spoolVars
  BY <1>1 DEF spoolVars, disk, SpoolInv, SpoolTypeOK, NameInv, SnapInv, OrderInv, First, Bad, SpooledIsKept,
              QueueWeight, Weight, Bytes, Oversized
<1>2. ASSUME NEW u \in Uploaders, NEW i, OpenSpool(u, i) \/ OpenSpoolFails(u, i)  PROVE SpoolInv'
  BY <1>2, OpenSpoolKeeps, OpenSpoolFailsKeeps
<1>3. ASSUME NEW u \in Uploaders,
             \/ ListQueue(u) \/ ListQueueFails(u) \/ ReadFile(u) \/ ReadFileFails(u) \/ EndReplay(u)
             \/ Bury(u) \/ RemoveFile(u) \/ RemoveFileFails(u)
      PROVE  SpoolInv'
  BY <1>3, ListQueueKeeps, ListQueueFailsKeeps, ReadFileKeeps, ReadFileFailsKeeps, EndReplayKeeps,
     BuryKeeps, RemoveFileKeeps, RemoveFileFailsKeeps
<1>4. ASSUME NEW u \in Uploaders, NEW reply,
             Replay(u, reply) \/ PostJson(u, reply) \/ UploadLive(u, reply)
      PROVE  SpoolInv'
  BY <1>4, ReplayKeeps, PostJsonKeeps, UploadLiveKeeps
<1>5. ASSUME NEW u \in Uploaders,
             \/ DropLive(u) \/ SpoolPayload(u) \/ SpoolOversized(u) \/ SpoolFails(u) \/ DieUploader(u)
      PROVE  SpoolInv'
  BY <1>5, DropLiveKeeps, SpoolPayloadKeeps, SpoolOversizedKeeps, SpoolFailsKeeps, DieUploaderKeeps
<1>6. ASSUME NEW p, GarbleFile(p)  PROVE SpoolInv'
  BY <1>6, GarbleFileKeeps
<1> QED  BY <1>1, <1>2, <1>3, <1>4, <1>5, <1>6 DEF SpoolNext

LEMMA SpoolHolds == SpoolSpec => []SpoolInv
<1>1. SpoolInit => SpoolInv  BY SpoolInitInv
<1>2. SpoolInv /\ [SpoolNext]_spoolVars => SpoolInv'  BY SpoolNextInv
<1> QED  BY <1>1, <1>2, PTL DEF SpoolSpec

(***************************************************************************)
(* A payload whose caller was told that it is queued stays in the spool    *)
(* until Form holds it, Form has rejected it, its file does not parse or   *)
(* newer payloads need the room, and both directories stay within their    *)
(* limits: for any payloads and sizes, any limits, any number of uploaders *)
(* and of deaths, damage and failures (spool.rs: enqueue, drain,           *)
(* move_to_deadletter).                                                    *)
(***************************************************************************)
THEOREM SpooledPayloadsAreKept == SpoolSpec => []SpooledIsKept
<1>1. SpoolInv => SpooledIsKept  BY DEF SpoolInv
<1> QED  BY <1>1, SpoolHolds, PTL

(***************************************************************************)
(* Replays bring payloads to Form in the order of the queue, but for files  *)
(* published and missed while they list it, however many of them run       *)
(* beside publications, evictions, deaths and failures (drain).            *)
(***************************************************************************)
THEOREM ReplaysAreInOrder == SpoolSpec => ReplayInOrder
<1> DEFINE Step ==
      \A u \in Uploaders : up[u].pc = "post" /\ up'[u] # up[u] =>
        \A p \in queue : p = Oldest(up[u].snap) /\ p \in held' \ held =>
          \A q \in queue : turn[q] < turn[p] /\ q \notin up[u].missed
                             => q \in held \union Invalid \union skipped \union garbled
<1>1. SpoolInv => Step
  <2> SUFFICES ASSUME SpoolInv, NEW u \in Uploaders, up[u].pc = "post",
                      NEW q \in queue, turn[q] < turn[Oldest(up[u].snap)], q \notin up[u].missed
               PROVE  q \in held \union Invalid \union skipped \union garbled
    OBVIOUS
  <2>1. up[u].snap # {}  BY AtFile
  <2>2. /\ up[u].snap \in SUBSET Payloads /\ Oldest(up[u].snap) \in up[u].snap
        /\ \A x \in up[u].snap : turn[Oldest(up[u].snap)] <= turn[x]
    BY <2>1, ListIs
  <2>3. q \in Payloads /\ turn \in [Payloads -> Nat]  BY DEF SpoolInv, SpoolTypeOK
  <2>4. q \notin up[u].snap  BY <2>2, <2>3
  <2> QED  BY <2>2, <2>4 DEF SpoolInv, OrderInv, Bad
<1> HIDE DEF Step
<1>2. SpoolInv /\ [SpoolNext]_spoolVars => [Step]_spoolVars  BY <1>1
<1> QED  BY <1>2, SpoolHolds, PTL DEF SpoolSpec, ReplayInOrder, Step

-----------------------------------------------------------------------------
(* The upload of an artifact.                                              *)

\* The content of a row, of a stream.
RowKind == [bytes : Nat, matches : Nat]

LEMMA DivIs ==
  ASSUME NEW a \in Nat, NEW b \in Nat \ {0}
  PROVE  a \div b \in Nat /\ (a \div b) * b <= a /\ a < (a \div b + 1) * b
OBVIOUS

LEMMA ProductGrows ==
  ASSUME NEW a \in Nat, NEW b \in Nat, NEW m \in Nat, a <= b
  PROVE  a * m <= b * m /\ a * m \in Nat /\ b * m \in Nat
OBVIOUS

LEMMA PartsIs ==
  ASSUME NEW r \in RowKind
  PROVE  /\ Parts(r) \in Nat \ {0} /\ r.matches <= Parts(r) * MaxMatches
         /\ \A x \in 1 .. r.matches : \E i \in 1 .. Parts(r) :
              (i - 1) * MaxMatches < x /\ x <= i * MaxMatches
<1>m. MaxMatches \in Nat \ {0} /\ r.matches \in Nat  BY UploadAssumption DEF RowKind
<1>1. CASE r.matches = 0
  <2>1. Parts(r) = 1  BY <1>1 DEF Parts
  <2> QED  BY <1>1, <1>m, <2>1
<1>2. CASE r.matches # 0
  <2> DEFINE k == (r.matches + MaxMatches - 1) \div MaxMatches
  <2>1. Parts(r) = k  BY <1>2 DEF Parts
  <2>2. r.matches + MaxMatches - 1 \in Nat  BY <1>m
  <2>3. k \in Nat /\ r.matches + MaxMatches - 1 < (k + 1) * MaxMatches  BY <1>m, <2>2, DivIs
  <2> HIDE DEF k
  <2>4. (k + 1) * MaxMatches = k * MaxMatches + MaxMatches /\ k * MaxMatches \in Nat  BY <1>m, <2>3
  <2>5. r.matches <= k * MaxMatches  BY <1>m, <2>3, <2>4
  <2>6. k # 0  BY <1>2, <1>m, <2>3, <2>5
  <2>7. ASSUME NEW x \in 1 .. r.matches
        PROVE  \E i \in 1 .. k : (i - 1) * MaxMatches < x /\ x <= i * MaxMatches
    <3>1. PICK q : q = (x - 1) \div MaxMatches  OBVIOUS
    <3>2. x - 1 \in Nat  BY <2>7, <1>m
    <3>3. q \in Nat /\ q * MaxMatches <= x - 1 /\ x - 1 < (q + 1) * MaxMatches
      BY <1>m, <3>1, <3>2, DivIs
    <3>4. q + 1 \in Nat /\ (q + 1) - 1 = q /\ (q + 1) * MaxMatches \in Nat /\ q * MaxMatches \in Nat
      BY <1>m, <3>3
    <3>5. q * MaxMatches < x /\ x <= (q + 1) * MaxMatches  BY <3>2, <3>3, <3>4
    <3>6. q < k
      <4>1. SUFFICES ASSUME k <= q  PROVE FALSE  BY <2>3, <3>3
      <4>2. k * MaxMatches <= q * MaxMatches  BY <1>m, <2>3, <3>3, <4>1, ProductGrows
      <4> QED  BY <1>m, <2>4, <2>5, <3>3, <3>4, <4>2
    <3>7. q + 1 \in 1 .. k  BY <2>3, <3>3, <3>6
    <3> QED  BY <3>4, <3>5, <3>7
  <2> QED  BY <2>1, <2>3, <2>5, <2>6, <2>7
<1> QED  BY <1>1, <1>2

\* The pieces of the artifact.
ContentOK == content \in Seq(Seq(RowKind))

LEMMA PieceIs ==
  ASSUME ContentOK, NEW p \in Pieces
  PROVE  /\ p = [s |-> p.s, row |-> p.row, nth |-> p.nth]
         /\ p.s \in Streams /\ p.s \in Nat
         /\ p.row \in 1 .. Len(content[p.s]) /\ p.row \in Nat /\ RowOf(p) \in RowKind
         /\ p.nth \in 1 .. Parts(RowOf(p)) /\ p.nth \in Nat \ {0}
         /\ IsFiniteSet(Shown(p)) /\ BytesOf(p) \in Nat
<1>1. PICK s \in Streams : p \in UNION {{[s |-> s, row |-> n, nth |-> i] : i \in 1 .. Parts(content[s][n])} :
                                            n \in 1 .. Len(content[s])}
  BY DEF Pieces
<1>2. PICK n \in 1 .. Len(content[s]) : p \in {[s |-> s, row |-> n, nth |-> i] : i \in 1 .. Parts(content[s][n])}
  BY <1>1
<1>3. PICK i \in 1 .. Parts(content[s][n]) : p = [s |-> s, row |-> n, nth |-> i]  BY <1>2
<1>4. content[s] \in Seq(RowKind) /\ s \in Nat /\ Len(content) \in Nat  BY DEF ContentOK, Streams
<1>5. content[s][n] \in RowKind /\ n \in Nat  BY <1>4
<1>6. p.s = s /\ p.row = n /\ p.nth = i  BY <1>3
<1>7. RowOf(p) \in RowKind /\ RowOf(p) = content[s][n]  BY <1>5, <1>6 DEF RowOf
<1>8. Parts(content[s][n]) \in Nat  BY <1>5, PartsIs
<1>9. i \in Nat \ {0}  BY <1>8
<1>10. IsFiniteSet(Shown(p))
  <2>1. PICK m \in Nat : m = RowOf(p).matches  BY <1>7 DEF RowKind
  <2>2. IsFiniteSet(1 .. m)  BY CountUpTo
  <2>3. Shown(p) \in SUBSET (1 .. m)  BY <2>1 DEF Shown
  <2> QED  BY <2>2, <2>3, FS_Subset
<1>11. BytesOf(p) \in Nat
  <2>1. Cardinality(Shown(p)) \in Nat  BY <1>10, FS_CardinalityType
  <2>2. RowOf(p).bytes \in Nat  BY <1>7 DEF RowKind
  <2> QED  BY <2>1, <2>2 DEF BytesOf
<1> QED  BY <1>3, <1>4, <1>5, <1>6, <1>7, <1>9, <1>10, <1>11

LEMMA PieceOf ==
  ASSUME ContentOK, NEW s \in Streams, NEW n \in 1 .. Len(content[s]), NEW i \in 1 .. Parts(content[s][n])
  PROVE  [s |-> s, row |-> n, nth |-> i] \in Pieces
BY DEF Pieces

\* The pieces of a row show every match once.
LEMMA MatchesOnce ==
  ASSUME ContentOK, NEW s \in Streams, NEW n \in 1 .. Len(content[s]),
         NEW own, own = {p \in Pieces : p.s = s /\ p.row = n}
  PROVE  /\ UNION {Shown(p) : p \in own} = 1 .. content[s][n].matches
         /\ \A p, q \in own : p # q => Shown(p) \intersect Shown(q) = {}
<1>m. MaxMatches \in Nat \ {0}  BY UploadAssumption
<1>r. content[s][n] \in RowKind /\ content[s][n].matches \in Nat
  <2>1. content[s] \in Seq(RowKind)  BY DEF ContentOK, Streams
  <2>2. content[s][n] \in RowKind  BY <2>1
  <2> QED  BY <2>2 DEF RowKind
<1>1. ASSUME NEW p \in own
      PROVE  p \in Pieces /\ p.s = s /\ p.row = n /\ RowOf(p) = content[s][n] /\ p.nth \in Nat \ {0}
  <2>1. p \in Pieces /\ p.s = s /\ p.row = n  BY <1>1
  <2> QED  BY <2>1, PieceIs DEF RowOf
<1>2. ASSUME NEW x \in 1 .. content[s][n].matches  PROVE \E p \in own : x \in Shown(p)
  <2>1. PICK i \in 1 .. Parts(content[s][n]) : (i - 1) * MaxMatches < x /\ x <= i * MaxMatches
    BY <1>r, PartsIs
  <2>2. PICK p : p = [s |-> s, row |-> n, nth |-> i]  OBVIOUS
  <2>3. p \in Pieces /\ p.s = s /\ p.row = n /\ p.nth = i  BY <2>2, PieceOf
  <2>4. x \in Shown(p)  BY <2>1, <2>3 DEF Shown, RowOf
  <2> QED  BY <2>3, <2>4
<1>3. \A p \in own : Shown(p) \subseteq 1 .. content[s][n].matches  BY <1>1 DEF Shown
<1>4. UNION {Shown(p) : p \in own} = 1 .. content[s][n].matches  BY <1>2, <1>3
<1>5. ASSUME NEW p \in own, NEW q \in own, p.nth < q.nth, NEW x \in Shown(p), x \in Shown(q)
      PROVE  FALSE
  <2>1. p.nth \in Nat /\ q.nth \in Nat \ {0} /\ q.nth - 1 \in Nat /\ p.nth <= q.nth - 1  BY <1>1, <1>5
  <2>2. x <= p.nth * MaxMatches /\ (q.nth - 1) * MaxMatches < x /\ x \in Nat
    BY <1>1, <1>5, <1>r DEF Shown
  <2>3. p.nth * MaxMatches <= (q.nth - 1) * MaxMatches /\ p.nth * MaxMatches \in Nat
        /\ (q.nth - 1) * MaxMatches \in Nat
    BY <1>m, <2>1, ProductGrows
  <2> QED  BY <2>2, <2>3
<1>6. ASSUME NEW p \in own, NEW q \in own, p # q  PROVE p.nth < q.nth \/ q.nth < p.nth
  <2>1. p = [s |-> s, row |-> n, nth |-> p.nth] /\ q = [s |-> s, row |-> n, nth |-> q.nth]
    BY <1>1, PieceIs
  <2>2. p.nth # q.nth  BY <1>6, <2>1
  <2> QED  BY <1>1, <2>2
<1>7. \A p, q \in own : p # q => Shown(p) \intersect Shown(q) = {}  BY <1>5, <1>6
<1> QED  BY <1>4, <1>7

\* Pieces have an order, and the next one comes first in it.
LEMMA PieceOrder ==
  ASSUME ContentOK
  PROVE  /\ \A p, q \in Pieces : p = q \/ Precedes(p, q) \/ Precedes(q, p)
         /\ \A p, q, r \in Pieces : Precedes(p, q) /\ Precedes(q, r) => Precedes(p, r)
         /\ \A p \in Pieces : ~Precedes(p, p)
<1>1. \A p \in Pieces : /\ p = [s |-> p.s, row |-> p.row, nth |-> p.nth]
                        /\ p.s \in Nat /\ p.row \in Nat /\ p.nth \in Nat
  BY PieceIs
<1>2. ASSUME NEW p \in Pieces, NEW q \in Pieces  PROVE p = q \/ Precedes(p, q) \/ Precedes(q, p)
  <2>1. p.s = q.s /\ p.row = q.row /\ p.nth = q.nth => p = q  BY <1>1
  <2>2. p.s \in Nat /\ p.row \in Nat /\ p.nth \in Nat /\ q.s \in Nat /\ q.row \in Nat /\ q.nth \in Nat
    BY <1>1
  <2> QED  BY <2>1, <2>2 DEF Precedes
<1>3. \A p, q, r \in Pieces : Precedes(p, q) /\ Precedes(q, r) => Precedes(p, r)  BY <1>1 DEF Precedes
<1>4. \A p \in Pieces : ~Precedes(p, p)  BY <1>1 DEF Precedes
<1> QED  BY <1>2, <1>3, <1>4

LEMMA NextIs ==
  ASSUME ContentOK, todo \in SUBSET Pieces, todo # {}
  PROVE  NextPiece \in todo /\ \A y \in todo : y = NextPiece \/ Precedes(NextPiece, y)
<1>1. \A p \in todo : p \in Pieces /\ p.s \in Nat /\ p.row \in Nat /\ p.nth \in Nat  BY PieceIs
<1>2. PICK s \in {p.s : p \in todo} : \A x \in {p.s : p \in todo} : s <= x
  <2>1. {p.s : p \in todo} \in SUBSET Nat /\ {p.s : p \in todo} # {}  BY <1>1
  <2> QED  BY <2>1, LeastOf
<1> DEFINE A == {p \in todo : p.s = s}
<1>3. PICK n \in {p.row : p \in A} : \A x \in {p.row : p \in A} : n <= x
  <2>1. {p.row : p \in A} \in SUBSET Nat /\ {p.row : p \in A} # {}  BY <1>1, <1>2
  <2> QED  BY <2>1, LeastOf
<1> DEFINE B == {p \in A : p.row = n}
<1>4. PICK i \in {p.nth : p \in B} : \A x \in {p.nth : p \in B} : i <= x
  <2>1. {p.nth : p \in B} \in SUBSET Nat /\ {p.nth : p \in B} # {}  BY <1>1, <1>3
  <2> QED  BY <2>1, LeastOf
<1>5. PICK p \in todo : p.s = s /\ p.row = n /\ p.nth = i  BY <1>4
<1>6. ASSUME NEW y \in todo  PROVE y = p \/ Precedes(p, y)
  <2>1. p.s <= y.s  BY <1>2, <1>5
  <2>2. y.s = p.s => p.row <= y.row  BY <1>3, <1>5
  <2>3. y.s = p.s /\ y.row = p.row => p.nth <= y.nth  BY <1>4, <1>5
  <2>4. ~Precedes(y, p)  BY <1>1, <2>1, <2>2, <2>3 DEF Precedes
  <2> QED  BY <1>1, <2>4, PieceOrder
<1> QED  BY <1>5, <1>6 DEF NextPiece

\* Envelopes: their pieces, how many bytes they have, and that they are in order.
Envelopes == [rows : [Streams -> Seq(Pieces)], bytes : Nat]
Body(c) == UNION {UNION {Encoded(c, s, j) : j \in 1 .. Len(c.rows[s])} : s \in Streams}
HeldBy(c, s) == {c.rows[s][j] : j \in 1 .. Len(c.rows[s])}

EnvelopeOK(c) ==
  /\ c \in Envelopes
  /\ IsFiniteSet(Body(c)) /\ c.bytes = EmptyBytes + Cardinality(Body(c)) /\ c.bytes <= MaxBytes
  /\ \A s \in Streams :
       /\ Len(c.rows[s]) <= MaxItems /\ \A p \in HeldBy(c, s) : p.s = s
       /\ \A j, k \in 1 .. Len(c.rows[s]) : j < k => Precedes(c.rows[s][j], c.rows[s][k])

Apart(c, d) == \A s \in DOMAIN c.rows : \A p \in HeldBy(c, s), q \in HeldBy(d, s) : Precedes(p, q)

LEMMA BlankIs ==
  ASSUME ContentOK, NEW c, c = Blank(Len(content))
  PROVE  EnvelopeOK(c) /\ c.bytes = EmptyBytes /\ (\A s \in Streams : c.rows[s] = <<>> /\ HeldBy(c, s) = {})
<1>1. c = [rows |-> [s \in Streams |-> <<>>], bytes |-> EmptyBytes]  BY DEF Blank, Streams
<1>2. c.bytes = EmptyBytes /\ \A s \in Streams : c.rows[s] = <<>> /\ Len(c.rows[s]) = 0  BY <1>1
<1>3. c \in Envelopes
  <2>1. EmptyBytes \in Nat  BY UploadAssumption
  <2>2. <<>> \in Seq(Pieces)  OBVIOUS
  <2> QED  BY <1>1, <2>1, <2>2 DEF Envelopes
<1>4. \A s \in Streams : 1 .. Len(c.rows[s]) = {}  BY <1>2
<1>5. Body(c) = {} /\ \A s \in Streams : HeldBy(c, s) = {}  BY <1>4 DEF Body, HeldBy
<1>6. IsFiniteSet({}) /\ Cardinality({}) = 0  BY FS_EmptySet
<1>7. EmptyBytes <= MaxBytes /\ EmptyBytes \in Nat /\ MaxItems \in Nat  BY UploadAssumption
<1>8. IsFiniteSet(Body(c)) /\ c.bytes = EmptyBytes + Cardinality(Body(c)) /\ c.bytes <= MaxBytes
  BY <1>2, <1>5, <1>6, <1>7
<1>9. \A s \in Streams : Len(c.rows[s]) <= MaxItems  BY <1>2, <1>7
<1> QED  BY <1>2, <1>3, <1>4, <1>5, <1>8, <1>9 DEF EnvelopeOK

\* What an envelope with one more piece holds.
LEMMA AddIs ==
  ASSUME ContentOK, NEW c \in Envelopes, NEW x \in Pieces, NEW d, d = Add(c, x)
  PROVE  /\ d \in Envelopes /\ d.bytes = c.bytes + Separator(c.rows[x.s]) + BytesOf(x)
         /\ Len(c.rows[x.s]) \in Nat
         /\ Len(d.rows[x.s]) = Len(c.rows[x.s]) + 1 /\ d.rows[x.s][Len(c.rows[x.s]) + 1] = x
         /\ \A j \in 1 .. Len(c.rows[x.s]) : d.rows[x.s][j] = c.rows[x.s][j]
         /\ \A s \in Streams : s # x.s => d.rows[s] = c.rows[s]
<1>1. x.s \in Streams /\ BytesOf(x) \in Nat  BY PieceIs
<1>2. c.rows \in [Streams -> Seq(Pieces)] /\ c.bytes \in Nat  BY DEF Envelopes
<1>t. PICK t \in Seq(Pieces) : t = c.rows[x.s]  BY <1>1, <1>2
<1>3. /\ Append(t, x) \in Seq(Pieces) /\ Len(t) \in Nat /\ Len(Append(t, x)) = Len(t) + 1
      /\ Append(t, x)[Len(t) + 1] = x /\ \A j \in 1 .. Len(t) : Append(t, x)[j] = t[j]
  OBVIOUS
<1>4. PICK u : u = Append(t, x)  OBVIOUS
<1>5. /\ d.rows = [c.rows EXCEPT ![x.s] = u]
      /\ d.bytes = c.bytes + Separator(c.rows[x.s]) + BytesOf(x)
      /\ d = [rows |-> d.rows, bytes |-> d.bytes]
  BY <1>t, <1>4 DEF Add
<1>6. Separator(c.rows[x.s]) \in Nat  BY DEF Separator
<1>7. d.rows \in [Streams -> Seq(Pieces)] /\ d.rows[x.s] = u  BY <1>1, <1>2, <1>3, <1>4, <1>5
<1>8. \A s \in Streams : s # x.s => d.rows[s] = c.rows[s]  BY <1>2, <1>5
<1>9. d.bytes \in Nat  BY <1>1, <1>2, <1>5, <1>6
<1>10. d \in Envelopes  BY <1>5, <1>7, <1>9 DEF Envelopes
<1> QED  BY <1>t, <1>3, <1>4, <1>5, <1>7, <1>8, <1>10

LEMMA AddHolds ==
  ASSUME ContentOK, NEW c \in Envelopes, NEW x \in Pieces, NEW d, d = Add(c, x)
  PROVE  /\ HeldBy(d, x.s) = HeldBy(c, x.s) \union {x}
         /\ \A s \in Streams : s # x.s => HeldBy(d, s) = HeldBy(c, s)
<1>1. PICK n \in Nat : n = Len(c.rows[x.s])  BY AddIs
<1>2. 1 .. n + 1 = (1 .. n) \union {n + 1}  OBVIOUS
<1>3. /\ Len(d.rows[x.s]) = n + 1 /\ d.rows[x.s][n + 1] = x
      /\ \A j \in 1 .. n : d.rows[x.s][j] = c.rows[x.s][j]
      /\ \A s \in Streams : s # x.s => d.rows[s] = c.rows[s]
  <2>1. /\ Len(d.rows[x.s]) = Len(c.rows[x.s]) + 1 /\ d.rows[x.s][Len(c.rows[x.s]) + 1] = x
        /\ \A j \in 1 .. Len(c.rows[x.s]) : d.rows[x.s][j] = c.rows[x.s][j]
        /\ \A s \in Streams : s # x.s => d.rows[s] = c.rows[s]
    BY AddIs
  <2> QED  BY <1>1, <2>1, Zenon
<1>4. HeldBy(d, x.s) = {d.rows[x.s][j] : j \in (1 .. n) \union {n + 1}}  BY <1>2, <1>3 DEF HeldBy
<1>5. HeldBy(c, x.s) = {c.rows[x.s][j] : j \in 1 .. n}  BY <1>1 DEF HeldBy
<1>6. HeldBy(d, x.s) = HeldBy(c, x.s) \union {x}
  <2>1. PICK t, u : t = c.rows[x.s] /\ u = d.rows[x.s]  OBVIOUS
  <2>2. u[n + 1] = x /\ \A j \in 1 .. n : u[j] = t[j]  BY <1>3, <2>1
  <2>3. {u[j] : j \in (1 .. n) \union {n + 1}} = {t[j] : j \in 1 .. n} \union {x}  BY <2>2
  <2>4. HeldBy(d, x.s) = {u[j] : j \in (1 .. n) \union {n + 1}}  BY <1>4, <2>1
  <2>5. HeldBy(c, x.s) = {t[j] : j \in 1 .. n}  BY <1>5, <2>1
  <2> QED  BY <2>3, <2>4, <2>5, Zenon
<1>7. \A s \in Streams : s # x.s => HeldBy(d, s) = HeldBy(c, s)  BY <1>3 DEF HeldBy
<1> QED  BY <1>6, <1>7

\* Its bytes are those it had and those of the piece, with a comma before it.
LEMMA AddWeighs ==
  ASSUME ContentOK, NEW c \in Envelopes, IsFiniteSet(Body(c)), NEW x \in Pieces, NEW d, d = Add(c, x)
  PROVE  /\ IsFiniteSet(Body(d))
         /\ Cardinality(Body(d)) = Cardinality(Body(c)) + Separator(c.rows[x.s]) + BytesOf(x)
<1>1. PICK n \in Nat : n = Len(c.rows[x.s])  BY AddIs
<1>3. /\ Len(d.rows[x.s]) = n + 1 /\ d.rows[x.s][n + 1] = x
      /\ \A j \in 1 .. n : d.rows[x.s][j] = c.rows[x.s][j]
      /\ \A s \in Streams : s # x.s => d.rows[s] = c.rows[s]
  <2>1. /\ Len(d.rows[x.s]) = Len(c.rows[x.s]) + 1 /\ d.rows[x.s][Len(c.rows[x.s]) + 1] = x
        /\ \A j \in 1 .. Len(c.rows[x.s]) : d.rows[x.s][j] = c.rows[x.s][j]
        /\ \A s \in Streams : s # x.s => d.rows[s] = c.rows[s]
    BY AddIs
  <2> QED  BY <1>1, <2>1, Zenon
<1>0. x.s \in Streams /\ BytesOf(x) \in Nat  BY PieceIs
<1>s. Separator(c.rows[x.s]) = (IF n + 1 = 1 THEN 0 ELSE 1)
  <2>1. c.rows[x.s] \in Seq(Pieces)  BY <1>0 DEF Envelopes
  <2>2. c.rows[x.s] = <<>> <=> n = 0  BY <1>1, <2>1
  <2> QED  BY <2>2 DEF Separator
<1>m. PICK m \in Nat : m = BytesOf(x) + (IF n + 1 = 1 THEN 0 ELSE 1)  BY <1>0
<1>2. PICK e : e = <<x.s, n + 1>>  OBVIOUS
<1> DEFINE N == {e} \X (1 .. m)
<1>4. Encoded(d, x.s, n + 1) = N  BY <1>2, <1>3, <1>m DEF Encoded
<1>5. \A j \in 1 .. n : Encoded(d, x.s, j) = Encoded(c, x.s, j)  BY <1>3 DEF Encoded
<1>6. \A s \in Streams : s # x.s => \A j : Encoded(d, s, j) = Encoded(c, s, j)  BY <1>3 DEF Encoded
<1>7. 1 .. n + 1 = (1 .. n) \union {n + 1}  OBVIOUS
<1> DEFINE Of(f, s) == UNION {Encoded(f, s, j) : j \in 1 .. Len(f.rows[s])}
<1>8. Of(d, x.s) = Of(c, x.s) \union N
  <2>1. Of(d, x.s) = UNION {Encoded(d, x.s, j) : j \in (1 .. n) \union {n + 1}}  BY <1>3, <1>7
  <2>2. Of(c, x.s) = UNION {Encoded(c, x.s, j) : j \in 1 .. n}  BY <1>1
  <2> HIDE DEF N
  <2> QED  BY <1>4, <1>5, <2>1, <2>2
<1>9. \A s \in Streams : s # x.s => Of(d, s) = Of(c, s)  BY <1>3, <1>6
<1>10. Body(d) = Body(c) \union N
  <2>1. Body(d) = UNION {Of(d, s) : s \in Streams} /\ Body(c) = UNION {Of(c, s) : s \in Streams}
    BY DEF Body
  <2> HIDE DEF N, Of
  <2> QED  BY <1>0, <1>8, <1>9, <2>1
<1>11. Body(c) \intersect N = {}
  <2>1. ASSUME NEW b \in Body(c)  PROVE b \notin N
    <3>1. PICK s \in Streams : \E j \in 1 .. Len(c.rows[s]) : b \in Encoded(c, s, j)  BY DEF Body
    <3>4. PICK j \in 1 .. Len(c.rows[s]) : b \in Encoded(c, s, j)  BY <3>1
    <3>2. b[1] = <<s, j>>  BY <3>4 DEF Encoded
    <3>3. <<s, j>> # e  BY <1>1, <1>2, <3>4
    <3> QED  BY <3>2, <3>3
  <2> QED  BY <2>1
<1>12. IsFiniteSet(N) /\ Cardinality(N) = m
  <2>1. IsFiniteSet(1 .. m) /\ Cardinality(1 .. m) = m  BY CountUpTo
  <2>2. IsFiniteSet({e}) /\ Cardinality({e}) = 1  BY FS_Singleton
  <2>3. IsFiniteSet(N) /\ Cardinality(N) = Cardinality({e}) * Cardinality(1 .. m)
    BY <2>1, <2>2, FS_Product, Zenon
  <2> HIDE DEF N
  <2>4. Cardinality(N) = 1 * m  BY <2>1, <2>2, <2>3, Zenon
  <2> QED  BY <2>3, <2>4
<1>13. Cardinality(Body(c) \intersect N) = 0  BY <1>11, FS_EmptySet
<1>14. Cardinality(Body(c)) \in Nat  BY FS_CardinalityType
<1> HIDE DEF N, Of
<1>15. /\ IsFiniteSet(Body(c) \union N)
       /\ Cardinality(Body(c) \union N)
            = Cardinality(Body(c)) + Cardinality(N) - Cardinality(Body(c) \intersect N)
  BY <1>12, FS_Union
<1>16. Cardinality(Body(d)) = Cardinality(Body(c)) + m  BY <1>10, <1>12, <1>13, <1>14, <1>15
<1> QED  BY <1>0, <1>10, <1>14, <1>15, <1>16, <1>m, <1>s

LEMMA AddOK ==
  ASSUME ContentOK, NEW c, EnvelopeOK(c), NEW x \in Pieces, NEW d, d = Add(c, x),
         Len(c.rows[x.s]) < MaxItems, c.bytes + Separator(c.rows[x.s]) + BytesOf(x) <= MaxBytes,
         \A p \in HeldBy(c, x.s) : Precedes(p, x)
  PROVE  EnvelopeOK(d)
<1>0. c \in Envelopes /\ IsFiniteSet(Body(c)) /\ c.bytes = EmptyBytes + Cardinality(Body(c))  BY DEF EnvelopeOK
<1>1. /\ d \in Envelopes /\ d.bytes = c.bytes + Separator(c.rows[x.s]) + BytesOf(x)
      /\ \A s \in Streams : s # x.s => d.rows[s] = c.rows[s]
  BY <1>0, AddIs
<1>2. IsFiniteSet(Body(d)) /\ d.bytes = EmptyBytes + Cardinality(Body(d)) /\ d.bytes <= MaxBytes
  <2>1. /\ IsFiniteSet(Body(d))
        /\ Cardinality(Body(d)) = Cardinality(Body(c)) + Separator(c.rows[x.s]) + BytesOf(x)
    BY <1>0, AddWeighs
  <2>2. Cardinality(Body(c)) \in Nat /\ EmptyBytes \in Nat /\ BytesOf(x) \in Nat /\ Separator(c.rows[x.s]) \in Nat
    BY <1>0, FS_CardinalityType, UploadAssumption, PieceIs DEF Separator
  <2> QED  BY <1>0, <1>1, <2>1, <2>2
<1>3. PICK n \in Nat : n = Len(c.rows[x.s])  BY <1>0, AddIs
<1>4. /\ Len(d.rows[x.s]) = n + 1 /\ d.rows[x.s][n + 1] = x
      /\ \A j \in 1 .. n : d.rows[x.s][j] = c.rows[x.s][j]
  BY <1>0, <1>3, AddIs
<1>5. ASSUME NEW s \in Streams
      PROVE  /\ Len(d.rows[s]) <= MaxItems /\ \A p \in HeldBy(d, s) : p.s = s
             /\ \A j, k \in 1 .. Len(d.rows[s]) : j < k => Precedes(d.rows[s][j], d.rows[s][k])
  <2>0. /\ Len(c.rows[s]) <= MaxItems /\ \A p \in HeldBy(c, s) : p.s = s
        /\ \A j, k \in 1 .. Len(c.rows[s]) : j < k => Precedes(c.rows[s][j], c.rows[s][k])
    BY DEF EnvelopeOK
  <2>1. CASE s # x.s
    <3>1. d.rows[s] = c.rows[s] /\ HeldBy(d, s) = HeldBy(c, s)  BY <1>0, <1>1, <2>1, AddHolds
    <3> QED  BY <2>0, <3>1
  <2>2. CASE s = x.s
    <3>1. Len(d.rows[s]) <= MaxItems
      <4>1. MaxItems \in Nat  BY UploadAssumption
      <4>2. n < MaxItems /\ Len(d.rows[s]) = n + 1  BY <1>3, <1>4, <2>2
      <4> QED  BY <4>1, <4>2
    <3>2. \A p \in HeldBy(d, s) : p.s = s
      <4>1. HeldBy(d, x.s) = HeldBy(c, x.s) \union {x}  BY <1>0, AddHolds
      <4> QED  BY <2>0, <2>2, <4>1
    <3>3. ASSUME NEW j \in 1 .. n + 1, NEW k \in 1 .. n + 1, j < k
          PROVE  Precedes(d.rows[s][j], d.rows[s][k])
      <4>1. j \in 1 .. n /\ d.rows[s][j] = c.rows[s][j]  BY <1>4, <2>2, <3>3
      <4>2. CASE k = n + 1
        <5>1. d.rows[s][k] = x /\ c.rows[s][j] \in HeldBy(c, x.s)  BY <1>3, <1>4, <2>2, <4>1, <4>2 DEF HeldBy
        <5> QED  BY <4>1, <5>1
      <4>3. CASE k # n + 1
        <5>1. k \in 1 .. n /\ d.rows[s][k] = c.rows[s][k]  BY <1>4, <2>2, <3>3, <4>3
        <5> QED  BY <1>3, <2>0, <2>2, <3>3, <4>1, <5>1
      <4> QED  BY <4>2, <4>3
    <3> QED  BY <1>4, <2>2, <3>1, <3>2, <3>3
  <2> QED  BY <2>1, <2>2
<1> QED  BY <1>1, <1>2, <1>5 DEF EnvelopeOK

\* Envelopes C and c hold what is not in T: every piece before T, in order.
PackOK(C, c, T) ==
  /\ T \in SUBSET Pieces /\ EnvelopeOK(c)
  /\ C \in Seq(Envelopes) /\ \A i \in 1 .. Len(C) : EnvelopeOK(C[i]) /\ Apart(C[i], c)
  /\ \A i, j \in 1 .. Len(C) : i < j => Apart(C[i], C[j])
  /\ \A p \in Pieces \ T : p \in HeldBy(c, p.s) \/ \E i \in 1 .. Len(C) : p \in HeldBy(C[i], p.s)
  /\ \A y \in T, s \in Streams : \A p \in HeldBy(c, s) : Precedes(p, y)
  /\ \A y \in T, s \in Streams : \A i \in 1 .. Len(C) : \A p \in HeldBy(C[i], s) : Precedes(p, y)

\* Envelopes C hold the artifact.
SplitOK(C) ==
  /\ C \in Seq(Envelopes) /\ C # <<>> /\ \A i \in 1 .. Len(C) : EnvelopeOK(C[i])
  /\ \A i, j \in 1 .. Len(C) : i < j => Apart(C[i], C[j])
  /\ \A p \in Pieces : \E i \in 1 .. Len(C) : p \in HeldBy(C[i], p.s)

LEMMA SameContent ==
  ASSUME content' = content
  PROVE  /\ Pieces' = Pieces /\ (ContentOK' <=> ContentOK)
         /\ \A C, c, T : PackOK(C, c, T)' <=> PackOK(C, c, T)
         /\ \A C : SplitOK(C)' <=> SplitOK(C)
<1>1. Pieces' = Pieces /\ Streams' = Streams  BY DEF Pieces, Streams
<1>2. \A c : EnvelopeOK(c)' <=> EnvelopeOK(c)
  BY <1>1 DEF EnvelopeOK, Envelopes, Body, HeldBy, Encoded, BytesOf, RowOf, Shown, Precedes
<1>3. Envelopes' = Envelopes  BY <1>1 DEF Envelopes
<1>4. ASSUME NEW C, NEW c, NEW T  PROVE PackOK(C, c, T)' <=> PackOK(C, c, T)
  <2>2. \A i \in 1 .. Len(C) : EnvelopeOK(C[i])' <=> EnvelopeOK(C[i])  BY <1>2
  <2> QED  BY <1>1, <1>2, <1>3, <2>2 DEF PackOK
<1>5. \A C : SplitOK(C)' <=> SplitOK(C)  BY <1>1, <1>2, <1>3 DEF SplitOK, Apart, HeldBy, Precedes
<1> QED  BY <1>1, <1>4, <1>5 DEF ContentOK

LEMMA RowsOf ==
  ASSUME NEW c, EnvelopeOK(c)
  PROVE  /\ c \in Envelopes /\ DOMAIN c.rows = Streams
         /\ \A s \in Streams : /\ c.rows[s] \in Seq(Pieces) /\ HeldBy(c, s) \subseteq Pieces
                               /\ c.rows[s] = <<>> => HeldBy(c, s) = {}
<1>1. c \in Envelopes /\ c.rows \in [Streams -> Seq(Pieces)]  BY DEF EnvelopeOK, Envelopes
<1>2. ASSUME NEW s \in Streams
      PROVE  /\ c.rows[s] \in Seq(Pieces) /\ HeldBy(c, s) \subseteq Pieces
             /\ c.rows[s] = <<>> => HeldBy(c, s) = {}
  <2>1. PICK t \in Seq(Pieces) : t = c.rows[s]  BY <1>1
  <2>2. HeldBy(c, s) = {t[j] : j \in 1 .. Len(t)}  BY <2>1 DEF HeldBy
  <2>3. t = <<>> => 1 .. Len(t) = {}  OBVIOUS
  <2>4. \A j \in 1 .. Len(t) : t[j] \in Pieces  OBVIOUS
  <2> QED  BY <2>1, <2>2, <2>3, <2>4
<1> QED  BY <1>1, <1>2

\* What Append leaves and adds.
LEMMA AppendIs ==
  ASSUME NEW S, NEW C \in Seq(S), NEW c \in S, NEW D, D = Append(C, c)
  PROVE  /\ D \in Seq(S) /\ Len(C) \in Nat /\ Len(D) = Len(C) + 1 /\ D[Len(C) + 1] = c
         /\ \A i \in 1 .. Len(C) : D[i] = C[i]
         /\ 1 .. Len(D) = (1 .. Len(C)) \union {Len(C) + 1}
OBVIOUS

\* A full envelope is put with the others; an empty one is not.
LEMMA FlushOK ==
  ASSUME ContentOK, NEW T, PackOK(chunks, part, T), NEW D, D = Flushed(part),
         NEW b, b = Blank(Len(content))
  PROVE  /\ PackOK(D, b, T)
         /\ D = <<>> => chunks = <<>> /\ \A s \in Streams : HeldBy(part, s) = {}
<1>b. EnvelopeOK(b) /\ \A s \in Streams : HeldBy(b, s) = {}  BY BlankIs
<1>p. EnvelopeOK(part) /\ part \in Envelopes /\ DOMAIN part.rows = Streams  BY RowsOf DEF PackOK
<1>c. chunks \in Seq(Envelopes) /\ \A i \in 1 .. Len(chunks) : EnvelopeOK(chunks[i]) /\ DOMAIN chunks[i].rows = Streams
  BY RowsOf DEF PackOK
<1>1. CASE \A s \in Streams : part.rows[s] = <<>>
  <2>1. D = chunks  BY <1>1 DEF Flushed
  <2>2. \A s \in Streams : HeldBy(part, s) = {}  BY <1>1, <1>p, RowsOf
  <2>3. \A i \in 1 .. Len(chunks) : Apart(chunks[i], b)  BY <1>b, <1>c DEF Apart
  <2>4. \A p \in Pieces \ T : \E i \in 1 .. Len(chunks) : p \in HeldBy(chunks[i], p.s)
    BY <2>2, PieceIs DEF PackOK
  <2>5. PackOK(D, b, T)  BY <1>b, <2>1, <2>3, <2>4 DEF PackOK
  <2> QED  BY <2>1, <2>2, <2>5
<1>2. CASE ~(\A s \in Streams : part.rows[s] = <<>>)
  <2>0. D = Append(chunks, part)  BY <1>2 DEF Flushed
  <2>n. PICK n \in Nat : n = Len(chunks)  BY <1>c
  <2>1. /\ D \in Seq(Envelopes) /\ D[n + 1] = part /\ \A i \in 1 .. n : D[i] = chunks[i]
        /\ 1 .. Len(D) = (1 .. n) \union {n + 1}
    BY <1>c, <1>p, <2>0, <2>n, AppendIs
  <2>2. \A i \in 1 .. Len(D) : EnvelopeOK(D[i]) /\ DOMAIN D[i].rows = Streams  BY <1>c, <1>p, <2>1, <2>n
  <2>3. \A i \in 1 .. Len(D) : Apart(D[i], b)  BY <1>b, <2>2 DEF Apart
  <2>4. \A i, j \in 1 .. Len(D) : i < j => Apart(D[i], D[j])
    <3>1. \A i, j \in 1 .. n : i < j => Apart(chunks[i], chunks[j])  BY <2>n DEF PackOK
    <3>2. \A i \in 1 .. n : Apart(chunks[i], part)  BY <2>n DEF PackOK
    <3>3. \A i, j \in (1 .. n) \union {n + 1} : i < j => i \in 1 .. n  BY <2>n
    <3> QED  BY <2>1, <3>1, <3>2, <3>3
  <2>5. \A p \in Pieces \ T : \E i \in 1 .. Len(D) : p \in HeldBy(D[i], p.s)
    <3>1. \A p \in Pieces \ T : p \in HeldBy(part, p.s) \/ \E i \in 1 .. n : p \in HeldBy(chunks[i], p.s)
      BY <2>n DEF PackOK
    <3> QED  BY <2>1, <3>1
  <2>6. \A y \in T, s \in Streams : \A i \in 1 .. Len(D) : \A p \in HeldBy(D[i], s) : Precedes(p, y)
    <3>1. /\ \A y \in T, s \in Streams : \A p \in HeldBy(part, s) : Precedes(p, y)
          /\ \A y \in T, s \in Streams : \A i \in 1 .. n : \A p \in HeldBy(chunks[i], s) : Precedes(p, y)
      BY <2>n DEF PackOK
    <3> QED  BY <2>1, <3>1
  <2>7. T \in SUBSET Pieces  BY DEF PackOK
  <2>8. PackOK(D, b, T)  BY <1>b, <2>1, <2>2, <2>3, <2>4, <2>5, <2>6, <2>7 DEF PackOK
  <2>9. D # <<>>  BY <2>1, <2>n
  <2> QED  BY <2>8, <2>9
<1> QED  BY <1>1, <1>2

\* The next piece goes into an envelope with room for it.
LEMMA PutOK ==
  ASSUME ContentOK, NEW C, NEW c, NEW T, PackOK(C, c, T), NEW x \in T,
         \A y \in T : y = x \/ Precedes(x, y),
         Len(c.rows[x.s]) < MaxItems, c.bytes + Separator(c.rows[x.s]) + BytesOf(x) <= MaxBytes,
         NEW d, d = Add(c, x)
  PROVE  PackOK(C, d, T \ {x})
<1>0. EnvelopeOK(c) /\ c \in Envelopes /\ x \in Pieces /\ T \in SUBSET Pieces  BY RowsOf DEF PackOK
<1>x. x.s \in Streams  BY <1>0, PieceIs
<1>1. HeldBy(d, x.s) = HeldBy(c, x.s) \union {x} /\ \A s \in Streams : s # x.s => HeldBy(d, s) = HeldBy(c, s)
  BY <1>0, AddHolds
<1>2. \A p \in HeldBy(c, x.s) : Precedes(p, x)  BY <1>x DEF PackOK
<1>3. EnvelopeOK(d)  BY <1>0, <1>2, AddOK
<1>4. ASSUME NEW i \in 1 .. Len(C)  PROVE EnvelopeOK(C[i]) /\ Apart(C[i], d)
  <2>1. EnvelopeOK(C[i]) /\ Apart(C[i], c) /\ \A p \in HeldBy(C[i], x.s) : Precedes(p, x)  BY <1>x DEF PackOK
  <2>2. DOMAIN C[i].rows = Streams  BY <2>1, RowsOf
  <2> QED  BY <1>1, <2>1, <2>2 DEF Apart
<1>5. ASSUME NEW p \in Pieces \ (T \ {x})
      PROVE  p \in HeldBy(d, p.s) \/ \E i \in 1 .. Len(C) : p \in HeldBy(C[i], p.s)
  <2>1. CASE p = x  BY <1>1, <2>1
  <2>2. CASE p # x
    <3>1. p \in HeldBy(c, p.s) \/ \E i \in 1 .. Len(C) : p \in HeldBy(C[i], p.s)  BY <2>2 DEF PackOK
    <3>2. p.s \in Streams  BY PieceIs
    <3> QED  BY <1>1, <3>1, <3>2
  <2> QED  BY <2>1, <2>2
<1>6. \A y \in T \ {x}, s \in Streams : \A p \in HeldBy(d, s) : Precedes(p, y)
  <2>1. \A y \in T \ {x} : Precedes(x, y)  OBVIOUS
  <2>2. \A y \in T, s \in Streams : \A p \in HeldBy(c, s) : Precedes(p, y)  BY DEF PackOK
  <2> QED  BY <1>1, <2>1, <2>2
<1> QED  BY <1>0, <1>3, <1>4, <1>5, <1>6 DEF PackOK

\* Envelopes that hold the artifact are a split without loss.
LEMMA SplitIs ==
  ASSUME ContentOK, SplitOK(chunks)
  PROVE  SplitIsLossless
<1>1. ASSUME NEW i \in Numbers
      PROVE  Serialised(chunks[i]) <= MaxBytes /\ \A s \in Streams : Len(chunks[i].rows[s]) <= MaxItems
  <2>1. PICK c : c = chunks[i]  OBVIOUS
  <2>2. EnvelopeOK(c)  BY <2>1 DEF SplitOK, Numbers
  <2>3. Serialised(c) = EmptyBytes + Cardinality(Body(c))  BY DEF Serialised, Body
  <2> QED  BY <2>1, <2>2, <2>3 DEF EnvelopeOK
<1>2. ASSUME NEW s \in Streams, NEW x \in Slots(s)
      PROVE  /\ x[1] \in Numbers /\ x[2] \in 1 .. Len(chunks[x[1]].rows[s])
             /\ InSlot(s, x) \in HeldBy(chunks[x[1]], s)
  BY DEF Slots, InSlot, HeldBy
<1>3. ASSUME NEW s \in Streams  PROVE {InSlot(s, x) : x \in Slots(s)} = {p \in Pieces : p.s = s}
  <2>1. ASSUME NEW x \in Slots(s)  PROVE InSlot(s, x) \in Pieces /\ InSlot(s, x).s = s
    <3>1. PICK c : c = chunks[x[1]]  OBVIOUS
    <3>2. EnvelopeOK(c) /\ InSlot(s, x) \in HeldBy(c, s)  BY <1>2, <3>1 DEF SplitOK, Numbers
    <3> QED  BY <3>2, RowsOf DEF EnvelopeOK
  <2>2. ASSUME NEW p \in Pieces, p.s = s  PROVE \E x \in Slots(s) : p = InSlot(s, x)
    <3>1. PICK i \in Numbers : p \in HeldBy(chunks[i], s)  BY <2>2 DEF SplitOK, Numbers
    <3>2. PICK j \in 1 .. Len(chunks[i].rows[s]) : p = chunks[i].rows[s][j]  BY <3>1 DEF HeldBy
    <3>3. <<i, j>> \in Slots(s) /\ p = InSlot(s, <<i, j>>)  BY <3>2 DEF Slots, InSlot
    <3> QED  BY <3>3
  <2> QED  BY <2>1, <2>2
<1>4. ASSUME NEW s \in Streams, NEW x \in Slots(s), NEW y \in Slots(s), Earlier(x, y)
      PROVE  Precedes(InSlot(s, x), InSlot(s, y))
  <2>1. CASE x[1] < y[1]
    <3>1. Apart(chunks[x[1]], chunks[y[1]])  BY <1>2, <2>1 DEF SplitOK, Numbers
    <3>2. PICK c : c = chunks[x[1]]  OBVIOUS
    <3>3. EnvelopeOK(c)  BY <1>2, <3>2 DEF SplitOK, Numbers
    <3>4. s \in DOMAIN chunks[x[1]].rows  BY <3>2, <3>3, RowsOf
    <3> QED  BY <1>2, <3>1, <3>4 DEF Apart
  <2>2. CASE x[1] = y[1] /\ x[2] < y[2]
    <3>1. PICK c : c = chunks[x[1]]  OBVIOUS
    <3>2. EnvelopeOK(c)  BY <1>2, <3>1 DEF SplitOK, Numbers
    <3>3. x[2] \in 1 .. Len(c.rows[s]) /\ y[2] \in 1 .. Len(c.rows[s])  BY <1>2, <2>2, <3>1
    <3>4. Precedes(c.rows[s][x[2]], c.rows[s][y[2]])  BY <2>2, <3>2, <3>3 DEF EnvelopeOK
    <3> QED  BY <2>2, <3>1, <3>4 DEF InSlot
  <2> QED  BY <1>4, <2>1, <2>2 DEF Earlier
<1>5. ASSUME NEW s \in Streams, NEW n \in 1 .. Len(content[s]),
             NEW own, own = {p \in Pieces : p.s = s /\ p.row = n}
      PROVE  /\ UNION {Shown(p) : p \in own} = 1 .. content[s][n].matches
             /\ \A p, q \in own : p # q => Shown(p) \intersect Shown(q) = {}
  BY <1>5, MatchesOnce
<1> QED  BY <1>1, <1>3, <1>4, <1>5 DEF SplitIsLossless

\* What Form and the ledger of Analyzer know of an upload.
Answers == {"pending", "complete", "partial"}

LedgerInv ==
  /\ task \in [Numbers -> Answers \union {"absent"}] /\ stored \in SUBSET Numbers
  /\ acks \in Seq(Answers) /\ Len(acks) <= Len(chunks) /\ derived \in Answers
  /\ \A i \in Numbers : task[i] \in {"complete", "partial"} => i \in stored
  /\ \A i \in 1 .. Len(acks) : i \in stored \/ task[i] = "pending"
  /\ ~pruned => \A i \in 1 .. Len(acks) : task[i] # "absent" /\ (acks[i] # "pending" => task[i] = acks[i])
  /\ phase # "accepted" => derived = "pending"
  /\ phase = "accepted" => Len(acks) = Len(chunks)
  /\ phase = "accepted" /\ derived # "pending" /\ ~pruned =>
       /\ derived = Worst({task[i] : i \in Numbers})
       /\ \A i \in Numbers : task[i] \in {"complete", "partial"}

Unsent == task = <<>> /\ stored = {} /\ acks = <<>> /\ derived = "pending" /\ pruned = FALSE

PackInv == \A C \in {chunks}, c \in {part}, T \in {todo} : PackOK(C, c, T)
SplitInv == \A C \in {chunks} : SplitOK(C)

UploadInv ==
  /\ ContentOK
  /\ \/ phase = "pack" /\ PackInv /\ Unsent
     \/ phase = "refused" /\ EmptyBytes + BytesOf(NextPiece) > MaxBytes /\ Unsent
     \/ phase \in {"send", "accepted", "failed"} /\ SplitInv /\ LedgerInv

\* The worst of some answers is pending when one of them is.
LEMMA WorstIs ==
  ASSUME NEW S \in SUBSET Answers, S # {}
  PROVE  Worst(S) \in S /\ (Worst(S) # "pending" => "pending" \notin S)
<1>1. /\ Rank("pending") = 2 /\ Rank("partial") = 1 /\ Rank("complete") = 0
      /\ \A x \in S : x \in {"pending", "partial", "complete"}
  BY DEF Rank, Answers
<1>2. \E x \in S : \A y \in S : Rank(y) <= Rank(x)
  <2>1. CASE "pending" \in S  BY <1>1, <2>1
  <2>2. CASE "pending" \notin S /\ "partial" \in S  BY <1>1, <2>2
  <2>3. CASE "pending" \notin S /\ "partial" \notin S
    <3>1. "complete" \in S /\ \A y \in S : y = "complete"  BY <1>1, <2>3
    <3> QED  BY <1>1, <3>1
  <2> QED  BY <2>1, <2>2, <2>3
<1>3. Worst(S) \in S /\ \A y \in S : Rank(y) <= Rank(Worst(S))  BY <1>2 DEF Worst
<1>4. ASSUME "pending" \in S, Worst(S) # "pending"  PROVE FALSE
  <2>1. Rank(Worst(S)) \in {0, 1}  BY <1>1, <1>3, <1>4
  <2> QED  BY <1>1, <1>3, <1>4, <2>1
<1> QED  BY <1>3, <1>4

LEMMA UploadInitInv == UploadInit => UploadInv
<1> SUFFICES ASSUME UploadInit  PROVE UploadInv
  OBVIOUS
<1>1. ContentOK  BY UploadAssumption DEF UploadInit, ContentOK, RowKind
<1>2. phase = "pack" /\ Unsent  BY DEF UploadInit, Unsent
<1>3. PICK c : c = part  OBVIOUS
<1>4. EnvelopeOK(c) /\ \A s \in Streams : HeldBy(c, s) = {}  BY <1>1, <1>3, BlankIs DEF UploadInit
<1>5. PackOK(<<>>, c, Pieces)  BY <1>4 DEF PackOK
<1>6. chunks = <<>> /\ todo = Pieces  BY DEF UploadInit
<1>7. PackInv  BY <1>3, <1>5, <1>6 DEF PackInv
<1> QED  BY <1>1, <1>2, <1>7 DEF UploadInv

LEMMA PackNextKeeps ==
  ASSUME UploadInv, PackNext
  PROVE  UploadInv'
<1>0. ContentOK /\ phase = "pack" /\ PackInv /\ Unsent /\ todo # {}  BY DEF PackNext, UploadInv
<1>1. UNCHANGED <<content, posts, acks, task, stored, derived, pruned>>  BY DEF PackNext
<1>2. ContentOK' /\ Unsent'  BY <1>0, <1>1, SameContent DEF Unsent
<1>3. PackOK(chunks, part, todo)  BY <1>0 DEF PackInv
<1>4. PICK x : x = NextPiece  OBVIOUS
<1>5. todo \in SUBSET Pieces  BY <1>3 DEF PackOK
<1>6. x \in todo /\ x \in Pieces /\ \A y \in todo : y = x \/ Precedes(x, y)  BY <1>0, <1>4, <1>5, NextIs
<1>7. BytesOf(x) \in Nat /\ x.s \in Streams  BY <1>0, <1>6, PieceIs
<1>b. PICK b : b = Blank(Len(content))  OBVIOUS
<1>8. EnvelopeOK(b) /\ b.bytes = EmptyBytes /\ \A s \in Streams : b.rows[s] = <<>>  BY <1>0, <1>b, BlankIs
<1>9. EmptyBytes \in Nat /\ MaxBytes \in Nat /\ MaxItems \in Nat \ {0}  BY UploadAssumption
<1>10. EnvelopeOK(part) /\ part.bytes \in Nat /\ Len(part.rows[x.s]) \in Nat
  <2>1. EnvelopeOK(part)  BY <1>3 DEF PackOK
  <2>2. part \in Envelopes /\ part.rows[x.s] \in Seq(Pieces)  BY <1>7, <2>1, RowsOf
  <2> QED  BY <2>1, <2>2 DEF Envelopes
<1>11. ASSUME NEW C, NEW c, PackOK(C, c, todo), chunks' = C, phase' = "pack",
              part' = Add(c, x), todo' = todo \ {x}, Len(c.rows[x.s]) < MaxItems,
              c.bytes + Separator(c.rows[x.s]) + BytesOf(x) <= MaxBytes
       PROVE  UploadInv'
  <2>1. PICK d, T : d = Add(c, x) /\ T = todo \ {x}  OBVIOUS
  <2>2. PackOK(C, d, T)  BY <1>0, <1>6, <1>11, <2>1, PutOK
  <2>3. PackOK(C, d, T)'  BY <1>1, <2>2, SameContent
  <2>4. PackInv'  BY <1>11, <2>1, <2>3 DEF PackInv
  <2> QED  BY <1>2, <1>11, <2>4 DEF UploadInv
<1>12. CASE ~Exceeds(part, x)
  <2>1. Len(part.rows[x.s]) < MaxItems /\ part.bytes + Separator(part.rows[x.s]) + BytesOf(x) <= MaxBytes
    <3>1. Separator(part.rows[x.s]) \in Nat  BY DEF Separator
    <3> QED  BY <1>7, <1>9, <1>10, <1>12, <3>1 DEF Exceeds
  <2>2. ~(part.bytes + BytesOf(x) > MaxBytes)
    <3>1. Separator(part.rows[x.s]) \in Nat  BY DEF Separator
    <3> QED  BY <1>7, <1>9, <1>10, <2>1, <3>1
  <2>3. chunks' = chunks /\ part' = Add(part, x) /\ todo' = todo \ {x} /\ phase' = "pack"
    BY <1>0, <1>4, <1>12, <2>2 DEF PackNext
  <2> QED  BY <1>3, <1>11, <2>1, <2>3
<1>13. CASE Exceeds(part, x)
  <2>1. PICK D : D = Flushed(part)  OBVIOUS
  <2>2. chunks' = D  BY <1>4, <1>13, <2>1 DEF PackNext
  <2>3. CASE EmptyBytes + BytesOf(x) > MaxBytes
    <3>1. phase' = "refused" /\ UNCHANGED <<todo, part>>
      BY <1>4, <1>8, <1>13, <1>b, <2>3 DEF PackNext
    <3>2. (EmptyBytes + BytesOf(NextPiece) > MaxBytes)'
      BY <1>1, <1>4, <2>3, <3>1 DEF NextPiece, BytesOf, RowOf, Shown
    <3> QED  BY <1>2, <3>1, <3>2 DEF UploadInv
  <2>4. CASE ~(EmptyBytes + BytesOf(x) > MaxBytes)
    <3>1. part' = Add(b, x) /\ todo' = todo \ {x} /\ phase' = "pack"
      BY <1>0, <1>4, <1>8, <1>13, <1>b, <2>4 DEF PackNext
    <3>2. PackOK(D, b, todo)  BY <1>0, <1>3, <1>b, <2>1, FlushOK
    <3>3. b.rows[x.s] = <<>>  BY <1>7, <1>8
    <3>4. Len(b.rows[x.s]) < MaxItems /\ b.bytes + Separator(b.rows[x.s]) + BytesOf(x) <= MaxBytes
      BY <1>7, <1>8, <1>9, <2>4, <3>3 DEF Separator
    <3> QED  BY <1>11, <2>2, <3>1, <3>2, <3>4
  <2> QED  BY <2>3, <2>4
<1> QED  BY <1>12, <1>13

LEMMA FinishPackingKeeps ==
  ASSUME UploadInv, IdExcess = 0, FinishPacking
  PROVE  UploadInv'
<1>0. ContentOK /\ phase = "pack" /\ PackInv /\ Unsent /\ todo = {}  BY DEF FinishPacking, UploadInv
<1>1. PackOK(chunks, part, {})  BY <1>0 DEF PackInv
<1>2. PICK D, b : D = Flushed(part) /\ b = Blank(Len(content))  OBVIOUS
<1>3. /\ PackOK(D, b, {})
      /\ D = <<>> => chunks = <<>> /\ \A s \in Streams : HeldBy(part, s) = {}
  BY <1>0, <1>1, <1>2, FlushOK
<1>4. \A s \in Streams : HeldBy(b, s) = {}  BY <1>0, <1>2, BlankIs
<1>5. PICK all : all = IF D = <<>> THEN <<part>> ELSE D  OBVIOUS
<1>6. SplitOK(all)
  <2>1. CASE D # <<>>
    <3>1. \A p \in Pieces : \E i \in 1 .. Len(D) : p \in HeldBy(D[i], p.s)
      BY <1>0, <1>3, <1>4, PieceIs DEF PackOK
    <3> QED  BY <1>3, <1>5, <2>1, <3>1 DEF PackOK, SplitOK
  <2>2. CASE D = <<>>
    <3>1. Pieces = {}  BY <1>0, <1>1, <1>3, <2>2, PieceIs DEF PackOK
    <3>2. EnvelopeOK(part) /\ part \in Envelopes  BY <1>1, RowsOf DEF PackOK
    <3>3. all = <<part>>  BY <1>5, <2>2
    <3>4. all \in Seq(Envelopes) /\ all # <<>> /\ Len(all) = 1 /\ all[1] = part  BY <3>2, <3>3
    <3>5. \A i \in 1 .. Len(all) : EnvelopeOK(all[i])  BY <3>2, <3>4
    <3>6. \A i, j \in 1 .. Len(all) : ~(i < j)  BY <3>4
    <3> QED  BY <3>1, <3>4, <3>5, <3>6 DEF SplitOK
  <2> QED  BY <2>1, <2>2
<1>7. \A i \in 1 .. Len(all) : ~(Serialised(all[i]) + IdExcess > MaxBytes)
  <2> TAKE i \in 1 .. Len(all)
  <2>1. EnvelopeOK(all[i])  BY <1>6 DEF SplitOK
  <2>2. Serialised(all[i]) = EmptyBytes + Cardinality(Body(all[i]))  BY DEF Serialised, Body
  <2>3. Cardinality(Body(all[i])) \in Nat  BY <2>1, FS_CardinalityType DEF EnvelopeOK
  <2>4. EmptyBytes + Cardinality(Body(all[i])) <= MaxBytes  BY <2>1 DEF EnvelopeOK
  <2> QED  BY <2>2, <2>3, <2>4, UploadAssumption
<1>8. /\ chunks' = all /\ phase' = "send" /\ task' = [i \in 1 .. Len(all) |-> "absent"]
      /\ UNCHANGED <<content, todo, posts, acks, stored, derived, pruned>>
  BY <1>2, <1>5, <1>7 DEF FinishPacking
<1>9. ContentOK' /\ SplitOK(all)'  BY <1>0, <1>6, <1>8, SameContent
<1>10. SplitInv'  BY <1>8, <1>9 DEF SplitInv
<1>11. LedgerInv'
  <2>1. Len(all) \in Nat  BY <1>6 DEF SplitOK
  <2>2. acks' = <<>> /\ Len(acks') = 0 /\ stored' = {} /\ derived' = "pending" /\ pruned' = FALSE
    BY <1>0, <1>8 DEF Unsent
  <2>3. Numbers' = 1 .. Len(all)  BY <1>8 DEF Numbers
  <2>4. task' \in [Numbers' -> Answers \union {"absent"}] /\ \A i \in Numbers' : task'[i] = "absent"
    BY <1>8, <2>3
  <2>5. acks' \in Seq(Answers) /\ Len(acks') <= Len(chunks') /\ derived' \in Answers
    BY <1>8, <2>1, <2>2 DEF Answers
  <2>6. 1 .. Len(acks') = {}  BY <2>2
  <2> QED  BY <1>8, <2>2, <2>4, <2>5, <2>6 DEF LedgerInv
<1> QED  BY <1>8, <1>9, <1>10, <1>11 DEF UploadInv

\* A step after the artifact is split.
LEMMA LedgerStep ==
  ASSUME UploadInv, phase \in {"send", "accepted", "failed"}, UNCHANGED packVars,
         phase' \in {"send", "accepted", "failed"}, LedgerInv'
  PROVE  UploadInv'
<1>1. ContentOK /\ SplitInv  BY DEF UploadInv
<1>2. UNCHANGED <<content, chunks>>  BY DEF packVars
<1>3. PICK C : C = chunks  OBVIOUS
<1>4. SplitOK(C)  BY <1>1, <1>3 DEF SplitInv
<1>5. SplitOK(C)' /\ ContentOK'  BY <1>1, <1>2, <1>4, SameContent
<1>6. SplitInv'  BY <1>2, <1>3, <1>5 DEF SplitInv
<1> QED  BY <1>5, <1>6 DEF UploadInv

LEMMA LedgerIs ==
  ASSUME UploadInv, phase \in {"send", "accepted", "failed"}
  PROVE  /\ LedgerInv /\ Len(chunks) \in Nat \ {0} /\ Len(acks) \in Nat
         /\ 1 .. Len(acks) \subseteq Numbers
<1>1. LedgerInv /\ SplitOK(chunks)  BY DEF UploadInv, SplitInv
<1>2. Len(chunks) \in Nat \ {0}  BY <1>1 DEF SplitOK
<1>3. Len(acks) \in Nat /\ Len(acks) <= Len(chunks)  BY <1>1 DEF LedgerInv
<1> QED  BY <1>1, <1>2, <1>3 DEF Numbers

\* The next envelope is answered.
LEMMA AckedKeeps ==
  ASSUME UploadInv, Posting, UNCHANGED <<packVars, phase, derived, pruned>>,
         NEW n, n = Len(acks) + 1, NEW a \in Answers, acks' = Append(acks, a),
         task' = [task EXCEPT ![n] = a],
         stored' = stored \/ stored' = stored \union {n},
         a = "pending" \/ n \in stored'
  PROVE  UploadInv'
<1>0. phase = "send" /\ Len(acks) < Len(chunks)  BY DEF Posting
<1>1. /\ LedgerInv /\ Len(chunks) \in Nat \ {0} /\ Len(acks) \in Nat /\ 1 .. Len(acks) \subseteq Numbers
  BY <1>0, LedgerIs
<1>2. Numbers' = Numbers /\ chunks' = chunks /\ n \in Numbers /\ n \notin 1 .. Len(acks)
  BY <1>0, <1>1 DEF packVars, Numbers
<1>3. /\ acks' \in Seq(Answers) /\ Len(acks') = Len(acks) + 1 /\ acks'[n] = a
      /\ 1 .. Len(acks') = (1 .. Len(acks)) \union {n} /\ \A i \in 1 .. Len(acks) : acks'[i] = acks[i]
  <2>1. acks \in Seq(Answers)  BY <1>1 DEF LedgerInv
  <2> QED  BY <2>1, AppendIs
<1>4. /\ task \in [Numbers -> Answers \union {"absent"}]
      /\ task'[n] = a /\ \A i \in Numbers : i # n => task'[i] = task[i]
  BY <1>1, <1>2 DEF LedgerInv
<1>5. task' \in [Numbers' -> Answers \union {"absent"}] /\ stored' \in SUBSET Numbers'
  BY <1>1, <1>2, <1>4 DEF LedgerInv
<1>6. Len(acks') <= Len(chunks') /\ derived' \in Answers  BY <1>0, <1>1, <1>2, <1>3 DEF LedgerInv
<1>7. \A i \in Numbers' : task'[i] \in {"complete", "partial"} => i \in stored'
  BY <1>1, <1>2, <1>4 DEF LedgerInv
<1>8. \A i \in 1 .. Len(acks') : i \in stored' \/ task'[i] = "pending"
  BY <1>1, <1>2, <1>3, <1>4 DEF LedgerInv
<1>9. ~pruned' => \A i \in 1 .. Len(acks') : task'[i] # "absent" /\ (acks'[i] # "pending" => task'[i] = acks'[i])
  <2>1. a # "absent"  BY DEF Answers
  <2>2. ~pruned' => \A i \in 1 .. Len(acks) : task[i] # "absent" /\ (acks[i] # "pending" => task[i] = acks[i])
    BY <1>1 DEF LedgerInv
  <2> QED  BY <1>1, <1>2, <1>3, <1>4, <2>1, <2>2
<1>10. phase' = "send" /\ derived' = "pending"  BY <1>0, <1>1 DEF LedgerInv
<1>11. LedgerInv'  BY <1>3, <1>5, <1>6, <1>7, <1>8, <1>9, <1>10 DEF LedgerInv
<1> QED  BY <1>0, <1>10, <1>11, LedgerStep

LEMMA PostAcknowledgedKeeps ==
  ASSUME UploadInv, PostAcknowledged
  PROVE  UploadInv'
<1>1. PICK n : n = Len(acks) + 1  OBVIOUS
<1>2. /\ Posting /\ task' = Submitted(n) /\ acks' = Append(acks, Submitted(n)[n])
      /\ UNCHANGED <<packVars, phase, stored, derived, pruned>>
  BY <1>1 DEF PostAcknowledged
<1>3. phase = "send" /\ Len(acks) < Len(chunks)  BY <1>2 DEF Posting
<1>4. LedgerInv /\ Len(chunks) \in Nat \ {0} /\ Len(acks) \in Nat  BY <1>3, LedgerIs
<1>5. n \in Numbers  BY <1>1, <1>3, <1>4 DEF Numbers
<1>6. task \in [Numbers -> Answers \union {"absent"}]  BY <1>4 DEF LedgerInv
<1>7. PICK a \in Answers : a = IF task[n] = "absent" THEN "pending" ELSE task[n]
  BY <1>5, <1>6 DEF Answers
<1>8. Submitted(n) = [task EXCEPT ![n] = a] /\ Submitted(n)[n] = a  BY <1>5, <1>6, <1>7 DEF Submitted
<1>9. a = "pending" \/ n \in stored
  BY <1>4, <1>5, <1>7 DEF LedgerInv, Answers
<1> QED  BY <1>1, <1>2, <1>8, <1>9, AckedKeeps

LEMMA PostProcessedKeeps ==
  ASSUME UploadInv, PostProcessed
  PROVE  UploadInv'
<1>1. PICK n : n = Len(acks) + 1  OBVIOUS
<1>2. PICK a \in {"complete", "partial"} : task' = [task EXCEPT ![n] = a] /\ acks' = Append(acks, a)
  BY <1>1 DEF PostProcessed
<1>3. Posting /\ stored' = stored \union {n} /\ UNCHANGED <<packVars, phase, derived, pruned>>
  BY <1>1 DEF PostProcessed
<1>4. a \in Answers  BY DEF Answers
<1> QED  BY <1>1, <1>2, <1>3, <1>4, AckedKeeps

LEMMA PostFailsKeeps ==
  ASSUME UploadInv, PostFails
  PROVE  UploadInv'
<1>1. PICK n : n = Len(acks) + 1  OBVIOUS
<1>2. /\ Posting /\ UNCHANGED <<packVars, derived, pruned>>
      /\ task' = task \/ task' = Submitted(n)
      /\ stored' = stored \/ (task' = Submitted(n) /\ stored' = stored \union {n})
      /\ (acks' = <<>> /\ phase' = phase) \/ (acks' = acks /\ phase' = "failed")
  BY <1>1 DEF PostFails
<1>3. phase = "send" /\ Len(acks) < Len(chunks)  BY <1>2 DEF Posting
<1>4. LedgerInv /\ Len(chunks) \in Nat \ {0} /\ Len(acks) \in Nat /\ 1 .. Len(acks) \subseteq Numbers
  BY <1>3, LedgerIs
<1>5. n \in Numbers /\ n \notin 1 .. Len(acks)  BY <1>1, <1>3, <1>4 DEF Numbers
<1>6. Numbers' = Numbers /\ chunks' = chunks  BY <1>2 DEF packVars, Numbers
<1>7. task \in [Numbers -> Answers \union {"absent"}] /\ stored \in SUBSET Numbers  BY <1>4 DEF LedgerInv
<1>8. /\ task' \in [Numbers' -> Answers \union {"absent"}]
      /\ \A i \in Numbers : i # n => task'[i] = task[i]
      /\ task'[n] = task[n] \/ (task[n] = "absent" /\ task'[n] = "pending")
  BY <1>2, <1>5, <1>6, <1>7 DEF Submitted, Answers
<1>9. stored' \in SUBSET Numbers' /\ stored \subseteq stored'  BY <1>2, <1>5, <1>6, <1>7
<1>10. \A i \in Numbers' : task'[i] \in {"complete", "partial"} => i \in stored'
  BY <1>4, <1>6, <1>8, <1>9 DEF LedgerInv
<1>11. /\ acks' \in Seq(Answers) /\ Len(acks') <= Len(chunks') /\ 1 .. Len(acks') \subseteq 1 .. Len(acks)
       /\ \A i \in 1 .. Len(acks') : acks'[i] = acks[i]
  <2>1. CASE acks' = acks  BY <1>4, <1>6, <2>1 DEF LedgerInv
  <2>2. CASE acks' = <<>>
    <3>1. Len(acks') = 0  BY <2>2
    <3> QED  BY <1>4, <1>6, <2>2, <3>1
  <2> QED  BY <1>2, <2>1, <2>2
<1>12. \A i \in 1 .. Len(acks') : i \in Numbers /\ i # n /\ task'[i] = task[i]  BY <1>4, <1>5, <1>8, <1>11
<1>13. \A i \in 1 .. Len(acks') : i \in stored' \/ task'[i] = "pending"
  BY <1>4, <1>9, <1>11, <1>12 DEF LedgerInv
<1>14. ~pruned' => \A i \in 1 .. Len(acks') : task'[i] # "absent" /\ (acks'[i] # "pending" => task'[i] = acks'[i])
  BY <1>2, <1>4, <1>11, <1>12 DEF LedgerInv
<1>15. phase' \in {"send", "failed"} /\ derived' = "pending"  BY <1>2, <1>3, <1>4 DEF LedgerInv
<1>16. LedgerInv'  BY <1>8, <1>9, <1>10, <1>11, <1>13, <1>14, <1>15 DEF LedgerInv, Answers
<1> QED  BY <1>2, <1>3, <1>15, <1>16, LedgerStep

LEMMA AcceptKeeps ==
  ASSUME UploadInv, Accept
  PROVE  UploadInv'
<1>1. /\ phase = "send" /\ Len(acks) = Len(chunks) /\ phase' = "accepted" /\ derived' = Worst(ToSet(acks))
      /\ UNCHANGED <<packVars, acks, task, stored, pruned>>
  BY DEF Accept
<1>2. LedgerInv /\ Len(chunks) \in Nat \ {0}  BY <1>1, LedgerIs
<1>3. Numbers' = Numbers /\ chunks' = chunks /\ Numbers = 1 .. Len(acks)  BY <1>1 DEF packVars, Numbers
<1>4. acks \in Seq(Answers)  BY <1>2 DEF LedgerInv
<1>5. ToSet(acks) = {acks[i] : i \in Numbers}  BY <1>3, <1>4 DEF ToSet
<1>6. ToSet(acks) \in SUBSET Answers /\ ToSet(acks) # {}
  <2>1. 1 \in Numbers  BY <1>2 DEF Numbers
  <2>2. \A i \in Numbers : acks[i] \in Answers  BY <1>3, <1>4
  <2> QED  BY <1>5, <2>1, <2>2
<1>7. derived' \in Answers /\ (derived' # "pending" => \A i \in Numbers : acks[i] \in {"complete", "partial"})
  BY <1>1, <1>5, <1>6, WorstIs DEF Answers
<1>8. ASSUME derived' # "pending", ~pruned
      PROVE  derived' = Worst({task[i] : i \in Numbers}) /\ \A i \in Numbers : task[i] \in {"complete", "partial"}
  <2>1. \A i \in Numbers : task[i] = acks[i]  BY <1>2, <1>3, <1>7, <1>8 DEF LedgerInv
  <2>2. {task[i] : i \in Numbers} = ToSet(acks)  BY <1>5, <2>1
  <2> QED  BY <1>1, <1>7, <1>8, <2>1, <2>2
<1>9. LedgerInv'
  <2>1. derived' # "pending" /\ ~pruned' =>
          derived' = Worst({task'[i] : i \in Numbers'}) /\ \A i \in Numbers' : task'[i] \in {"complete", "partial"}
    BY <1>1, <1>3, <1>8
  <2> QED  BY <1>1, <1>2, <1>3, <1>7, <2>1 DEF LedgerInv, Worst, Rank
<1> QED  BY <1>1, <1>9, LedgerStep

LEMMA ReconcileKeeps ==
  ASSUME UploadInv, Reconcile
  PROVE  UploadInv'
<1>1. PICK left : left = {task[i] : i \in Numbers} \ {"absent"}  OBVIOUS
<1>2. /\ phase = "accepted" /\ left # {} /\ derived' = Worst(left)
      /\ UNCHANGED <<packVars, phase, acks, task, stored, pruned>>
  BY <1>1 DEF Reconcile
<1>3. LedgerInv  BY <1>2, LedgerIs
<1>4. Numbers' = Numbers /\ chunks' = chunks /\ Len(acks) = Len(chunks) /\ Numbers = 1 .. Len(acks)
  BY <1>2, <1>3 DEF packVars, Numbers, LedgerInv
<1>5. task \in [Numbers -> Answers \union {"absent"}]  BY <1>3 DEF LedgerInv
<1>6. left \in SUBSET Answers  BY <1>1, <1>5
<1>7. derived' \in Answers /\ (derived' # "pending" => "pending" \notin left)  BY <1>2, <1>6, WorstIs
<1>8. ASSUME derived' # "pending", ~pruned
      PROVE  derived' = Worst({task[i] : i \in Numbers}) /\ \A i \in Numbers : task[i] \in {"complete", "partial"}
  <2>1. \A i \in Numbers : task[i] # "absent"  BY <1>3, <1>4, <1>8 DEF LedgerInv
  <2>2. left = {task[i] : i \in Numbers}  BY <1>1, <2>1
  <2>3. \A i \in Numbers : task[i] \in {"complete", "partial"}  BY <1>5, <1>7, <1>8, <2>1, <2>2 DEF Answers
  <2> QED  BY <1>2, <2>2, <2>3
<1>9. LedgerInv'
  <2>1. derived' # "pending" /\ ~pruned' =>
          derived' = Worst({task'[i] : i \in Numbers'}) /\ \A i \in Numbers' : task'[i] \in {"complete", "partial"}
    BY <1>2, <1>4, <1>8
  <2> QED  BY <1>2, <1>3, <1>4, <1>7, <2>1 DEF LedgerInv, Worst, Rank
<1> QED  BY <1>2, <1>9, LedgerStep

\* The ledger moves one row of the upload.
LEMMA RowMoves ==
  ASSUME UploadInv, NEW n \in Numbers, n \in DOMAIN task, NEW a \in Answers \union {"absent"},
         task' = [task EXCEPT ![n] = a], UNCHANGED <<packVars, phase, acks, derived>>,
         stored' = stored \union {n},
         \/ task[n] = "pending" /\ a \in {"complete", "partial"} /\ pruned' = pruned
         \/ pruned' = TRUE
  PROVE  UploadInv'
<1>1. phase \in {"send", "accepted", "failed"}
  <2>1. ~Unsent  BY DEF Unsent
  <2> QED  BY <2>1 DEF UploadInv
<1>2. LedgerInv /\ 1 .. Len(acks) \subseteq Numbers  BY <1>1, LedgerIs
<1>3. Numbers' = Numbers /\ chunks' = chunks  BY DEF packVars, Numbers
<1>4. task \in [Numbers -> Answers \union {"absent"}] /\ stored \in SUBSET Numbers  BY <1>2 DEF LedgerInv
<1>5. /\ task' \in [Numbers' -> Answers \union {"absent"}] /\ stored' \in SUBSET Numbers'
      /\ task'[n] = a /\ \A i \in Numbers : i # n => task'[i] = task[i]
  BY <1>3, <1>4
<1>6. \A i \in Numbers' : task'[i] \in {"complete", "partial"} => i \in stored'
  BY <1>2, <1>3, <1>5 DEF LedgerInv
<1>7. \A i \in 1 .. Len(acks') : i \in stored' \/ task'[i] = "pending"
  BY <1>2, <1>5 DEF LedgerInv
<1>8. ~pruned' => \A i \in 1 .. Len(acks') : task'[i] # "absent" /\ (acks'[i] # "pending" => task'[i] = acks'[i])
  BY <1>2, <1>5 DEF LedgerInv
<1>9. ~(phase' = "accepted" /\ derived' # "pending" /\ ~pruned')
  <2>1. SUFFICES ASSUME phase = "accepted", derived # "pending", ~pruned, task[n] = "pending"  PROVE FALSE
    OBVIOUS
  <2>2. task[n] \in {"complete", "partial"}  BY <1>2, <2>1 DEF LedgerInv
  <2> QED  BY <2>1, <2>2
<1>10. LedgerInv'  BY <1>2, <1>3, <1>5, <1>6, <1>7, <1>8, <1>9 DEF LedgerInv
<1> QED  BY <1>1, <1>10, LedgerStep

LEMMA ProcessKeeps ==
  ASSUME UploadInv, NEW i \in Numbers, Process(i)
  PROVE  UploadInv'
<1>1. PICK a \in {"complete", "partial"} : task' = [task EXCEPT ![i] = a]  BY DEF Process
<1>2. /\ i \in DOMAIN task /\ task[i] = "pending" /\ stored' = stored \union {i}
      /\ UNCHANGED <<packVars, phase, acks, derived, pruned>>
  BY DEF Process
<1> QED  BY <1>1, <1>2, RowMoves DEF Answers

LEMMA PruneKeeps ==
  ASSUME UploadInv, NEW i \in Numbers, Prune(i)
  PROVE  UploadInv'
<1>1. /\ i \in DOMAIN task /\ task[i] \in {"complete", "partial"} /\ task' = [task EXCEPT ![i] = "absent"]
      /\ pruned' = TRUE /\ UNCHANGED <<packVars, phase, acks, stored, derived>>
  BY DEF Prune
<1>2. phase \in {"send", "accepted", "failed"}
  <2>1. ~Unsent  BY <1>1 DEF Unsent
  <2> QED  BY <2>1 DEF UploadInv
<1>3. i \in stored  BY <1>1, <1>2, LedgerIs DEF LedgerInv
<1>4. stored' = stored \union {i}  BY <1>1, <1>3
<1> QED  BY <1>1, <1>4, RowMoves

LEMMA UploadNextInv == IdExcess = 0 /\ UploadInv /\ [UploadNext]_upVars => UploadInv'
<1> SUFFICES ASSUME IdExcess = 0, UploadInv, [UploadNext]_upVars  PROVE UploadInv'
  OBVIOUS
<1>1. CASE UNCHANGED upVars
  <2>1. UNCHANGED <<content, todo, part, chunks, phase, posts, acks, task, stored, derived, pruned>>
    BY <1>1 DEF upVars
  <2>2. ContentOK'  BY <2>1, SameContent DEF UploadInv
  <2>3. CASE phase = "pack" /\ PackInv /\ Unsent
    <3>1. PICK C, c, T : C = chunks /\ c = part /\ T = todo  OBVIOUS
    <3>2. PackOK(C, c, T)  BY <2>3, <3>1 DEF PackInv
    <3>3. PackOK(C, c, T)'  BY <2>1, <3>2, SameContent
    <3>4. PackInv' /\ Unsent'  BY <2>1, <2>3, <3>1, <3>3 DEF PackInv, Unsent
    <3> QED  BY <2>1, <2>2, <2>3, <3>4 DEF UploadInv
  <2>4. CASE phase = "refused" /\ EmptyBytes + BytesOf(NextPiece) > MaxBytes /\ Unsent
    <3>1. (EmptyBytes + BytesOf(NextPiece) > MaxBytes)'
      BY <2>1, <2>4 DEF NextPiece, BytesOf, RowOf, Shown
    <3>2. Unsent'  BY <2>1, <2>4 DEF Unsent
    <3> QED  BY <2>1, <2>2, <2>4, <3>1, <3>2 DEF UploadInv
  <2>5. CASE phase \in {"send", "accepted", "failed"} /\ SplitInv /\ LedgerInv
    <3>1. LedgerInv'  BY <2>1, <2>5 DEF LedgerInv, Numbers, Worst, Rank
    <3>2. UNCHANGED packVars /\ phase' = phase  BY <2>1 DEF packVars
    <3> QED  BY <2>5, <3>1, <3>2, LedgerStep
  <2> QED  BY <2>3, <2>4, <2>5 DEF UploadInv
<1>2. CASE PackNext  BY <1>2, PackNextKeeps
<1>3. CASE FinishPacking  BY <1>3, FinishPackingKeeps
<1>4. CASE PostAcknowledged  BY <1>4, PostAcknowledgedKeeps
<1>5. CASE PostProcessed  BY <1>5, PostProcessedKeeps
<1>6. CASE PostFails  BY <1>6, PostFailsKeeps
<1>7. CASE Accept  BY <1>7, AcceptKeeps
<1>8. ASSUME NEW i \in Numbers, Process(i) \/ Prune(i)  PROVE UploadInv'
  BY <1>8, ProcessKeeps, PruneKeeps
<1>9. CASE Reconcile  BY <1>9, ReconcileKeeps
<1> QED  BY <1>1, <1>2, <1>3, <1>4, <1>5, <1>6, <1>7, <1>8, <1>9 DEF UploadNext

LEMMA UploadHolds == ASSUME IdExcess = 0  PROVE UploadSpec => []UploadInv
<1>1. UploadInit => UploadInv  BY UploadInitInv
<1>2. UploadInv /\ [UploadNext]_upVars => UploadInv'  BY UploadNextInv
<1> QED  BY <1>1, <1>2, PTL DEF UploadSpec

LEMMA WholeIs == UploadInv => UploadIsWhole
<1> SUFFICES ASSUME UploadInv  PROVE UploadIsWhole
  OBVIOUS
<1>1. phase = "refused" => EmptyBytes + BytesOf(NextPiece) > MaxBytes  BY DEF UploadInv
<1>2. phase # "broken"  BY DEF UploadInv
<1>3. phase \in {"send", "accepted", "failed"} => SplitIsLossless  BY SplitIs DEF UploadInv, SplitInv
<1>4. phase = "accepted" => \A i \in Numbers : i \in stored \/ task[i] = "pending"
  BY DEF UploadInv, LedgerInv, Numbers
<1>5. ASSUME phase = "accepted", derived # "pending", ~pruned
      PROVE  derived = Worst({task[i] : i \in Numbers}) /\ (Len(chunks) > 1 => LineageComplete)
  <2>1. LedgerInv /\ Len(chunks) \in Nat \ {0}  BY <1>5, LedgerIs
  <2>2. derived = Worst({task[i] : i \in Numbers}) /\ \A i \in Numbers : task[i] \in {"complete", "partial"}
    BY <1>5, <2>1 DEF LedgerInv
  <2>3. stored = Numbers  BY <2>1, <2>2 DEF LedgerInv
  <2>4. ASSUME Len(chunks) > 1  PROVE LineageComplete
    <3>1. 2 \in stored \ {1}  BY <2>1, <2>3, <2>4 DEF Numbers
    <3>2. Expected = Len(chunks)  BY <3>1 DEF Expected
    <3> QED  BY <2>1, <2>3, <3>2 DEF LineageComplete, Numbers
  <2> QED  BY <2>2, <2>4
<1> QED  BY <1>1, <1>2, <1>3, <1>4, <1>5 DEF UploadIsWhole

(***************************************************************************)
(* An artifact of any size is split without loss into envelopes within     *)
(* every limit, or refused for a row that fits into none; one that is      *)
(* accepted is whole at Analyzer, whatever failed and was sent again, and  *)
(* a settled state is that of all its envelopes.  The header has to fit    *)
(* the reserve for it: IdExcess = 0 (split_asset_report,                   *)
(* split_trace_batch, ingest_asset_report, get_ingest_status).             *)
(***************************************************************************)
THEOREM UploadsAreWhole == IdExcess = 0 /\ UploadSpec => []UploadIsWhole
<1> SUFFICES ASSUME IdExcess = 0  PROVE UploadSpec => []UploadIsWhole
  OBVIOUS
<1>1. UploadSpec => []UploadInv  BY UploadHolds
<1> QED  BY <1>1, WholeIs, PTL

=============================================================================
