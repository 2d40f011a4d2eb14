------------------------------ MODULE Schedules ------------------------------
(***************************************************************************)
(* The recurring scans of Form (schedule_store.py, schedule_worker.py,      *)
(* api/schedules.py).  A tick reads the clock, then the due schedules, and  *)
(* for each of them creates a job and writes the schedule back in a second  *)
(* database.  Times are relative: how long a schedule still waits, how old  *)
(* the stamp of its latest job is, how old the reading of the tick is.      *)
(***************************************************************************)
EXTENDS Naturals

CONSTANTS
  ScheduleIds,
  Interval,     \* interval_minutes of every schedule
  MaxTickAge    \* bound on how long one tick takes, at most Interval

ASSUME ScheduleAssumption ==
  Interval \in Nat \ {0} /\ MaxTickAge \in 0 .. Interval

VARIABLES
  table,     \* [ScheduleIds -> row [status, wait, enabled], status unused, listed or deleted]
  targets,   \* schedules whose target is still registered
  tick,      \* [pc, todo, at, age]: the tick of the worker
  stamp,     \* [ScheduleIds -> age of created_at of the latest job; old ones alike]
  lost       \* schedules whose latest job was not written back

schedVars == <<table, targets, tick, stamp, lost>>

Old == Interval + MaxTickAge + 1
NoTick == [pc |-> "idle", todo |-> {}, at |-> {}, age |-> 0]
Row(status, wait, enabled) == [status |-> status, wait |-> wait, enabled |-> enabled]
Listed(s) == table[s].status = "listed"

(***************************************************************************)
(* The API.                                                                *)
(***************************************************************************)
CreateSchedule(s) ==
  /\ table[s].status = "unused" /\ s \in targets
  /\ \E e \in BOOLEAN : table' = [table EXCEPT ![s] = Row("listed", 0, e)]
  /\ UNCHANGED <<targets, tick, stamp, lost>>

DeleteSchedule(s) ==
  /\ Listed(s)
  /\ table' = [table EXCEPT ![s] = Row("deleted", 0, FALSE)]
  /\ UNCHANGED <<targets, tick, stamp, lost>>

\* Retention of the target store.
ForgetTarget(s) ==
  /\ targets' = targets \ {s} /\ s \in targets
  /\ UNCHANGED <<table, tick, stamp, lost>>

(***************************************************************************)
(* tick.                                                                   *)
(***************************************************************************)
\* A variant: the next run is compared with a time one unit ahead.
DueEarly == {s \in ScheduleIds : Listed(s) /\ table[s].enabled /\ table[s].wait <= 1}

DueNow == {s \in ScheduleIds : Listed(s) /\ table[s].enabled /\ table[s].wait = 0}

StartTick ==
  /\ tick.pc = "idle"
  /\ tick' = [NoTick EXCEPT !.pc = "items", !.todo = DueNow]
  /\ UNCHANGED <<table, targets, stamp, lost>>

\* mark_enqueued and snooze write the row the tick has read, with a new next_run_at.
Rescheduled(s) == [table EXCEPT ![s] = Row("listed", Interval - tick.age, TRUE)]

Snooze(s) ==
  /\ tick.pc = "items" /\ s \in tick.todo /\ s \notin targets
  /\ table' = Rescheduled(s)
  /\ tick' = [tick EXCEPT !.todo = @ \ {s}]
  /\ UNCHANGED <<targets, stamp, lost>>

\* The job id holds the schedule and the second of the tick.
Enqueue(s) ==
  /\ tick.pc = "items" /\ s \in tick.todo /\ s \in targets
  /\ stamp[s] # tick.age
  /\ stamp' = [stamp EXCEPT ![s] = tick.age]
  /\ tick' = [tick EXCEPT !.pc = "mark", !.todo = @ \ {s}, !.at = {s}]
  /\ UNCHANGED <<table, targets, lost>>

\* A variant: a job that could not be created counts as this period's.
EnqueueFailsSnoozed(s) ==
  /\ tick.pc = "items" /\ s \in tick.todo /\ s \in targets
  /\ tick' = [tick EXCEPT !.todo = @ \ {s}]
  /\ table' = Rescheduled(s)
  /\ UNCHANGED <<targets, stamp, lost>>

\* The queue is full, or has a job of this id: the schedule stays due.
EnqueueFails(s) ==
  /\ tick.pc = "items" /\ s \in tick.todo /\ s \in targets
  /\ tick' = [tick EXCEPT !.todo = @ \ {s}]
  /\ UNCHANGED <<table, targets, stamp, lost>>

Mark ==
  /\ tick.pc = "mark"
  /\ \E s \in tick.at : table' = Rescheduled(s)
  /\ lost' = lost \ tick.at
  /\ tick' = [tick EXCEPT !.pc = "items", !.at = {}]
  /\ UNCHANGED <<targets, stamp>>

EndTick ==
  /\ tick.pc = "items" /\ tick.todo = {}
  /\ tick' = NoTick
  /\ UNCHANGED <<table, targets, stamp, lost>>

\* A store fails inside the tick, or the process dies: the rest waits for the next one.
AbortTick ==
  /\ tick.pc # "idle"
  /\ tick' = NoTick
  /\ lost' = lost \union tick.at
  /\ UNCHANGED <<table, targets, stamp>>

TimePasses ==
  /\ tick.pc # "idle" => tick.age < MaxTickAge
  /\ tick' = IF tick.pc = "idle" THEN tick ELSE [tick EXCEPT !.age = @ + 1]
  /\ table' = [s \in ScheduleIds |->
       IF table[s].wait > 0 THEN [table[s] EXCEPT !.wait = @ - 1] ELSE table[s]]
  /\ stamp' = [s \in ScheduleIds |-> IF stamp[s] < Old THEN stamp[s] + 1 ELSE Old]
  /\ UNCHANGED <<targets, lost>>

ScheduleInit ==
  /\ table = [s \in ScheduleIds |-> Row("unused", 0, FALSE)] /\ targets = ScheduleIds
  /\ tick = NoTick /\ stamp = [s \in ScheduleIds |-> Old] /\ lost = {}

ScheduleNext ==
  \/ \E s \in ScheduleIds : \/ CreateSchedule(s) \/ DeleteSchedule(s) \/ ForgetTarget(s)
                            \/ Snooze(s) \/ Enqueue(s) \/ EnqueueFails(s)
  \/ StartTick \/ Mark \/ EndTick \/ AbortTick \/ TimePasses

ScheduleSpec == ScheduleInit /\ [][ScheduleNext]_schedVars

(***************************************************************************)
(* Properties.                                                             *)
(***************************************************************************)
\* Two jobs of one schedule carry times at least an interval apart, however late or
\* slow a tick is and although the schedule is deleted or a creation fails in between.
\* The one exception is a job that could not be written back (tick, mark_enqueued).
SpacedRuns ==
  [][\A s \in ScheduleIds : tick'.pc = "mark" /\ tick'.at = {s} /\ tick.pc = "items" =>
       stamp[s] >= Interval + tick.age \/ s \in lost]_schedVars

\* A schedule with a target waits only for the period its latest job has begun: no
\* failed creation and no aborted tick makes it skip a run (tick, create).
PeriodIsCovered ==
  \A s \in targets : Listed(s) /\ table[s].wait > 0 => stamp[s] + table[s].wait <= Interval
=============================================================================
