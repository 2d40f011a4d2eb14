-------------------------------- MODULE MdeSync --------------------------------
(***************************************************************************)
(* The Microsoft Defender alert connector (form: mde.py) and the Analyzer   *)
(* handler that takes its batches (api/ingest.py, mde-security-batch).      *)
(* Every process polls; the one that holds the lease row of the state       *)
(* database reads what changed upstream since the watermark minus an        *)
(* overlap, hands it over batch by batch, and moves the watermark to the    *)
(* time it STARTED.  Upstream shows an update up to Overlap late.           *)
(***************************************************************************)
EXTENDS Naturals

CONSTANTS
  Alerts,      \* upstream alerts
  Incidents,   \* upstream incidents
  Members,     \* [Incidents -> SUBSET Alerts]: what an incident embeds
  Syncers,     \* polling processes
  Overlap,     \* overlap_seconds, and the longest delay of an update
  Lookback,    \* initial_lookback_hours
  LeaseTime,   \* lease_seconds
  MaxTime,     \* bound on the clock
  MaxMisses    \* bound on failed requests, lost answers and deaths

ASSUME MdeAssumption ==
  /\ Members \in [Incidents -> SUBSET Alerts]
  /\ {Overlap, Lookback, LeaseTime, MaxTime, MaxMisses} \subseteq Nat
  /\ "none" \notin Syncers /\ "gone" \notin Syncers

VARIABLES
  clock,
  upstream,   \* [Items -> lastUpdateDateTime, 0: does not exist]
  visible,    \* [Items -> the version queries return]
  mark,       \* watermark, 0: none
  origin,     \* history: what the first successful synchronization asked for
  mdeLease,   \* [owner, until]
  board,      \* [Items -> the newest version stored as an alert]
  poll,       \* [Syncers -> the synchronization under way]
  misses

mdeVars == <<clock, upstream, visible, mark, origin, mdeLease, board, poll, misses>>

Items == Alerts \union Incidents
Resting == [at |-> "rest", started |-> 0, since |-> 0, rows |-> [i \in Items |-> 0]]
Minus(a, b) == IF a > b THEN a - b ELSE 0
MaxOf(a, b) == IF a > b THEN a ELSE b
Miss == misses < MaxMisses /\ misses' = misses + 1

\* Upstream: an item changes, one per unit of time, and queries see it some time later.
Change(i) ==
  /\ \A k \in Items : upstream[k] < clock
  /\ upstream' = [upstream EXCEPT ![i] = clock]
  /\ UNCHANGED <<clock, visible, mark, origin, mdeLease, board, poll, misses>>

Appear(i) ==
  /\ visible[i] # upstream[i]
  /\ visible' = [visible EXCEPT ![i] = upstream[i]]
  /\ UNCHANGED <<clock, upstream, mark, origin, mdeLease, board, poll, misses>>

Pass ==
  /\ clock < MaxTime
  /\ \A i \in Items : visible[i] # upstream[i] => clock + 1 - upstream[i] <= Overlap
  /\ clock' = clock + 1
  /\ UNCHANGED <<upstream, visible, mark, origin, mdeLease, board, poll, misses>>

(***************************************************************************)
(* sync_once.  The time is read before the lease is asked for.             *)
(***************************************************************************)
Begin(p) ==
  /\ poll[p].at = "rest"
  /\ poll' = [poll EXCEPT ![p] = [Resting EXCEPT !.at = "begun", !.started = clock]]
  /\ UNCHANGED <<clock, upstream, visible, mark, origin, mdeLease, board, misses>>

\* A variant: the overlap is forgotten.
SinceExact(started) == IF mark = 0 THEN Minus(started, Lookback) ELSE mark

Since(started) == IF mark = 0 THEN Minus(started, Lookback) ELSE Minus(mark, Overlap)

Acquire(p) ==
  LET free == mdeLease.owner = "none" \/ mdeLease.until <= poll[p].started
      started == poll[p].started
  IN  /\ poll[p].at = "begun"
      /\ IF free
           THEN /\ mdeLease' = [owner |-> p, until |-> started + LeaseTime]
                /\ poll' = [poll EXCEPT ![p].at = "alerts", ![p].since = Since(started)]
           ELSE /\ poll' = [poll EXCEPT ![p] = Resting]
                /\ UNCHANGED mdeLease
      /\ UNCHANGED <<clock, upstream, visible, mark, origin, board, misses>>

Asked(p, i) == visible[i] > 0 /\ visible[i] >= poll[p].since

FetchAlerts(p) ==
  /\ poll[p].at = "alerts"
  /\ poll' = [poll EXCEPT ![p].at = "incidents",
                          ![p].rows = [i \in Items |->
                            IF i \in Alerts /\ Asked(p, i) THEN visible[i] ELSE 0]]
  /\ UNCHANGED <<clock, upstream, visible, mark, origin, mdeLease, board, misses>>

\* An incident brings its alerts; of two copies of an alert the newer one is kept.
FetchIncidents(p) ==
  /\ poll[p].at = "incidents"
  /\ poll' = [poll EXCEPT ![p].at = "send",
                          ![p].rows = [i \in Items |->
       IF i \in Incidents THEN (IF Asked(p, i) THEN visible[i] ELSE 0)
       ELSE IF \E n \in Incidents : i \in Members[n] /\ Asked(p, n)
         THEN MaxOf(poll[p].rows[i], visible[i]) ELSE poll[p].rows[i]]]
  /\ UNCHANGED <<clock, upstream, visible, mark, origin, mdeLease, board, misses>>

\* The next batch: alerts before incidents, older before newer (one item a batch).
Left(p) == {i \in Items : poll[p].rows[i] > 0}
Next1(p) == {i \in Left(p) : /\ i \in Incidents => Left(p) \intersect Alerts = {}
                             /\ \A k \in Left(p) : (k \in Alerts <=> i \in Alerts)
                                                   => poll[p].rows[i] <= poll[p].rows[k]}

\* store_mde_security_batch: one public alert for every version, stored once.
Posted(i, v) == [board EXCEPT ![i] = MaxOf(@, v)]

Send(p, i) ==
  /\ poll[p].at = "send" /\ i \in Next1(p)
  /\ board' = Posted(i, poll[p].rows[i])
  /\ poll' = [poll EXCEPT ![p].rows[i] = 0]
  /\ UNCHANGED <<clock, upstream, visible, mark, origin, mdeLease, misses>>

Committed(p) == poll[p].started

\* success: only for the owner of the lease row; the others raise and change nothing.
Succeed(p) ==
  /\ poll[p].at = "send" /\ Left(p) = {}
  /\ IF mdeLease.owner = p
       THEN /\ mark' = Committed(p)
            /\ origin' = IF mark = 0 THEN poll[p].since ELSE origin
            /\ mdeLease' = [owner |-> "none", until |-> 0]
       ELSE UNCHANGED <<mark, origin, mdeLease>>
  /\ poll' = [poll EXCEPT ![p] = Resting]
  /\ UNCHANGED <<clock, upstream, visible, board, misses>>

\* failure: a request fails for good, or a batch is not derived completely although it
\* may be stored.  The watermark stays and an own lease is released.
Fail(p) ==
  /\ poll[p].at \in {"alerts", "incidents", "send"} /\ Miss
  /\ \/ board' = board
     \/ poll[p].at = "send" /\ \E i \in Next1(p) : board' = Posted(i, poll[p].rows[i])
  /\ mdeLease' = IF mdeLease.owner = p THEN [owner |-> "none", until |-> 0] ELSE mdeLease
  /\ poll' = [poll EXCEPT ![p] = Resting]
  /\ UNCHANGED <<clock, upstream, visible, mark, origin>>

\* The process is stopped or dies: the lease row keeps an owner that never returns.
Die(p) ==
  /\ poll[p].at # "rest" /\ Miss
  /\ mdeLease' = [mdeLease EXCEPT !.owner = IF @ = p THEN "gone" ELSE @]
  /\ poll' = [poll EXCEPT ![p] = Resting]
  /\ UNCHANGED <<clock, upstream, visible, mark, origin, board>>

MdeInit ==
  /\ clock = 1 /\ mark = 0 /\ origin = 0 /\ misses = 0
  /\ upstream = [i \in Items |-> 0] /\ visible = [i \in Items |-> 0]
  /\ mdeLease = [owner |-> "none", until |-> 0]
  /\ board = [i \in Items |-> 0]
  /\ poll = [p \in Syncers |-> Resting]

MdeNext ==
  \/ Pass
  \/ \E i \in Items : Change(i) \/ Appear(i)
  \/ \E p \in Syncers : \/ Begin(p) \/ Acquire(p) \/ FetchAlerts(p) \/ FetchIncidents(p)
                        \/ Succeed(p) \/ Fail(p) \/ Die(p)
                        \/ \E i \in Items : Send(p, i)

MdeSpec == MdeInit /\ [][MdeNext]_mdeVars

\* Nothing slips below the watermark: an update that the next synchronization no
\* longer asks for is stored in Analyzer, whatever failed, was lost, overlapped or
\* appeared late before (sync_once advances the watermark only after every batch).
WatermarkCovers ==
  \A i \in Items :
    mark > 0 /\ upstream[i] >= MaxOf(origin, 1) /\ upstream[i] < Minus(mark, Overlap) =>
      board[i] = upstream[i]

=============================================================================
