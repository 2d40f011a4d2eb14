----------------------------- MODULE DefenderProofs -----------------------------
(***************************************************************************)
(* Proofs about the two Defender connectors of form: nothing slips below   *)
(* the alert watermark (mde.py), and the materialised set of findings is   *)
(* the upstream one up to the vulnerability watermark (mdvm.py).  Both     *)
(* hold for every overlap, lookback and lease time, so also for leases     *)
(* that expire while their owner still works.                              *)
(***************************************************************************)
EXTENDS MdeSync, MdvmSync, WellFoundedInduction, TLAPS

(***************************************************************************)
(* Alerts: mde.py.                                                         *)
(***************************************************************************)
Holding == {"alerts", "incidents", "send"}

Polls == [at : {"rest", "begun"} \union Holding, started : Nat, since : Nat,
          rows : [Items -> Nat]]

MdeTypeOK ==
  /\ clock \in Nat \ {0} /\ mark \in Nat /\ origin \in Nat /\ misses \in Nat
  /\ upstream \in [Items -> Nat] /\ visible \in [Items -> Nat] /\ board \in [Items -> Nat]
  /\ mdeLease \in [owner : Syncers \union {"none", "gone"}, until : Nat]
  /\ poll \in [Syncers -> Polls]

\* Upstream shows an update at most Overlap late, and Analyzer holds nothing newer.
UpstreamInv ==
  \A i \in Items : /\ visible[i] <= upstream[i] /\ upstream[i] <= clock
                   /\ board[i] <= upstream[i]
                   /\ visible[i] # upstream[i] => clock <= upstream[i] + Overlap

\* A synchronization remembers a time that has passed and rows that existed.
PollInv ==
  \A p \in Syncers : poll[p].at # "rest" =>
    /\ 1 <= poll[p].started /\ poll[p].started <= clock
    /\ \A i \in Items : poll[p].rows[i] <= upstream[i]

\* The owner of the lease row works, from what the watermark still says.
OwnerInv ==
  \A p \in Syncers : mdeLease.owner = p =>
    poll[p].at \in Holding /\ poll[p].since = Since(poll[p].started)

\* An update the synchronization p must bring: asked for, and too old to be hidden from
\* it or to have been replaced since it started.
Due(p, i) == /\ upstream[i] >= 1 /\ upstream[i] >= poll[p].since
             /\ upstream[i] + Overlap < poll[p].started

\* What is due is among the rows once they are fetched, until it is stored.
FetchInv ==
  \A p \in Syncers : \A i \in Items : Due(p, i) =>
    /\ poll[p].at = "incidents" /\ i \in Alerts => poll[p].rows[i] = upstream[i]
    /\ poll[p].at = "send" => poll[p].rows[i] = upstream[i] \/ board[i] = upstream[i]

\* The watermark is a time that has passed.
MarkInv == mark <= clock

MdeInv ==
  /\ MdeTypeOK /\ UpstreamInv /\ PollInv /\ OwnerInv /\ FetchInv /\ MarkInv
  /\ WatermarkCovers

LEMMA MdeNatural == {Overlap, Lookback, LeaseTime, MaxTime, MaxMisses} \subseteq Nat
BY MdeAssumption

\* Time passes, an item changes, or a change appears: only upstream's own state moves.
LEMMA UpstreamSteps ==
  ASSUME MdeInv, Pass \/ \E i \in Items : Change(i) \/ Appear(i)
  PROVE  MdeInv'
<1>1. CASE Pass
  <2>1. MdeTypeOK'
    BY <1>1 DEF Pass, MdeInv, MdeTypeOK
  <2>2. UpstreamInv'
    BY <1>1, MdeNatural DEF Pass, MdeInv, MdeTypeOK, UpstreamInv
  <2>3. PollInv'
    BY <1>1 DEF Pass, MdeInv, MdeTypeOK, PollInv, Polls
  <2>4. OwnerInv' /\ FetchInv' /\ MarkInv' /\ WatermarkCovers'
    BY <1>1 DEF Pass, MdeInv, MdeTypeOK, OwnerInv, FetchInv, Due, MarkInv, WatermarkCovers, Since
  <2> QED BY <2>1, <2>2, <2>3, <2>4 DEF MdeInv
<1>2. ASSUME NEW i \in Items, Change(i)
      PROVE  MdeInv'
  <2>1. MdeTypeOK'
    BY <1>2 DEF Change, MdeInv, MdeTypeOK
  <2>2. \A k \in Items : upstream'[k] = IF k = i THEN clock ELSE upstream[k]
    BY <1>2 DEF Change, MdeInv, MdeTypeOK
  <2>3. \A k \in Items : upstream[k] <= upstream'[k] /\ upstream'[k] <= clock /\ upstream'[k] \in Nat
    BY <2>2 DEF MdeInv, MdeTypeOK, UpstreamInv
  <2>4. UpstreamInv'
    BY <1>2, <2>2, <2>3, MdeNatural DEF Change, MdeInv, MdeTypeOK, UpstreamInv
  <2>5. PollInv'
    <3> SUFFICES ASSUME NEW p \in Syncers, poll'[p].at # "rest"
                 PROVE  /\ 1 <= poll'[p].started /\ poll'[p].started <= clock'
                        /\ \A k \in Items : poll'[p].rows[k] <= upstream'[k]
      BY DEF PollInv
    <3>1. poll[p] \in Polls /\ poll' = poll /\ clock' = clock
      BY <1>2 DEF Change, MdeInv, MdeTypeOK
    <3>2. \A k \in Items : poll[p].rows[k] <= upstream[k] /\ poll[p].rows[k] \in Nat /\ upstream[k] \in Nat
      BY <3>1 DEF MdeInv, PollInv, Polls, MdeTypeOK
    <3> QED BY <3>1, <3>2, <2>3 DEF MdeInv, PollInv
  <2>6. OwnerInv' /\ MarkInv'
    BY <1>2 DEF Change, MdeInv, OwnerInv, Since, MarkInv
  <2>7. FetchInv'
    <3> SUFFICES ASSUME NEW p \in Syncers, NEW k \in Items, Due(p, k)'
                 PROVE  /\ poll'[p].at = "incidents" /\ k \in Alerts => poll'[p].rows[k] = upstream'[k]
                        /\ poll'[p].at = "send" => poll'[p].rows[k] = upstream'[k] \/ board'[k] = upstream'[k]
      BY DEF FetchInv
    <3>1. poll' = poll /\ board' = board /\ poll[p] \in Polls
      BY <1>2 DEF Change, MdeInv, MdeTypeOK
    <3>2. CASE poll[p].at = "rest"
      BY <3>1, <3>2
    <3>3. CASE poll[p].at # "rest" /\ k # i
      BY <3>1, <3>3, <2>2 DEF MdeInv, FetchInv, Due
    <3>4. CASE poll[p].at # "rest" /\ k = i
      <4>1. poll[p].started <= clock /\ poll[p].started \in Nat /\ clock \in Nat
        BY <3>1, <3>4 DEF MdeInv, PollInv, Polls, MdeTypeOK
      <4> QED BY <3>1, <3>4, <4>1, <2>2, MdeNatural DEF Due
    <3> QED BY <3>2, <3>3, <3>4
  <2>8. WatermarkCovers'
    <3> SUFFICES ASSUME NEW k \in Items, mark > 0, upstream'[k] >= MaxOf(origin, 1),
                        upstream'[k] < Minus(mark, Overlap)
                 PROVE  board[k] = upstream'[k]
      BY <1>2 DEF Change, WatermarkCovers
    <3>1. CASE k # i
      BY <3>1, <2>2 DEF MdeInv, WatermarkCovers
    <3>2. CASE k = i
      BY <3>2, <2>2, MdeNatural DEF MdeInv, MdeTypeOK, Minus, MarkInv
    <3> QED BY <3>1, <3>2
  <2> QED BY <2>1, <2>4, <2>5, <2>6, <2>7, <2>8 DEF MdeInv
<1>3. ASSUME NEW i \in Items, Appear(i)
      PROVE  MdeInv'
  <2>1. MdeTypeOK'
    BY <1>3 DEF Appear, MdeInv, MdeTypeOK
  <2>2. UpstreamInv'
    BY <1>3 DEF Appear, MdeInv, MdeTypeOK, UpstreamInv
  <2>3. PollInv' /\ OwnerInv' /\ FetchInv' /\ WatermarkCovers' /\ MarkInv'
    BY <1>3 DEF Appear, MdeInv, PollInv, OwnerInv, FetchInv, Due, WatermarkCovers, Since, MarkInv
  <2> QED BY <2>1, <2>2, <2>3 DEF MdeInv
<1> QED BY <1>1, <1>2, <1>3

LEMMA RestingType == Resting \in Polls /\ Resting.at = "rest"
BY DEF Resting, Polls, Holding

\* A synchronization that begins has no rows; one that ends or dies leaves none behind.
LEMMA IdleSteps ==
  ASSUME MdeInv, NEW p \in Syncers, NEW row \in Polls,
         poll' = [poll EXCEPT ![p] = row],
         \/ row.at = "rest"
         \/ /\ row.at = "begun" /\ row.started = clock
            /\ \A i \in Items : row.rows[i] = 0,
         mdeLease'.owner # p, mdeLease' \in [owner : Syncers \union {"none", "gone"}, until : Nat],
         mdeLease'.owner \in Syncers => mdeLease'.owner = mdeLease.owner,
         UNCHANGED <<clock, upstream, visible, mark, origin>>, misses' \in Nat,
         board' \in [Items -> Nat],
         \A i \in Items : board[i] <= board'[i] /\ board'[i] <= upstream[i]
  PROVE  MdeInv'
<1>1. MdeTypeOK'
  BY DEF MdeInv, MdeTypeOK
<1>2. \A q \in Syncers : poll'[q] = IF q = p THEN row ELSE poll[q]
  BY DEF MdeInv, MdeTypeOK
<1>3. \A i \in Items : board[i] = upstream[i] => board'[i] = upstream[i]
  BY DEF MdeInv, MdeTypeOK
<1>4. UpstreamInv' /\ MarkInv'
  BY DEF MdeInv, UpstreamInv, MarkInv
<1>5. PollInv'
  <2> SUFFICES ASSUME NEW q \in Syncers, poll'[q].at # "rest"
               PROVE  /\ 1 <= poll'[q].started /\ poll'[q].started <= clock
                      /\ \A i \in Items : poll'[q].rows[i] <= upstream[i]
    BY DEF PollInv
  <2>1. CASE q # p
    BY <2>1, <1>2 DEF MdeInv, PollInv
  <2>2. CASE q = p
    BY <2>2, <1>2 DEF MdeInv, MdeTypeOK
  <2> QED BY <2>1, <2>2
<1>6. OwnerInv'
  BY <1>2 DEF MdeInv, OwnerInv, Since
<1>7. FetchInv'
  <2> SUFFICES ASSUME NEW q \in Syncers, NEW k \in Items, Due(q, k)'
               PROVE  /\ poll'[q].at = "incidents" /\ k \in Alerts => poll'[q].rows[k] = upstream[k]
                      /\ poll'[q].at = "send" => poll'[q].rows[k] = upstream[k] \/ board'[k] = upstream[k]
    BY DEF FetchInv
  <2>1. CASE q # p
    BY <2>1, <1>2, <1>3 DEF MdeInv, FetchInv, Due
  <2>2. CASE q = p
    BY <2>2, <1>2
  <2> QED BY <2>1, <2>2
<1>8. WatermarkCovers'
  BY <1>3 DEF MdeInv, WatermarkCovers
<1> QED BY <1>1, <1>4, <1>5, <1>6, <1>7, <1>8 DEF MdeInv

LEMMA BeginSteps == ASSUME MdeInv, NEW p \in Syncers, Begin(p) PROVE MdeInv'
<1> DEFINE row == [Resting EXCEPT !.at = "begun", !.started = clock]
<1>1. /\ row \in Polls /\ row.at = "begun" /\ row.started = clock
      /\ \A i \in Items : row.rows[i] = 0
  BY DEF Resting, Polls, Holding, MdeInv, MdeTypeOK
<1>2. poll' = [poll EXCEPT ![p] = row]
  BY DEF Begin
<1>3. mdeLease.owner # p
  BY DEF Begin, MdeInv, OwnerInv, Holding
<1>4. /\ board' \in [Items -> Nat] /\ misses' \in Nat
      /\ \A i \in Items : board[i] <= board'[i] /\ board'[i] <= upstream[i]
      /\ UNCHANGED <<clock, upstream, visible, mark, origin, mdeLease>>
      /\ mdeLease \in [owner : Syncers \union {"none", "gone"}, until : Nat]
  BY DEF Begin, MdeInv, MdeTypeOK, UpstreamInv
<1> HIDE DEF row
<1> QED BY <1>1, <1>2, <1>3, <1>4, IdleSteps

\* Storing a row of the synchronization keeps Analyzer no newer than upstream.
LEMMA PostedFacts ==
  ASSUME MdeInv, NEW p \in Syncers, poll[p].at # "rest", NEW i \in Items
  PROVE  LET b == Posted(i, poll[p].rows[i])
         IN  /\ b \in [Items -> Nat]
             /\ \A k \in Items : board[k] <= b[k] /\ b[k] <= upstream[k]
             /\ poll[p].rows[i] = upstream[i] => b[i] = upstream[i]
<1>1. poll[p] \in Polls /\ poll[p].rows[i] \in Nat /\ poll[p].rows[i] <= upstream[i]
  BY DEF MdeInv, MdeTypeOK, PollInv, Polls
<1> QED BY <1>1 DEF Posted, MaxOf, MdeInv, MdeTypeOK, UpstreamInv

LEMMA FailSteps == ASSUME MdeInv, NEW p \in Syncers, Fail(p) PROVE MdeInv'
<1>1. poll[p].at # "rest"
  BY DEF Fail
<1>2. /\ board' \in [Items -> Nat]
      /\ \A k \in Items : board[k] <= board'[k] /\ board'[k] <= upstream[k]
  <2>1. CASE board' = board
    BY <2>1 DEF MdeInv, MdeTypeOK, UpstreamInv
  <2>2. ASSUME NEW i \in Next1(p), board' = Posted(i, poll[p].rows[i])
        PROVE  <1>2!1 /\ <1>2!2
    <3>1. i \in Items
      BY <2>2 DEF Next1, Left
    <3> QED BY <3>1, <2>2, <1>1, PostedFacts
  <2> QED BY <2>1, <2>2 DEF Fail
<1>3. /\ mdeLease' \in [owner : Syncers \union {"none", "gone"}, until : Nat]
      /\ mdeLease'.owner # p
      /\ mdeLease'.owner \in Syncers => mdeLease'.owner = mdeLease.owner
  BY MdeAssumption DEF Fail, MdeInv, MdeTypeOK
<1>4. misses' \in Nat
  BY DEF Fail, Miss, MdeInv, MdeTypeOK
<1> QED BY <1>2, <1>3, <1>4, RestingType, IdleSteps DEF Fail

LEMMA DieSteps == ASSUME MdeInv, NEW p \in Syncers, Die(p) PROVE MdeInv'
<1>1. /\ mdeLease' \in [owner : Syncers \union {"none", "gone"}, until : Nat]
      /\ mdeLease'.owner # p
      /\ mdeLease'.owner \in Syncers => mdeLease'.owner = mdeLease.owner
  BY MdeAssumption DEF Die, MdeInv, MdeTypeOK
<1>2. /\ board' \in [Items -> Nat] /\ misses' \in Nat
      /\ \A i \in Items : board[i] <= board'[i] /\ board'[i] <= upstream[i]
  BY DEF Die, Miss, MdeInv, MdeTypeOK, UpstreamInv
<1> QED BY <1>1, <1>2, RestingType, IdleSteps DEF Die

LEMMA SinceType ==
  ASSUME MdeInv, NEW t \in Nat
  PROVE  Since(t) \in Nat
BY MdeNatural DEF Since, Minus, MdeInv, MdeTypeOK

LEMMA AcquireSteps == ASSUME MdeInv, NEW p \in Syncers, Acquire(p) PROVE MdeInv'
<1>1. poll[p] \in Polls /\ poll[p].at = "begun" /\ poll[p].started \in Nat
  BY DEF Acquire, MdeInv, MdeTypeOK, Polls
<1>2. mdeLease.owner # p
  BY <1>1 DEF MdeInv, OwnerInv, Holding
<1>3. CASE mdeLease' = mdeLease /\ poll' = [poll EXCEPT ![p] = Resting]
  <2>1. /\ board' \in [Items -> Nat] /\ misses' \in Nat
        /\ \A i \in Items : board[i] <= board'[i] /\ board'[i] <= upstream[i]
        /\ UNCHANGED <<clock, upstream, visible, mark, origin, mdeLease>>
        /\ mdeLease \in [owner : Syncers \union {"none", "gone"}, until : Nat]
    BY <1>3 DEF Acquire, MdeInv, MdeTypeOK, UpstreamInv
  <2> QED BY <1>2, <1>3, <2>1, RestingType, IdleSteps
<1>4. CASE /\ mdeLease' = [owner |-> p, until |-> poll[p].started + LeaseTime]
           /\ poll' = [poll EXCEPT ![p].at = "alerts", ![p].since = Since(poll[p].started)]
  <2> DEFINE row == [poll[p] EXCEPT !.at = "alerts", !.since = Since(poll[p].started)]
  <2>1. /\ row \in Polls /\ row.at = "alerts" /\ row.since = Since(row.started)
        /\ row.started = poll[p].started /\ row.rows = poll[p].rows
    BY <1>1, SinceType DEF Polls, Holding
  <2>2. poll' = [poll EXCEPT ![p] = row]
    BY <1>4 DEF MdeInv, MdeTypeOK
  <2> HIDE DEF row
  <2>3. \A q \in Syncers : poll'[q] = IF q = p THEN row ELSE poll[q]
    BY <2>2 DEF MdeInv, MdeTypeOK
  <2>4. UNCHANGED <<clock, upstream, visible, mark, origin, board, misses>>
    BY DEF Acquire
  <2>5. MdeTypeOK'
    <3>1. mdeLease' \in [owner : Syncers \union {"none", "gone"}, until : Nat]
      BY <1>1, <1>4, MdeNatural
    <3>2. poll' \in [Syncers -> Polls]
      BY <2>1, <2>2 DEF MdeInv, MdeTypeOK
    <3> QED BY <3>1, <3>2, <2>4 DEF MdeInv, MdeTypeOK
  <2>6. UpstreamInv' /\ MarkInv' /\ WatermarkCovers'
    BY <2>4 DEF MdeInv, UpstreamInv, MarkInv, WatermarkCovers
  <2>7. PollInv'
    BY <1>1, <2>1, <2>3, <2>4 DEF MdeInv, PollInv
  <2>8. OwnerInv'
    BY <1>4, <2>1, <2>3, <2>4 DEF OwnerInv, Since, Holding
  <2>9. FetchInv'
    BY <2>1, <2>3, <2>4 DEF MdeInv, FetchInv, Due
  <2> QED BY <2>5, <2>6, <2>7, <2>8, <2>9 DEF MdeInv
<1> QED BY <1>3, <1>4 DEF Acquire

\* A synchronization that fetched: it keeps its times, its rows exist upstream, and what is
\* due is among them.
LEMMA FetchSteps ==
  ASSUME MdeInv, NEW p \in Syncers, NEW row \in Polls, poll[p].at \in Holding,
         poll' = [poll EXCEPT ![p] = row], row.at \in {"incidents", "send"},
         row.started = poll[p].started, row.since = poll[p].since,
         \A i \in Items : row.rows[i] <= upstream[i],
         \A i \in Items : Due(p, i) /\ (row.at = "send" \/ i \in Alerts) => row.rows[i] = upstream[i],
         UNCHANGED <<clock, upstream, visible, mark, origin, mdeLease, board, misses>>
  PROVE  MdeInv'
<1>1. \A q \in Syncers : poll'[q] = IF q = p THEN row ELSE poll[q]
  BY DEF MdeInv, MdeTypeOK
<1>2. MdeTypeOK'
  BY DEF MdeInv, MdeTypeOK
<1>3. UpstreamInv' /\ MarkInv' /\ WatermarkCovers'
  BY DEF MdeInv, UpstreamInv, MarkInv, WatermarkCovers
<1>4. PollInv'
  BY <1>1 DEF MdeInv, PollInv, Holding
<1>5. OwnerInv'
  BY <1>1 DEF MdeInv, OwnerInv, Since, Holding
<1>6. FetchInv'
  BY <1>1 DEF MdeInv, FetchInv, Due
<1> QED BY <1>2, <1>3, <1>4, <1>5, <1>6 DEF MdeInv

\* What is due is visible and asked for.
LEMMA DueIsAsked ==
  ASSUME MdeInv, NEW p \in Syncers, poll[p].at # "rest", NEW i \in Items, Due(p, i)
  PROVE  visible[i] = upstream[i] /\ Asked(p, i)
<1>1. poll[p].started <= clock /\ poll[p].started \in Nat /\ poll[p].since \in Nat
  BY DEF MdeInv, MdeTypeOK, PollInv, Polls
<1>2. visible[i] = upstream[i]
  BY <1>1, MdeNatural DEF MdeInv, MdeTypeOK, UpstreamInv, Due
<1> QED BY <1>1, <1>2 DEF Asked, Due, MdeInv, MdeTypeOK

LEMMA FetchAlertsSteps == ASSUME MdeInv, NEW p \in Syncers, FetchAlerts(p) PROVE MdeInv'
<1> DEFINE rows == [i \in Items |-> IF i \in Alerts /\ Asked(p, i) THEN visible[i] ELSE 0]
           row == [poll[p] EXCEPT !.at = "incidents", !.rows = rows]
<1>1. rows \in [Items -> Nat] /\ \A i \in Items : rows[i] <= upstream[i]
  BY DEF MdeInv, MdeTypeOK, UpstreamInv
<1>2. \A i \in Items : Due(p, i) /\ i \in Alerts => rows[i] = upstream[i]
  BY DueIsAsked DEF FetchAlerts
<1>3. poll' = [poll EXCEPT ![p].at = "incidents", ![p].rows = rows]
  BY DEF FetchAlerts
<1> HIDE DEF rows
<1>4. /\ row \in Polls /\ row.at = "incidents" /\ row.started = poll[p].started
      /\ row.since = poll[p].since /\ row.rows = rows
  BY <1>1 DEF Polls, Holding, MdeInv, MdeTypeOK
<1>5. poll' = [poll EXCEPT ![p] = row]
  BY <1>3 DEF MdeInv, MdeTypeOK
<1> HIDE DEF row
<1> QED BY <1>1, <1>2, <1>4, <1>5, FetchSteps DEF FetchAlerts, Holding

LEMMA FetchIncidentsSteps == ASSUME MdeInv, NEW p \in Syncers, FetchIncidents(p) PROVE MdeInv'
<1> DEFINE rows == [i \in Items |->
       IF i \in Incidents THEN (IF Asked(p, i) THEN visible[i] ELSE 0)
       ELSE IF \E n \in Incidents : i \in Members[n] /\ Asked(p, n)
         THEN MaxOf(poll[p].rows[i], visible[i]) ELSE poll[p].rows[i]]
           row == [poll[p] EXCEPT !.at = "send", !.rows = rows]
<1>1. /\ poll[p] \in Polls /\ poll[p].rows \in [Items -> Nat] /\ poll[p].at = "incidents"
      /\ \A i \in Items : poll[p].rows[i] <= upstream[i]
  BY DEF FetchIncidents, MdeInv, MdeTypeOK, PollInv, Polls
<1>2. rows \in [Items -> Nat] /\ \A i \in Items : rows[i] <= upstream[i]
  BY <1>1 DEF MdeInv, MdeTypeOK, UpstreamInv, MaxOf
<1>3. \A i \in Items : Due(p, i) => rows[i] = upstream[i]
  <2> SUFFICES ASSUME NEW i \in Items, Due(p, i) PROVE rows[i] = upstream[i]
    OBVIOUS
  <2>1. visible[i] = upstream[i] /\ Asked(p, i)
    BY <1>1, DueIsAsked
  <2>2. i \notin Incidents => poll[p].rows[i] = upstream[i]
    BY <1>1 DEF MdeInv, FetchInv, Items
  <2> QED BY <2>1, <2>2 DEF MaxOf
<1>4. poll' = [poll EXCEPT ![p].at = "send", ![p].rows = rows]
  BY DEF FetchIncidents
<1> HIDE DEF rows
<1>5. /\ row \in Polls /\ row.at = "send" /\ row.started = poll[p].started
      /\ row.since = poll[p].since /\ row.rows = rows
  BY <1>1, <1>2 DEF Polls, Holding
<1>6. poll' = [poll EXCEPT ![p] = row]
  BY <1>4 DEF MdeInv, MdeTypeOK
<1> HIDE DEF row
<1> QED BY <1>1, <1>2, <1>3, <1>5, <1>6, FetchSteps DEF FetchIncidents, Holding

LEMMA SendSteps == ASSUME MdeInv, NEW p \in Syncers, NEW i \in Items, Send(p, i) PROVE MdeInv'
<1> DEFINE rows == [poll[p].rows EXCEPT ![i] = 0]
           row == [poll[p] EXCEPT !.rows = rows]
<1>1. /\ poll[p] \in Polls /\ poll[p].rows \in [Items -> Nat] /\ poll[p].at = "send"
      /\ \A k \in Items : poll[p].rows[k] <= upstream[k]
  BY DEF Send, MdeInv, MdeTypeOK, PollInv, Polls
<1>2. /\ board' \in [Items -> Nat]
      /\ \A k \in Items : board[k] <= board'[k] /\ board'[k] <= upstream[k]
      /\ poll[p].rows[i] = upstream[i] => board'[i] = upstream[i]
  BY <1>1, PostedFacts DEF Send
<1>3. \A k \in Items : board[k] = upstream[k] => board'[k] = upstream[k]
  BY <1>2 DEF MdeInv, MdeTypeOK
<1>4. rows \in [Items -> Nat] /\ \A k \in Items : rows[k] = IF k = i THEN 0 ELSE poll[p].rows[k]
  BY <1>1
<1>5. poll' = [poll EXCEPT ![p] = row]
  BY <1>1 DEF Send, MdeInv, MdeTypeOK
<1> HIDE DEF rows
<1>6. /\ row \in Polls /\ row.at = "send" /\ row.started = poll[p].started
      /\ row.since = poll[p].since /\ row.rows = rows
  BY <1>1, <1>4 DEF Polls
<1> HIDE DEF row
<1>7. \A q \in Syncers : poll'[q] = IF q = p THEN row ELSE poll[q]
  BY <1>5 DEF MdeInv, MdeTypeOK
<1>8. UNCHANGED <<clock, upstream, visible, mark, origin, mdeLease, misses>>
  BY DEF Send
<1>9. MdeTypeOK'
  BY <1>2, <1>5, <1>6, <1>8 DEF MdeInv, MdeTypeOK
<1>10. UpstreamInv' /\ MarkInv' /\ WatermarkCovers'
  BY <1>2, <1>3, <1>8 DEF MdeInv, UpstreamInv, MarkInv, WatermarkCovers
<1>11. PollInv'
  <2> SUFFICES ASSUME NEW q \in Syncers, poll'[q].at # "rest"
               PROVE  /\ 1 <= poll'[q].started /\ poll'[q].started <= clock
                      /\ \A k \in Items : poll'[q].rows[k] <= upstream[k]
    BY <1>8 DEF PollInv
  <2>1. CASE q # p
    BY <2>1, <1>7 DEF MdeInv, PollInv
  <2>2. CASE q = p
    BY <2>2, <1>1, <1>4, <1>6, <1>7 DEF MdeInv, PollInv, MdeTypeOK
  <2> QED BY <2>1, <2>2
<1>12. OwnerInv'
  BY <1>1, <1>6, <1>7, <1>8 DEF MdeInv, OwnerInv, Since
<1>13. FetchInv'
  <2> SUFFICES ASSUME NEW q \in Syncers, NEW k \in Items, Due(q, k)'
               PROVE  /\ poll'[q].at = "incidents" /\ k \in Alerts => poll'[q].rows[k] = upstream[k]
                      /\ poll'[q].at = "send" => poll'[q].rows[k] = upstream[k] \/ board'[k] = upstream[k]
    BY <1>8 DEF FetchInv
  <2>1. CASE q # p
    BY <2>1, <1>3, <1>7, <1>8 DEF MdeInv, FetchInv, Due
  <2>2. CASE q = p
    <3>1. Due(p, k)
      BY <2>2, <1>6, <1>7, <1>8 DEF Due
    <3>2. poll[p].rows[k] = upstream[k] \/ board[k] = upstream[k]
      BY <3>1, <1>1 DEF MdeInv, FetchInv
    <3> QED BY <2>2, <3>2, <1>2, <1>3, <1>4, <1>6, <1>7
  <2> QED BY <2>1, <2>2
<1> QED BY <1>9, <1>10, <1>11, <1>12, <1>13 DEF MdeInv

\* The step the invariant is for: the owner moves the watermark.  Below the old one all
\* is stored already, and between the two the synchronization brought what it asked for.
LEMMA SucceedSteps == ASSUME MdeInv, NEW p \in Syncers, Succeed(p) PROVE MdeInv'
<1>1. /\ poll[p] \in Polls /\ poll[p].at = "send" /\ poll[p].started \in Nat
      /\ poll[p].since \in Nat /\ 1 <= poll[p].started /\ poll[p].started <= clock
  BY DEF Succeed, MdeInv, MdeTypeOK, PollInv, Polls
<1>2. /\ board' \in [Items -> Nat] /\ misses' \in Nat
      /\ \A i \in Items : board[i] <= board'[i] /\ board'[i] <= upstream[i]
      /\ UNCHANGED <<clock, upstream, visible, board>>
      /\ poll' = [poll EXCEPT ![p] = Resting]
  BY DEF Succeed, MdeInv, MdeTypeOK, UpstreamInv
<1>3. CASE mdeLease.owner # p
  <2>1. UNCHANGED <<mark, origin, mdeLease>>
    BY <1>3 DEF Succeed
  <2>2. mdeLease \in [owner : Syncers \union {"none", "gone"}, until : Nat]
    BY DEF MdeInv, MdeTypeOK
  <2> QED BY <1>2, <1>3, <2>1, <2>2, RestingType, IdleSteps
<1>4. CASE mdeLease.owner = p
  <2>1. /\ mark' = poll[p].started /\ origin' = IF mark = 0 THEN poll[p].since ELSE origin
        /\ mdeLease' = [owner |-> "none", until |-> 0] /\ misses' = misses
    BY <1>4 DEF Succeed, Committed
  <2>2. \A q \in Syncers : poll'[q] = IF q = p THEN Resting ELSE poll[q]
    BY <1>2 DEF MdeInv, MdeTypeOK
  <2>3. MdeTypeOK'
    BY <1>1, <1>2, <2>1, RestingType DEF MdeInv, MdeTypeOK
  <2>4. UpstreamInv' /\ MarkInv'
    BY <1>1, <1>2, <2>1 DEF MdeInv, UpstreamInv, MarkInv
  <2>5. PollInv' /\ FetchInv'
    BY <1>2, <2>2, RestingType DEF MdeInv, PollInv, FetchInv, Due
  <2>6. OwnerInv'
    BY <2>1, MdeAssumption DEF OwnerInv
  <2>7. WatermarkCovers'
    <3> SUFFICES ASSUME NEW i \in Items, upstream[i] >= MaxOf(origin', 1),
                        upstream[i] < Minus(mark', Overlap)
                 PROVE  board[i] = upstream[i]
      BY <1>2 DEF WatermarkCovers
    <3>1. upstream[i] \in Nat /\ upstream[i] >= 1 /\ upstream[i] >= origin' /\ mark \in Nat
      BY <1>1, <2>1 DEF MaxOf, MdeInv, MdeTypeOK
    <3>2. upstream[i] + Overlap < poll[p].started
      BY <1>1, <2>1, <3>1, MdeNatural DEF Minus
    <3>3. poll[p].since = IF mark = 0 THEN Minus(poll[p].started, Lookback) ELSE Minus(mark, Overlap)
      BY <1>4 DEF MdeInv, OwnerInv, Since
    <3>4. CASE upstream[i] >= poll[p].since
      <4>1. Due(p, i)
        BY <3>1, <3>2, <3>4 DEF Due
      <4>2. poll[p].rows[i] = 0
        BY <1>1 DEF Succeed, Left, Polls
      <4> QED BY <4>1, <4>2, <1>1, <3>1 DEF MdeInv, FetchInv
    <3>5. CASE ~(upstream[i] >= poll[p].since)
      <4>1. mark # 0 /\ origin' = origin
        BY <3>1, <3>5, <2>1, <1>1
      <4>2. upstream[i] < Minus(mark, Overlap)
        BY <3>1, <3>3, <3>5, <4>1, <1>1
      <4>3. upstream[i] >= MaxOf(origin, 1) /\ mark > 0
        BY <3>1, <4>1 DEF MaxOf
      <4> QED BY <4>2, <4>3 DEF MdeInv, WatermarkCovers
    <3> QED BY <3>4, <3>5
  <2> QED BY <2>3, <2>4, <2>5, <2>6, <2>7 DEF MdeInv
<1> QED BY <1>3, <1>4

\* WatermarkCovers for every overlap, lookback, lease time and number of polling
\* processes: sync_once never moves the watermark past an update that Analyzer lacks,
\* even when a lease expires under its owner and another process takes it over.
THEOREM UpdatesAreCovered == MdeSpec => []WatermarkCovers
<1>1. MdeInit => MdeInv
  <2> SUFFICES ASSUME MdeInit PROVE MdeInv
    OBVIOUS
  <2>1. MdeTypeOK
    BY RestingType DEF MdeInit, MdeTypeOK
  <2>2. UpstreamInv /\ MarkInv /\ WatermarkCovers
    BY MdeNatural DEF MdeInit, UpstreamInv, MarkInv, WatermarkCovers
  <2>3. PollInv /\ FetchInv
    BY RestingType DEF MdeInit, PollInv, FetchInv
  <2>4. OwnerInv
    BY MdeAssumption DEF MdeInit, OwnerInv
  <2> QED BY <2>1, <2>2, <2>3, <2>4 DEF MdeInv
<1>2. MdeInv /\ [MdeNext]_mdeVars => MdeInv'
  <2> SUFFICES ASSUME MdeInv, [MdeNext]_mdeVars PROVE MdeInv'
    OBVIOUS
  <2>1. CASE UNCHANGED mdeVars
    BY <2>1 DEF mdeVars, MdeInv, MdeTypeOK, UpstreamInv, PollInv, OwnerInv, FetchInv, MarkInv,
                WatermarkCovers, Due, Since
  <2>2. CASE Pass \/ \E i \in Items : Change(i) \/ Appear(i)
    BY <2>2, UpstreamSteps
  <2>3. ASSUME NEW p \in Syncers,
               \/ Begin(p) \/ Acquire(p) \/ FetchAlerts(p) \/ FetchIncidents(p)
               \/ Succeed(p) \/ Fail(p) \/ Die(p) \/ \E i \in Items : Send(p, i)
        PROVE  MdeInv'
    BY <2>3, BeginSteps, AcquireSteps, FetchAlertsSteps, FetchIncidentsSteps, SucceedSteps,
       FailSteps, DieSteps, SendSteps
  <2> QED BY <2>1, <2>2, <2>3 DEF MdeNext
<1>3. MdeInv => WatermarkCovers
  BY DEF MdeInv
<1> QED BY <1>1, <1>2, <1>3, PTL DEF MdeSpec

(***************************************************************************)
(* Vulnerabilities: mdvm.py.                                               *)
(***************************************************************************)
Rounds == {"fetch", "apply", "snapshot", "send"}

Changes == [f : Findings, on : BOOLEAN, t : Nat]

VmTypeOK ==
  /\ vmClock \in Nat /\ vuln \in [Findings -> [on : BOOLEAN, t : Nat]]
  /\ vmState \in [mark : Nat, base : Nat, owner : VmSyncers \union {"none", "gone"}, until : Nat]
  /\ active \in SUBSET Findings
  /\ vmPoll = [p \in VmSyncers |-> vmPoll[p]]
  /\ \A p \in VmSyncers : /\ DOMAIN vmPoll[p] = {"at", "started", "mode", "changes", "snaps"}
                          /\ vmPoll[p].at \in Rounds \union {"rest"}
                          /\ vmPoll[p].started \in Nat /\ vmPoll[p].changes \in SUBSET Changes

VmTimes ==
  /\ vmState.mark <= vmClock
  /\ \A f \in Findings : vuln[f].t <= vmClock
  /\ \A p \in VmSyncers : vmPoll[p].started <= vmClock

\* The owner of the state row works on a round that began at or after the watermark.
RoundOwned == \A p \in VmSyncers : vmState.owner = p =>
  vmPoll[p].at \in Rounds /\ vmState.mark <= vmPoll[p].started

\* What f was like when the round p began is what it is like now.
Settled(p, f) == vuln[f].t > 0 /\ vuln[f].t < vmPoll[p].started

\* The owner's export tells the truth of what was settled when it began: a baseline lists
\* all of it that is active, a delta all that changed since the watermark less the overlap.
ExportInv ==
  \A p \in VmSyncers : vmState.owner = p /\ vmPoll[p].at = "apply" =>
    \A f \in Findings : Settled(p, f) =>
      /\ \A c \in vmPoll[p].changes : c.f = f => c.on = vuln[f].on
      /\ \/ \E c \in vmPoll[p].changes : c.f = f
         \/ vmPoll[p].mode = "baseline" /\ vuln[f].on = FALSE
         \/ vmPoll[p].mode # "baseline" /\ vuln[f].t < vmState.mark

\* Once the owner has changed the set, it is right up to the start of the round.
AppliedInv ==
  \A p \in VmSyncers : vmState.owner = p /\ vmPoll[p].at \in {"snapshot", "send"} =>
    \A f \in Findings : Settled(p, f) => (f \in active <=> vuln[f].on)

VmInv == /\ VmTypeOK /\ VmTimes /\ RoundOwned /\ ExportInv /\ AppliedInv
         /\ MaterializedIsUpstream

LEMMA VmNatural ==
  {Refresh, Horizon, DeltaOverlap, VmLeaseTime, MaxVmTime, MaxVmMisses} \subseteq Nat
BY MdvmAssumption

LEMMA VmIdleType ==
  /\ DOMAIN VmIdle = {"at", "started", "mode", "changes", "snaps"} /\ VmIdle.at = "rest"
  /\ VmIdle.started = 0 /\ VmIdle.changes = {} /\ VmIdle.snaps = {}
BY DEF VmIdle

LEMMA VmPassSteps == ASSUME VmInv, VmPass PROVE VmInv'
<1>1. VmTypeOK'
  BY DEF VmPass, VmInv, VmTypeOK
<1>2. VmTimes'
  BY DEF VmPass, VmInv, VmTypeOK, VmTimes
<1>3. RoundOwned' /\ ExportInv' /\ AppliedInv' /\ MaterializedIsUpstream'
  BY DEF VmPass, VmInv, RoundOwned, ExportInv, AppliedInv, MaterializedIsUpstream, Settled, Synced
<1> QED BY <1>1, <1>2, <1>3 DEF VmInv

\* A finding that changes now is settled for no round and below no watermark.
LEMMA FlipFacts ==
  ASSUME VmInv, NEW g \in Findings, Flip(g)
  PROVE  /\ vuln' \in [Findings -> [on : BOOLEAN, t : Nat]] /\ vuln'[g].t = vmClock
         /\ \A f \in Findings : f # g => vuln'[f] = vuln[f]
         /\ \A p \in VmSyncers, f \in Findings : Settled(p, f)' => f # g /\ Settled(p, f)
         /\ \A f \in Findings : Synced(f)' => f # g /\ Synced(f)
<1>1. /\ vuln' \in [Findings -> [on : BOOLEAN, t : Nat]] /\ vuln'[g].t = vmClock
      /\ \A f \in Findings : f # g => vuln'[f] = vuln[f]
  <2>1. [on |-> ~vuln[g].on, t |-> vmClock] \in [on : BOOLEAN, t : Nat]
    BY DEF VmInv, VmTypeOK
  <2>2. vuln' = [vuln EXCEPT ![g] = [on |-> ~vuln[g].on, t |-> vmClock]]
    BY DEF Flip
  <2> QED BY <2>1, <2>2 DEF VmInv, VmTypeOK
<1>2. UNCHANGED <<vmState, vmPoll>>
  BY DEF Flip
<1>3. \A p \in VmSyncers, f \in Findings : Settled(p, f)' => f # g /\ Settled(p, f)
  BY <1>1, <1>2 DEF VmInv, VmTypeOK, VmTimes, Settled
<1>4. \A f \in Findings : Synced(f)' => f # g /\ Synced(f)
  BY <1>1, <1>2 DEF VmInv, VmTypeOK, VmTimes, Synced
<1> QED BY <1>1, <1>3, <1>4

LEMMA FlipSteps == ASSUME VmInv, NEW g \in Findings, Flip(g) PROVE VmInv'
<1>1. /\ vuln' \in [Findings -> [on : BOOLEAN, t : Nat]] /\ vuln'[g].t = vmClock
      /\ \A f \in Findings : f # g => vuln'[f] = vuln[f]
  BY FlipFacts
<1>2. UNCHANGED <<vmClock, vmState, active, vmPoll>>
  BY DEF Flip
<1>3. VmTypeOK'
  BY <1>1, <1>2 DEF VmInv, VmTypeOK
<1>4. VmTimes'
  BY <1>1, <1>2 DEF VmInv, VmTypeOK, VmTimes
<1>5. RoundOwned'
  BY <1>2 DEF VmInv, RoundOwned
<1>6. \A p \in VmSyncers, f \in Findings : Settled(p, f)' => f # g /\ Settled(p, f)
  BY FlipFacts
<1>7. \A f \in Findings : Synced(f)' => f # g /\ Synced(f)
  BY FlipFacts
<1>8. ExportInv'
  BY <1>1, <1>2, <1>6 DEF VmInv, ExportInv
<1>9. AppliedInv'
  BY <1>1, <1>2, <1>6 DEF VmInv, AppliedInv
<1>10. MaterializedIsUpstream'
  BY <1>1, <1>2, <1>7 DEF VmInv, MaterializedIsUpstream
<1> QED BY <1>3, <1>4, <1>5, <1>8, <1>9, <1>10 DEF VmInv

\* A round ends: it is over for p, who does not own the row any more.
LEMMA RoundEnds ==
  ASSUME VmInv, NEW p \in VmSyncers, vmPoll' = [vmPoll EXCEPT ![p] = VmIdle],
         vmState' \in [mark : Nat, base : Nat, owner : VmSyncers \union {"none", "gone"}, until : Nat],
         vmState'.mark = vmState.mark, vmState'.owner # p,
         vmState'.owner \in VmSyncers => vmState'.owner = vmState.owner,
         UNCHANGED <<vmClock, vuln, active>>
  PROVE  VmInv'
<1>1. /\ \A q \in VmSyncers : vmPoll'[q] = IF q = p THEN VmIdle ELSE vmPoll[q]
      /\ vmPoll' = [q \in VmSyncers |-> vmPoll'[q]]
  BY DEF VmInv, VmTypeOK
<1>2. VmTypeOK'
  BY <1>1, VmIdleType DEF VmInv, VmTypeOK
<1>3. VmTimes'
  BY <1>1, VmIdleType DEF VmInv, VmTypeOK, VmTimes
<1>4. RoundOwned'
  BY <1>1 DEF VmInv, RoundOwned
<1>5. ExportInv'
  BY <1>1 DEF VmInv, ExportInv, Settled
<1>6. AppliedInv'
  BY <1>1 DEF VmInv, AppliedInv, Settled
<1>7. MaterializedIsUpstream'
  BY DEF VmInv, MaterializedIsUpstream, Synced
<1> QED BY <1>2, <1>3, <1>4, <1>5, <1>6, <1>7 DEF VmInv

LEMMA VmFailSteps == ASSUME VmInv, NEW p \in VmSyncers, VmFail(p) PROVE VmInv'
<1>1. /\ vmState' \in [mark : Nat, base : Nat, owner : VmSyncers \union {"none", "gone"}, until : Nat]
      /\ vmState'.mark = vmState.mark /\ vmState'.owner # p
      /\ vmState'.owner \in VmSyncers => vmState'.owner = vmState.owner
  BY MdvmAssumption DEF VmFail, Unleased, VmInv, VmTypeOK
<1> QED BY <1>1, RoundEnds DEF VmFail

LEMMA VmDieSteps == ASSUME VmInv, NEW p \in VmSyncers, VmDie(p) PROVE VmInv'
<1>1. /\ vmState' \in [mark : Nat, base : Nat, owner : VmSyncers \union {"none", "gone"}, until : Nat]
      /\ vmState'.mark = vmState.mark /\ vmState'.owner # p
      /\ vmState'.owner \in VmSyncers => vmState'.owner = vmState.owner
  BY MdvmAssumption DEF VmDie, VmInv, VmTypeOK
<1> QED BY <1>1, RoundEnds DEF VmDie

\* The owner moves the watermark to the start of its round, up to which the set is right.
LEMMA VmSucceedSteps == ASSUME VmInv, NEW p \in VmSyncers, VmSucceed(p) PROVE VmInv'
<1>1. CASE vmState.owner # p
  <2>1. vmState' = vmState
    BY <1>1 DEF VmSucceed
  <2> QED BY <1>1, <2>1, RoundEnds DEF VmSucceed, VmInv, VmTypeOK
<1>2. CASE vmState.owner = p
  <2>1. /\ vmState' \in [mark : Nat, base : Nat, owner : VmSyncers \union {"none", "gone"}, until : Nat]
        /\ vmState'.mark = vmPoll[p].started /\ vmState'.owner = "none"
    BY <1>2 DEF VmSucceed, Unleased, VmInv, VmTypeOK
  <2>2. /\ \A q \in VmSyncers : vmPoll'[q] = IF q = p THEN VmIdle ELSE vmPoll[q]
        /\ vmPoll' = [q \in VmSyncers |-> vmPoll'[q]]
        /\ UNCHANGED <<vmClock, vuln, active>> /\ vmPoll[p].at = "send"
    BY DEF VmSucceed, VmInv, VmTypeOK
  <2>3. VmTypeOK'
    BY <2>1, <2>2, VmIdleType DEF VmInv, VmTypeOK
  <2>4. VmTimes'
    BY <2>1, <2>2, VmIdleType DEF VmInv, VmTypeOK, VmTimes
  <2>5. RoundOwned' /\ ExportInv' /\ AppliedInv'
    BY <2>1, MdvmAssumption DEF RoundOwned, ExportInv, AppliedInv
  <2>6. MaterializedIsUpstream'
    BY <1>2, <2>1, <2>2 DEF VmInv, AppliedInv, MaterializedIsUpstream, Synced, Settled
  <2> QED BY <2>3, <2>4, <2>5, <2>6 DEF VmInv
<1> QED BY <1>1, <1>2

\* A round begins or goes on: the row p has keeps its start, or starts now as the owner.
LEMMA RoundGoesOn ==
  ASSUME VmInv, NEW p \in VmSyncers, vmPoll' = [vmPoll EXCEPT ![p] = vmPoll'[p]],
         DOMAIN vmPoll'[p] = {"at", "started", "mode", "changes", "snaps"},
         vmPoll'[p].at \in Rounds, vmPoll'[p].started \in Nat, vmPoll'[p].started <= vmClock,
         vmPoll'[p].changes \in SUBSET Changes,
         vmState' \in [mark : Nat, base : Nat, owner : VmSyncers \union {"none", "gone"}, until : Nat],
         vmState'.mark = vmState.mark, vmState'.owner \in {vmState.owner, p},
         UNCHANGED <<vmClock, vuln>>, active' \in SUBSET Findings,
         vmState'.owner # p => active' = active,
         vmState'.owner = p => vmState.mark <= vmPoll'[p].started
  PROVE  /\ \A q \in VmSyncers : q # p => vmPoll'[q] = vmPoll[q]
         /\ VmTypeOK' /\ VmTimes' /\ RoundOwned'
         /\ vmState'.owner # p => ExportInv' /\ AppliedInv' /\ MaterializedIsUpstream'
<1>1. /\ \A q \in VmSyncers : q # p => vmPoll'[q] = vmPoll[q]
      /\ vmPoll' = [q \in VmSyncers |-> vmPoll'[q]]
  BY DEF VmInv, VmTypeOK
<1>2. VmTypeOK'
  BY <1>1 DEF VmInv, VmTypeOK
<1>3. VmTimes'
  BY <1>1 DEF VmInv, VmTypeOK, VmTimes
<1>4. RoundOwned'
  BY <1>1 DEF VmInv, RoundOwned
<1>5. ASSUME vmState'.owner # p
      PROVE  ExportInv' /\ AppliedInv' /\ MaterializedIsUpstream'
  <2>1. ExportInv'
    BY <1>1, <1>5 DEF VmInv, ExportInv, Settled
  <2>2. AppliedInv'
    BY <1>1, <1>5 DEF VmInv, AppliedInv, Settled
  <2>3. MaterializedIsUpstream'
    BY <1>5 DEF VmInv, MaterializedIsUpstream, Synced
  <2> QED BY <2>1, <2>2, <2>3
<1> QED BY <1>1, <1>2, <1>3, <1>4, <1>5

LEMMA VmAcquireSteps == ASSUME VmInv, NEW p \in VmSyncers, VmAcquire(p) PROVE VmInv'
<1> DEFINE row == [VmIdle EXCEPT !.at = "fetch", !.started = vmClock,
                                 !.mode = IF BaselineDue(vmClock) THEN "baseline" ELSE "delta"]
<1>1. /\ DOMAIN row = {"at", "started", "mode", "changes", "snaps"} /\ row.at = "fetch"
      /\ row.started = vmClock /\ row.changes = {}
  BY VmIdleType DEF VmIdle
<1>2. vmPoll' = [vmPoll EXCEPT ![p] = row]
  BY DEF VmAcquire
<1> HIDE DEF row
<1>3. /\ DOMAIN vmPoll'[p] = {"at", "started", "mode", "changes", "snaps"}
      /\ vmPoll'[p].at = "fetch" /\ vmPoll'[p].started = vmClock /\ vmPoll'[p].changes = {}
      /\ vmPoll' = [vmPoll EXCEPT ![p] = vmPoll'[p]]
  BY <1>1, <1>2 DEF VmInv, VmTypeOK
<1>4. /\ vmState' \in [mark : Nat, base : Nat, owner : VmSyncers \union {"none", "gone"}, until : Nat]
      /\ vmState'.mark = vmState.mark /\ vmState'.owner = p
  <2>1. vmClock + VmLeaseTime \in Nat
    BY VmNatural DEF VmInv, VmTypeOK
  <2> QED BY <2>1 DEF VmAcquire, VmInv, VmTypeOK
<1>5. /\ UNCHANGED <<vmClock, vuln, active>> /\ vmClock \in Nat /\ vmClock <= vmClock
      /\ vmState.mark <= vmClock /\ active' \in SUBSET Findings
  BY DEF VmAcquire, VmInv, VmTypeOK, VmTimes
<1>6. /\ \A q \in VmSyncers : q # p => vmPoll'[q] = vmPoll[q]
      /\ VmTypeOK' /\ VmTimes' /\ RoundOwned'
  BY <1>3, <1>4, <1>5, RoundGoesOn DEF Rounds
<1>7. ExportInv' /\ AppliedInv'
  BY <1>3, <1>4 DEF ExportInv, AppliedInv
<1>8. MaterializedIsUpstream'
  BY <1>4, <1>5 DEF VmInv, MaterializedIsUpstream, Synced
<1> QED BY <1>6, <1>7, <1>8 DEF VmInv

\* An export tells the truth, and all of it that the mode asks for.
LEMMA ExportFacts ==
  ASSUME VmInv, NEW mode
  PROVE  /\ Exported(mode) \in SUBSET Changes
         /\ \A c \in Exported(mode) : c.f \in Findings /\ c.on = vuln[c.f].on /\ c.t = vuln[c.f].t
         /\ \A f \in Findings :
              (IF mode = "baseline" THEN vuln[f].on
               ELSE vuln[f].t > 0 /\ vuln[f].t >= Before(vmState.mark, DeltaOverlap))
                => \E c \in Exported(mode) : c.f = f
<1>1. Exported(mode) \in SUBSET Changes
  BY DEF Exported, Changes, VmInv, VmTypeOK
<1>2. \A c \in Exported(mode) : c.f \in Findings /\ c.on = vuln[c.f].on /\ c.t = vuln[c.f].t
  BY DEF Exported
<1>3. ASSUME NEW f \in Findings,
             IF mode = "baseline" THEN vuln[f].on
             ELSE vuln[f].t > 0 /\ vuln[f].t >= Before(vmState.mark, DeltaOverlap)
      PROVE  \E c \in Exported(mode) : c.f = f
  <2>1. [f |-> f, on |-> vuln[f].on, t |-> vuln[f].t] \in Exported(mode)
    BY <1>3 DEF Exported
  <2> QED BY <2>1
<1> QED BY <1>1, <1>2, <1>3

LEMMA VmFetchSteps == ASSUME VmInv, NEW p \in VmSyncers, VmFetch(p) PROVE VmInv'
<1> DEFINE cs == Exported(vmPoll[p].mode)
<1>1. cs \in SUBSET Changes
  BY ExportFacts
<1>2. \A c \in cs : c.f \in Findings /\ c.on = vuln[c.f].on
  BY ExportFacts
<1>3. \A f \in Findings :
        (IF vmPoll[p].mode = "baseline" THEN vuln[f].on
         ELSE vuln[f].t > 0 /\ vuln[f].t >= Before(vmState.mark, DeltaOverlap))
          => \E c \in cs : c.f = f
  BY ExportFacts
<1>4. vmPoll' = [vmPoll EXCEPT ![p].at = "apply", ![p].changes = cs] /\ vmPoll[p].at = "fetch"
  BY DEF VmFetch
<1> HIDE DEF cs
<1>5. /\ DOMAIN vmPoll'[p] = {"at", "started", "mode", "changes", "snaps"}
      /\ vmPoll'[p].at = "apply" /\ vmPoll'[p].started = vmPoll[p].started
      /\ vmPoll'[p].changes = cs /\ vmPoll'[p].mode = vmPoll[p].mode
      /\ vmPoll' = [vmPoll EXCEPT ![p] = vmPoll'[p]]
  BY <1>4 DEF VmInv, VmTypeOK
<1>6. /\ UNCHANGED <<vmClock, vuln, vmState, active>> /\ vmPoll[p].started \in Nat
      /\ vmPoll[p].started <= vmClock /\ active' \in SUBSET Findings
      /\ vmState' \in [mark : Nat, base : Nat, owner : VmSyncers \union {"none", "gone"}, until : Nat]
      /\ vmState.owner = p => vmState.mark <= vmPoll[p].started
  BY DEF VmFetch, VmInv, VmTypeOK, VmTimes, RoundOwned
<1>7. /\ \A q \in VmSyncers : q # p => vmPoll'[q] = vmPoll[q]
      /\ VmTypeOK' /\ VmTimes' /\ RoundOwned'
      /\ vmState'.owner # p => ExportInv' /\ AppliedInv' /\ MaterializedIsUpstream'
  BY <1>1, <1>5, <1>6, RoundGoesOn DEF Rounds
<1>8. CASE vmState.owner = p
  <2>1. AppliedInv' /\ MaterializedIsUpstream'
    BY <1>5, <1>6, <1>8 DEF VmInv, AppliedInv, MaterializedIsUpstream, Synced
  <2>2. ExportInv'
    <3> SUFFICES ASSUME NEW f \in Findings, vuln[f].t > 0, vuln[f].t < vmPoll[p].started
                 PROVE  /\ \A c \in cs : c.f = f => c.on = vuln[f].on
                        /\ \/ \E c \in cs : c.f = f
                           \/ vmPoll[p].mode = "baseline" /\ vuln[f].on = FALSE
                           \/ vmPoll[p].mode # "baseline" /\ vuln[f].t < vmState.mark
      <4>1. /\ vuln' = vuln /\ vmState' = vmState /\ vmPoll'[p].started = vmPoll[p].started
            /\ vmPoll'[p].changes = cs /\ vmPoll'[p].mode = vmPoll[p].mode
        BY <1>5, <1>6
      <4>2. \A q \in VmSyncers : vmState'.owner = q => q = p
        BY <1>8, <4>1
      <4> QED BY <4>1, <4>2 DEF ExportInv, Settled
    <3>1. \A c \in cs : c.f = f => c.on = vuln[f].on
      BY <1>2
    <3>2. CASE vmPoll[p].mode = "baseline"
      <4>1. vuln[f].on \in BOOLEAN
        BY DEF VmInv, VmTypeOK
      <4> QED BY <4>1, <3>1, <3>2, <1>3
    <3>3. CASE vmPoll[p].mode # "baseline"
      <4>1. vuln[f].t \in Nat /\ vmState.mark \in Nat
        BY DEF VmInv, VmTypeOK
      <4>2. vuln[f].t >= Before(vmState.mark, DeltaOverlap) \/ vuln[f].t < vmState.mark
        BY <4>1, VmNatural DEF Before
      <4> QED BY <4>2, <3>1, <3>3, <1>3
    <3> QED BY <3>2, <3>3
  <2> QED BY <1>7, <2>1, <2>2 DEF VmInv
<1> QED BY <1>6, <1>7, <1>8 DEF VmInv

\* The owner's transaction: the set is right for what was settled when the round began,
\* by the export, or by the old set where a delta does not reach.
LEMMA VmApplySteps == ASSUME VmInv, NEW p \in VmSyncers, VmApply(p) PROVE VmInv'
<1>1. CASE vmState.owner # p
  <2>1. /\ UNCHANGED <<vmClock, vuln, vmState, active>>
        /\ vmPoll' = [vmPoll EXCEPT ![p] = VmIdle]
    BY <1>1 DEF VmApply
  <2> QED BY <1>1, <2>1, RoundEnds DEF VmInv, VmTypeOK
<1>2. CASE vmState.owner = p
  <2> DEFINE cs == vmPoll[p].changes
             mode == vmPoll[p].mode
  <2>1. /\ vmPoll[p].at = "apply" /\ UNCHANGED <<vmClock, vuln, vmState>>
        /\ active' = {c.f : c \in {x \in cs : x.on}} \union (Kept(mode) \ {c.f : c \in cs})
        /\ vmPoll' = [vmPoll EXCEPT ![p].at = "snapshot"]
    BY <1>2 DEF VmApply
  <2>2. /\ DOMAIN vmPoll'[p] = {"at", "started", "mode", "changes", "snaps"}
        /\ vmPoll'[p].at = "snapshot" /\ vmPoll'[p].started = vmPoll[p].started
        /\ vmPoll'[p].changes = cs
        /\ vmPoll' = [vmPoll EXCEPT ![p] = vmPoll'[p]]
    BY <2>1 DEF VmInv, VmTypeOK
  <2>3. /\ cs \in SUBSET Changes /\ vmPoll[p].started \in Nat
        /\ vmPoll[p].started <= vmClock /\ vmState.mark <= vmPoll[p].started
        /\ vmState' \in [mark : Nat, base : Nat, owner : VmSyncers \union {"none", "gone"}, until : Nat]
    BY <1>2, <2>1 DEF VmInv, VmTypeOK, VmTimes, RoundOwned
  <2>4. active' \in SUBSET Findings
    BY <2>1, <2>3 DEF Kept, Changes, VmInv, VmTypeOK
  <2>5. \A f \in Findings : Settled(p, f) => (f \in active' <=> vuln[f].on)
    <3> SUFFICES ASSUME NEW f \in Findings, Settled(p, f)
                 PROVE  f \in active' <=> vuln[f].on
      OBVIOUS
    <3>1. /\ \A c \in cs : c.f = f => c.on = vuln[f].on
          /\ \/ \E c \in cs : c.f = f
             \/ mode = "baseline" /\ vuln[f].on = FALSE
             \/ mode # "baseline" /\ vuln[f].t < vmState.mark
      BY <1>2, <2>1 DEF VmInv, ExportInv
    <3>2. CASE \E c \in cs : c.f = f
      BY <3>1, <3>2, <2>1
    <3>3. CASE ~(\E c \in cs : c.f = f) /\ mode = "baseline" /\ vuln[f].on = FALSE
      BY <3>3, <2>1 DEF Kept
    <3>4. CASE ~(\E c \in cs : c.f = f) /\ mode # "baseline" /\ vuln[f].t < vmState.mark
      <4>1. f \in active <=> vuln[f].on
        BY <3>4 DEF VmInv, MaterializedIsUpstream, Synced, Settled
      <4>2. f \in active' <=> f \in active
        BY <3>4, <2>1 DEF Kept
      <4> QED BY <4>1, <4>2
    <3> QED BY <3>1, <3>2, <3>3, <3>4
  <2> HIDE DEF cs, mode
  <2>6. VmTypeOK' /\ VmTimes' /\ RoundOwned'
    BY <1>2, <2>1, <2>2, <2>3, <2>4, RoundGoesOn DEF Rounds
  <2>7. ExportInv' /\ AppliedInv'
    BY <1>2, <2>1, <2>2, <2>5 DEF ExportInv, AppliedInv, Settled
  <2>8. MaterializedIsUpstream'
    <3> SUFFICES ASSUME NEW f \in Findings, vuln[f].t > 0, vuln[f].t < vmState.mark
                 PROVE  f \in active' <=> vuln[f].on
      BY <2>1 DEF MaterializedIsUpstream, Synced
    <3>1. vuln[f].t \in Nat /\ vmState.mark \in Nat
      BY DEF VmInv, VmTypeOK
    <3>2. Settled(p, f)
      BY <2>3, <3>1 DEF Settled
    <3> QED BY <2>5, <3>2
  <2> QED BY <2>6, <2>7, <2>8 DEF VmInv
<1> QED BY <1>1, <1>2

\* Handing over changes neither the set nor the row.
LEMMA HandOverSteps ==
  ASSUME VmInv, NEW p \in VmSyncers,
         vmPoll[p].at \in {"snapshot", "send"}, vmPoll'[p].at = "send",
         vmPoll' = [vmPoll EXCEPT ![p] = vmPoll'[p]],
         DOMAIN vmPoll'[p] = {"at", "started", "mode", "changes", "snaps"},
         vmPoll'[p].started = vmPoll[p].started, vmPoll'[p].changes = vmPoll[p].changes,
         UNCHANGED <<vmClock, vuln, vmState, active>>
  PROVE  VmInv'
<1>1. /\ vmPoll[p].changes \in SUBSET Changes /\ vmPoll[p].started \in Nat
      /\ vmPoll[p].started <= vmClock /\ active' \in SUBSET Findings
      /\ vmState' \in [mark : Nat, base : Nat, owner : VmSyncers \union {"none", "gone"}, until : Nat]
      /\ vmState.owner = p => vmState.mark <= vmPoll[p].started
  BY DEF VmInv, VmTypeOK, VmTimes, RoundOwned
<1>2. /\ VmTypeOK' /\ VmTimes' /\ RoundOwned'
      /\ vmState'.owner # p => ExportInv' /\ AppliedInv' /\ MaterializedIsUpstream'
  BY <1>1, RoundGoesOn DEF Rounds
<1>3. CASE vmState.owner = p
  <2>1. ExportInv'
    BY <1>3 DEF ExportInv
  <2>2. AppliedInv'
    BY <1>3 DEF VmInv, AppliedInv, Settled
  <2>3. MaterializedIsUpstream'
    BY DEF VmInv, MaterializedIsUpstream, Synced
  <2> QED BY <1>2, <2>1, <2>2, <2>3 DEF VmInv
<1> QED BY <1>2, <1>3 DEF VmInv

LEMMA VmInvStep == VmInv /\ [MdvmNext]_vmVars => VmInv'
<1> SUFFICES ASSUME VmInv, [MdvmNext]_vmVars PROVE VmInv'
  OBVIOUS
<1>1. CASE UNCHANGED vmVars
  BY <1>1 DEF vmVars, VmInv, VmTypeOK, VmTimes, RoundOwned, ExportInv, AppliedInv,
              MaterializedIsUpstream, Synced, Settled
<1>2. ASSUME NEW p \in VmSyncers, VmSnapshot(p)
      PROVE  VmInv'
  <2>1. /\ DOMAIN vmPoll'[p] = {"at", "started", "mode", "changes", "snaps"}
        /\ vmPoll'[p].at = "send" /\ vmPoll'[p].started = vmPoll[p].started
        /\ vmPoll'[p].changes = vmPoll[p].changes
        /\ vmPoll' = [vmPoll EXCEPT ![p] = vmPoll'[p]]
    BY <1>2 DEF VmSnapshot, VmInv, VmTypeOK
  <2> QED BY <1>2, <2>1, HandOverSteps DEF VmSnapshot
<1>3. ASSUME NEW p \in VmSyncers, NEW s \in vmPoll[p].snaps, VmSend(p, s)
      PROVE  VmInv'
  <2>1. /\ DOMAIN vmPoll'[p] = {"at", "started", "mode", "changes", "snaps"}
        /\ vmPoll'[p].at = "send" /\ vmPoll'[p].started = vmPoll[p].started
        /\ vmPoll'[p].changes = vmPoll[p].changes
        /\ vmPoll' = [vmPoll EXCEPT ![p] = vmPoll'[p]]
    BY <1>3 DEF VmSend, VmInv, VmTypeOK
  <2> QED BY <1>3, <2>1, HandOverSteps DEF VmSend
<1>4. ASSUME NEW p \in VmSyncers,
             VmAcquire(p) \/ VmFetch(p) \/ VmApply(p) \/ VmSucceed(p) \/ VmFail(p) \/ VmDie(p)
      PROVE  VmInv'
  BY <1>4, VmAcquireSteps, VmFetchSteps, VmApplySteps, VmSucceedSteps, VmFailSteps, VmDieSteps
<1> QED BY <1>1, <1>2, <1>3, <1>4, VmPassSteps, FlipSteps DEF MdvmNext

LEMMA VmInvInit == MdvmInit => VmInv
<1> SUFFICES ASSUME MdvmInit PROVE VmInv
  OBVIOUS
<1>1. VmTypeOK
  BY VmIdleType DEF MdvmInit, VmTypeOK
<1>2. VmTimes
  BY VmIdleType DEF MdvmInit, VmTimes
<1>3. RoundOwned /\ ExportInv /\ AppliedInv
  BY MdvmAssumption DEF MdvmInit, RoundOwned, ExportInv, AppliedInv
<1>4. MaterializedIsUpstream
  BY DEF MdvmInit, MaterializedIsUpstream, Synced
<1> QED BY <1>1, <1>2, <1>3, <1>4 DEF VmInv

\* MaterializedIsUpstream for every refresh, horizon, overlap and lease time: replace_baseline
\* and apply_delta run in a transaction of the row's owner, so that a round which outlives
\* its lease never writes an old export over a newer set.
THEOREM FindingsAreUpstream == MdvmSpec => []MaterializedIsUpstream
<1>1. VmInv => MaterializedIsUpstream
  BY DEF VmInv
<1> QED BY <1>1, VmInvInit, VmInvStep, PTL DEF MdvmSpec

(***************************************************************************)
(* What Analyzer shows.  A snapshot whose id is known is not stored again, *)
(* so that an old id must not hide a finding that is active: this holds    *)
(* because ids carry the newest time observed on the device, and because   *)
(* only the owner of the row hands over (unless a round was overtaken).    *)
(***************************************************************************)
Ids == [observed : Nat, findings : SUBSET Findings]

ShownTypeOK ==
  /\ device \in [Devices -> Nat] /\ reports \in [Devices -> SUBSET Ids]
  /\ shown \in [Devices -> SUBSET Findings] /\ overtaken \in BOOLEAN
  /\ \A p \in VmSyncers : /\ vmPoll[p].snaps \in SUBSET [d : Devices, id : Ids]
                          /\ vmPoll[p].at # "send" => vmPoll[p].snaps = {}

\* Every time that was observed is the time of some change upstream, or 0.
Past(t) == t = 0 \/ \E g \in Findings : t <= vuln[g].t

ObservedInv ==
  /\ \A f \in Findings : vuln[f].on => vuln[f].t > 0
  /\ \A d \in Devices : Past(device[d]) /\ \A id \in reports[d] : Past(id.observed)
  /\ \A p \in VmSyncers : /\ \A s \in vmPoll[p].snaps : Past(s.id.observed)
                          /\ \A c \in vmPoll[p].changes : c.t <= vuln[c.f].t

\* The device row is as new as every active finding of the device.
AsNew(f) == vuln[f].t <= device[DeviceOf[f]]

DeviceInv ==
  /\ \A f \in Findings : Synced(f) /\ vuln[f].on => AsNew(f)
  /\ \A p \in VmSyncers, f \in Findings : vmState.owner = p /\ Settled(p, f) =>
       /\ vmPoll[p].at = "apply" => \A c \in vmPoll[p].changes : c.f = f => c.t = vuln[f].t
       /\ vmPoll[p].at \in {"snapshot", "send"} /\ vuln[f].on => AsNew(f)

\* Only the owner hands over, and what the database still says.
HandingInv ==
  \A p \in VmSyncers : vmPoll[p].at \in {"snapshot", "send"} =>
    vmState.owner = p /\ \A s \in vmPoll[p].snaps : s.id = ReportId(s.d)

\* f is active and part of a stored snapshot that observed its last change.
Known(f) == /\ vuln[f].on
            /\ \E id \in reports[DeviceOf[f]] : f \in id.findings /\ vuln[f].t <= id.observed

\* What is known is shown, and stays so: no later export or set leaves it out.
KnownInv ==
  \A f \in Findings : Known(f) =>
    /\ f \in shown[DeviceOf[f]]
    /\ \A p \in VmSyncers : vmState.owner = p =>
         /\ vmPoll[p].at = "apply" =>
              /\ \A c \in vmPoll[p].changes : c.f = f => c.on = TRUE
              /\ \/ \E c \in vmPoll[p].changes : c.f = f
                 \/ vmPoll[p].mode # "baseline" /\ vuln[f].t < vmState.mark
         /\ vmPoll[p].at \in {"snapshot", "send"} => f \in active

\* What the round found active is shown, or will be once its snapshots are sent.
PendingInv ==
  \A p \in VmSyncers, f \in Findings : vmState.owner = p /\ Settled(p, f) /\ vuln[f].on =>
    /\ vmPoll[p].at = "snapshot" =>
         f \in shown[DeviceOf[f]] \/ DeviceOf[f] \in Affected(vmPoll[p].changes)
    /\ vmPoll[p].at = "send" =>
         \/ f \in shown[DeviceOf[f]]
         \/ [d |-> DeviceOf[f], id |-> ReportId(DeviceOf[f])] \in vmPoll[p].snaps

ShownInv ==
  /\ VmInv /\ ShownTypeOK /\ ObservedInv /\ DeviceInv
  /\ ~overtaken => HandingInv /\ KnownInv /\ PendingInv /\ ActiveIsShown

LEMMA Least ==
  ASSUME NEW T \in SUBSET Nat, T # {}
  PROVE  \E m \in T : \A x \in T : m <= x
<1>1. IsWellFoundedOn(OpToRel(<, Nat), Nat)
  BY NatLessThanWellFounded
<1>2. PICK m \in T : \A x \in T : ~(<<x, m>> \in OpToRel(<, Nat))
  BY <1>1, WFMin, Zenon
<1>3. \A x \in T : ~(x < m)
  BY <1>2 DEF OpToRel
<1> QED BY <1>3

LEMMA Greatest ==
  ASSUME NEW S \in SUBSET Nat, S # {}, NEW n \in Nat, \A x \in S : x <= n
  PROVE  \E m \in S : \A x \in S : x <= m
<1>1. PICK m \in {n - x : x \in S} : \A y \in {n - x : x \in S} : m <= y
  <2>1. \A x \in S : n - x \in Nat
    OBVIOUS
  <2>2. {n - x : x \in S} \in SUBSET Nat
    BY <2>1
  <2>3. {n - x : x \in S} # {}
    OBVIOUS
  <2> QED BY <2>2, <2>3, Least
<1>2. PICK g \in S : m = n - g
  BY <1>1
<1>3. ASSUME NEW x \in S PROVE x <= g
  <2>1. m <= n - x
    BY <1>1
  <2>2. n \in Nat /\ g \in Nat /\ x \in Nat
    OBVIOUS
  <2> QED BY <1>2, <2>1, <2>2
<1> QED BY <1>3

\* Observed is the newest of the old time and the times of the changes on the device.
LEMMA ObservedFacts ==
  ASSUME NEW cs \in SUBSET Changes, NEW n \in Nat, \A c \in cs : c.t <= n,
         NEW d \in Devices, NEW old \in Nat
  PROVE  /\ Observed(cs, d, old) \in Nat /\ old <= Observed(cs, d, old)
         /\ \A c \in cs : DeviceOf[c.f] = d => c.t <= Observed(cs, d, old)
         /\ Observed(cs, d, old) = old \/ \E c \in cs : Observed(cs, d, old) = c.t
<1> DEFINE ts == TimesOn(cs, d)
<1>1. ts \in SUBSET Nat /\ \A t \in ts : \E c \in cs : t = c.t
  BY DEF TimesOn, Changes
<1>2. \A c \in cs : DeviceOf[c.f] = d => c.t \in ts
  BY DEF TimesOn
<1>3. \A t \in ts : t <= n
  BY <1>1
<1>4. Observed(cs, d, old) =
        IF ts = {} THEN old ELSE Later(old, CHOOSE t \in ts : \A u \in ts : u <= t)
  BY DEF Observed
<1> HIDE DEF ts
<1>5. CASE ts = {}
  BY <1>2, <1>4, <1>5
<1>6. CASE ts # {}
  <2> DEFINE m == CHOOSE t \in ts : \A u \in ts : u <= t
  <2>1. m \in ts /\ \A u \in ts : u <= m
    BY <1>1, <1>3, <1>6, Greatest
  <2>2. Observed(cs, d, old) = Later(old, m)
    BY <1>4, <1>6
  <2> HIDE DEF m
  <2>3. m \in Nat /\ \E c \in cs : m = c.t
    BY <1>1, <2>1
  <2>4. /\ Later(old, m) \in Nat /\ old <= Later(old, m) /\ m <= Later(old, m)
        /\ Later(old, m) \in {old, m}
    BY <2>3 DEF Later
  <2>5. \A c \in cs : DeviceOf[c.f] = d => c.t <= Later(old, m)
    <3> SUFFICES ASSUME NEW c \in cs, DeviceOf[c.f] = d PROVE c.t <= Later(old, m)
      OBVIOUS
    <3>1. c.t \in Nat /\ c.t <= m
      BY <1>1, <1>2, <2>1
    <3> QED BY <2>3, <2>4, <3>1
  <2> QED BY <2>2, <2>3, <2>4, <2>5
<1> QED BY <1>5, <1>6

\* The parts of ShownInv beside VmInv, from one state to the next.
LEMMA ShownFrame ==
  ASSUME ShownInv, VmInv', UNCHANGED <<vuln, vmState, active, device, reports, shown, vmPoll, overtaken>>
  PROVE  ShownInv'
<1>1. ShownTypeOK' /\ ObservedInv' /\ DeviceInv'
  BY DEF ShownInv, ShownTypeOK, ObservedInv, DeviceInv, Past, AsNew, Synced, Settled
<1>2. ~overtaken' => HandingInv' /\ KnownInv' /\ PendingInv' /\ ActiveIsShown'
  BY DEF ShownInv, HandingInv, KnownInv, PendingInv, ActiveIsShown, Known, ReportId, Content,
         Synced, Settled
<1> QED BY <1>1, <1>2 DEF ShownInv

\* A finding that changes now is known from no snapshot.
LEMMA ShownFlip == ASSUME ShownInv, NEW g \in Findings, Flip(g), VmInv' PROVE ShownInv'
<1>0. VmInv
  BY DEF ShownInv
<1>1. /\ vuln' \in [Findings -> [on : BOOLEAN, t : Nat]] /\ vuln'[g].t = vmClock
      /\ \A f \in Findings : f # g => vuln'[f] = vuln[f]
      /\ \A p \in VmSyncers, f \in Findings : Settled(p, f)' => f # g /\ Settled(p, f)
      /\ \A f \in Findings : Synced(f)' => f # g /\ Synced(f)
  BY <1>0, FlipFacts
<1>2. /\ \A f \in Findings : vuln[f].t < vmClock /\ vuln[f].t \in Nat
      /\ vmClock \in Nat /\ vuln \in [Findings -> [on : BOOLEAN, t : Nat]]
      /\ UNCHANGED <<vmClock, vmState, active, device, reports, shown, vmPoll, overtaken>>
  BY <1>0 DEF Flip, VmInv, VmTypeOK
<1>3. \A f \in Findings : vuln[f].t <= vuln'[f].t
  BY <1>1, <1>2
<1>4. \A t \in Nat : Past(t) => Past(t)' /\ t < vmClock
  BY <1>1, <1>2, <1>3 DEF Past
<1>5. ShownTypeOK'
  BY <1>2 DEF ShownInv, ShownTypeOK
<1>6. ObservedInv'
  <2>1. \A f \in Findings : vuln'[f].on => vuln'[f].t > 0
    BY <1>1, <1>2 DEF ShownInv, ObservedInv
  <2>2. \A d \in Devices : Past(device[d])' /\ \A id \in reports[d] : Past(id.observed)'
    BY <1>2, <1>4 DEF ShownInv, ObservedInv, ShownTypeOK, Ids
  <2>3. \A p \in VmSyncers : \A s \in vmPoll[p].snaps : Past(s.id.observed)'
    BY <1>2, <1>4 DEF ShownInv, ObservedInv, ShownTypeOK, Ids
  <2>4. \A p \in VmSyncers : \A c \in vmPoll[p].changes : c.t <= vuln'[c.f].t
    BY <1>0, <1>1, <1>2, <1>3 DEF ShownInv, ObservedInv, VmInv, VmTypeOK, Changes
  <2> QED BY <1>2, <2>1, <2>2, <2>3, <2>4 DEF ObservedInv, Past
<1>7. DeviceInv'
  BY <1>1, <1>2 DEF ShownInv, DeviceInv, AsNew
<1>8. ASSUME ~overtaken'
      PROVE  HandingInv' /\ KnownInv' /\ PendingInv' /\ ActiveIsShown'
  <2>1. HandingInv /\ KnownInv /\ PendingInv /\ ActiveIsShown
    BY <1>2, <1>8 DEF ShownInv
  <2>2. HandingInv'
    BY <1>2, <2>1 DEF HandingInv, ReportId, Content
  <2>3. ASSUME NEW f \in Findings, Known(f)'
        PROVE  f # g /\ Known(f)
    <3>1. PICK id \in reports[DeviceOf[f]] : f \in id.findings /\ vuln'[f].t <= id.observed
      BY <1>2, <2>3 DEF Known
    <3>2. DeviceOf[f] \in Devices /\ id.observed \in Nat /\ Past(id.observed)
      BY MdvmAssumption DEF ShownInv, ShownTypeOK, ObservedInv, Ids
    <3>3. id.observed < vmClock
      BY <3>2, <1>4
    <3>4. f # g
      BY <1>1, <1>2, <3>1, <3>2, <3>3
    <3> QED BY <1>1, <1>2, <2>3, <3>4 DEF Known
  <2>4. KnownInv'
    BY <1>1, <1>2, <2>1, <2>3 DEF KnownInv
  <2>5. PendingInv'
    BY <1>1, <1>2, <2>1 DEF PendingInv, ReportId, Content
  <2>6. ActiveIsShown'
    BY <1>1, <1>2, <2>1 DEF ActiveIsShown
  <2> QED BY <2>2, <2>4, <2>5, <2>6
<1> QED BY <1>5, <1>6, <1>7, <1>8 DEF ShownInv

\* Storing a snapshot keeps the types, and what was observed stays past.
LEMMA StoreTypes ==
  ASSUME ShownInv, NEW p \in VmSyncers, NEW s \in vmPoll[p].snaps, Store(s)
  PROVE  /\ s \in [d : Devices, id : Ids] /\ vmPoll[p].at = "send"
         /\ reports' \in [Devices -> SUBSET Ids] /\ shown' \in [Devices -> SUBSET Findings]
         /\ \A d \in Devices : \A id \in reports'[d] : Past(id.observed)
         /\ \A d \in Devices : reports'[d] = IF d = s.d THEN reports[d] \union {s.id} ELSE reports[d]
         /\ \A d \in Devices : shown'[d] = IF d = s.d /\ s.id \notin reports[d] THEN s.id.findings
                                           ELSE shown[d]
<1>1. s \in [d : Devices, id : Ids] /\ vmPoll[p].at = "send" /\ Past(s.id.observed)
  BY DEF ShownInv, ShownTypeOK, ObservedInv
<1>2. /\ reports' \in [Devices -> SUBSET Ids] /\ shown' \in [Devices -> SUBSET Findings]
      /\ \A d \in Devices : reports'[d] = IF d = s.d THEN reports[d] \union {s.id} ELSE reports[d]
      /\ \A d \in Devices : shown'[d] = IF d = s.d /\ s.id \notin reports[d] THEN s.id.findings
                                        ELSE shown[d]
  BY <1>1 DEF Store, ShownInv, ShownTypeOK, Ids
<1>3. \A d \in Devices : \A id \in reports'[d] : Past(id.observed)
  BY <1>1, <1>2 DEF ShownInv, ObservedInv
<1> QED BY <1>1, <1>2, <1>3

\* A snapshot of the owner, who was not overtaken, shows what the set holds: it hides
\* nothing that is active, and what becomes known is shown, also when its id is an old one.
LEMMA StoreShows ==
  ASSUME ShownInv, NEW p \in VmSyncers, NEW s \in vmPoll[p].snaps, Store(s), ~overtaken, vuln' = vuln
  PROVE  /\ \A f \in Findings : Known(f)' => f \in active /\ f \in shown'[DeviceOf[f]]
         /\ \A f \in active : f \in shown[DeviceOf[f]] => f \in shown'[DeviceOf[f]]
         /\ \A f \in active : DeviceOf[f] = s.d /\ AsNew(f) /\ vuln[f].on => f \in shown'[DeviceOf[f]]
<1>1. /\ s \in [d : Devices, id : Ids] /\ vmPoll[p].at = "send"
      /\ \A d \in Devices : reports'[d] = IF d = s.d THEN reports[d] \union {s.id} ELSE reports[d]
      /\ \A d \in Devices : shown'[d] = IF d = s.d /\ s.id \notin reports[d] THEN s.id.findings
                                        ELSE shown[d]
  BY StoreTypes
<1>2. vmState.owner = p /\ s.id = ReportId(s.d)
  BY <1>1 DEF ShownInv, HandingInv
<1>3. \A f : f \in s.id.findings <=> f \in active /\ DeviceOf[f] = s.d
  BY <1>2 DEF ReportId, Content
<1>4. s.id.observed = device[s.d]
  BY <1>2 DEF ReportId
<1>5. \A f \in Findings : DeviceOf[f] \in Devices
  BY MdvmAssumption
<1>6. \A f \in Findings : Known(f) => f \in active /\ f \in shown[DeviceOf[f]]
  BY <1>1, <1>2 DEF ShownInv, KnownInv
<1>7. active \in SUBSET Findings
  BY DEF ShownInv, VmInv, VmTypeOK
<1>8. \A f \in active : f \in shown[DeviceOf[f]] => f \in shown'[DeviceOf[f]]
  BY <1>1, <1>3, <1>5, <1>7
<1>9. ASSUME NEW f \in active, DeviceOf[f] = s.d, vuln[f].t <= device[s.d], vuln[f].on
      PROVE  f \in shown'[DeviceOf[f]]
  <2>1. CASE s.id \notin reports[s.d]
    BY <1>1, <1>3, <1>9, <2>1
  <2>2. CASE s.id \in reports[s.d]
    <3>1. Known(f)
      BY <1>3, <1>4, <1>9, <2>2 DEF Known
    <3> QED BY <3>1, <1>6, <1>7, <1>8
  <2> QED BY <2>1, <2>2
<1>10. ASSUME NEW f \in Findings, Known(f)'
       PROVE  f \in active /\ f \in shown'[DeviceOf[f]]
  <2>1. PICK id \in reports'[DeviceOf[f]] : f \in id.findings /\ vuln[f].t <= id.observed
    BY <1>10 DEF Known
  <2>2. vuln[f].on
    BY <1>10 DEF Known
  <2>3. CASE id \in reports[DeviceOf[f]]
    <3>1. Known(f)
      BY <2>1, <2>2, <2>3 DEF Known
    <3> QED BY <3>1, <1>6, <1>8
  <2>4. CASE id \notin reports[DeviceOf[f]]
    <3>1. DeviceOf[f] = s.d /\ id = s.id
      BY <1>1, <1>5, <2>1, <2>4
    <3> QED BY <3>1, <1>3, <1>4, <1>9, <2>1, <2>2
  <2> QED BY <2>3, <2>4
<1> QED BY <1>8, <1>9, <1>10 DEF AsNew

\* A round ends for p, after its last snapshot was stored or not.
LEMMA ShownEnds ==
  ASSUME ShownInv, VmInv', NEW p \in VmSyncers, vmPoll' = [vmPoll EXCEPT ![p] = VmIdle],
         vmState'.mark = vmState.mark, vmState'.owner # p,
         vmState'.owner = vmState.owner \/ (vmState.owner = p /\ vmState'.owner \notin VmSyncers),
         UNCHANGED <<vuln, active, device, overtaken>>,
         UNCHANGED <<reports, shown>> \/ \E s \in vmPoll[p].snaps : Store(s)
  PROVE  ShownInv'
<1>1. \A q \in VmSyncers : vmPoll'[q] = IF q = p THEN VmIdle ELSE vmPoll[q]
  BY DEF ShownInv, VmInv, VmTypeOK
<1>2. /\ reports' \in [Devices -> SUBSET Ids] /\ shown' \in [Devices -> SUBSET Findings]
      /\ \A d \in Devices : \A id \in reports'[d] : Past(id.observed)
  <2>1. CASE UNCHANGED <<reports, shown>>
    BY <2>1 DEF ShownInv, ShownTypeOK, ObservedInv
  <2>2. CASE \E s \in vmPoll[p].snaps : Store(s)
    BY <2>2, StoreTypes
  <2> QED BY <2>1, <2>2
<1>3. ShownTypeOK'
  BY <1>1, <1>2, VmIdleType DEF ShownInv, ShownTypeOK
<1>4. ObservedInv'
  BY <1>1, <1>2, VmIdleType DEF ShownInv, ObservedInv, Past
<1>5. DeviceInv'
  BY <1>1 DEF ShownInv, DeviceInv, AsNew, Synced, Settled
<1>6. ASSUME ~overtaken
      PROVE  HandingInv' /\ KnownInv' /\ PendingInv' /\ ActiveIsShown'
  <2>1. HandingInv /\ KnownInv /\ PendingInv /\ ActiveIsShown
    BY <1>6 DEF ShownInv
  <2>2. HandingInv'
    <3>1. ASSUME NEW q \in VmSyncers, vmPoll'[q].at \in {"snapshot", "send"}
          PROVE  q # p /\ vmState.owner = q /\ \A s \in vmPoll[q].snaps : s.id = ReportId(s.d)
      BY <1>1, <2>1, <3>1, VmIdleType DEF HandingInv
    <3> QED BY <1>1, <3>1 DEF HandingInv, ReportId, Content
  <2>3. /\ \A f \in Findings : Known(f)' => f \in shown'[DeviceOf[f]]
        /\ \A f \in active : f \in shown[DeviceOf[f]] => f \in shown'[DeviceOf[f]]
        /\ vmState'.owner \in VmSyncers => UNCHANGED <<reports, shown>>
    <3>1. CASE UNCHANGED <<reports, shown>>
      BY <2>1, <3>1 DEF KnownInv, Known
    <3>2. ASSUME NEW s \in vmPoll[p].snaps, Store(s)
          PROVE  <2>3!1 /\ <2>3!2 /\ <2>3!3
      <4>1. vmPoll[p].at = "send"
        BY <3>2, StoreTypes
      <4>2. vmState.owner = p
        BY <2>1, <4>1 DEF HandingInv
      <4> QED BY <1>6, <3>2, <4>2, StoreShows
    <3> QED BY <3>1, <3>2
  <2>4. KnownInv'
    <3> SUFFICES ASSUME NEW f \in Findings, Known(f)', NEW q \in VmSyncers, vmState'.owner = q
                 PROVE  /\ vmPoll'[q].at = "apply" =>
                             /\ \A c \in vmPoll'[q].changes : c.f = f => c.on = TRUE
                             /\ \/ \E c \in vmPoll'[q].changes : c.f = f
                                \/ vmPoll'[q].mode # "baseline" /\ vuln[f].t < vmState.mark
                        /\ vmPoll'[q].at \in {"snapshot", "send"} => f \in active
      BY <2>3 DEF KnownInv
    <3>1. Known(f) /\ vmState.owner = q /\ vmPoll'[q] = vmPoll[q]
      BY <1>1, <2>3 DEF Known
    <3> QED BY <2>1, <3>1 DEF KnownInv
  <2>5. PendingInv'
    <3> SUFFICES ASSUME NEW q \in VmSyncers, NEW f \in Findings, vmState'.owner = q,
                        Settled(q, f)', vuln[f].on
                 PROVE  /\ vmPoll'[q].at = "snapshot" =>
                             f \in shown'[DeviceOf[f]] \/ DeviceOf[f] \in Affected(vmPoll'[q].changes)
                        /\ vmPoll'[q].at = "send" =>
                             \/ f \in shown'[DeviceOf[f]]
                             \/ [d |-> DeviceOf[f], id |-> ReportId(DeviceOf[f])] \in vmPoll'[q].snaps
      BY DEF PendingInv, ReportId, Content
    <3>1. Settled(q, f) /\ vmState.owner = q /\ vmPoll'[q] = vmPoll[q] /\ shown' = shown
      BY <1>1, <2>3 DEF Settled
    <3> QED BY <2>1, <3>1 DEF PendingInv
  <2>6. ActiveIsShown'
    <3> SUFFICES ASSUME NEW f \in Findings, Synced(f)', vuln[f].on
                 PROVE  f \in shown'[DeviceOf[f]]
      BY DEF ActiveIsShown
    <3>1. Synced(f)
      BY DEF Synced
    <3>2. f \in active /\ f \in shown[DeviceOf[f]]
      BY <1>6, <2>1, <3>1 DEF ShownInv, VmInv, MaterializedIsUpstream, ActiveIsShown
    <3> QED BY <2>3, <3>2
  <2> QED BY <2>2, <2>4, <2>5, <2>6
<1> QED BY <1>3, <1>4, <1>5, <1>6 DEF ShownInv

LEMMA ShownSucceed == ASSUME ShownInv, VmInv', NEW p \in VmSyncers, VmSucceed(p) PROVE ShownInv'
<1>1. CASE vmState.owner # p
  <2>1. vmState' = vmState
    BY <1>1 DEF VmSucceed
  <2> QED BY <1>1, <2>1, ShownEnds DEF VmSucceed
<1>2. CASE vmState.owner = p
  <2>1. vmState'.mark = vmPoll[p].started /\ vmState'.owner = "none"
    BY <1>2 DEF VmSucceed, Unleased, ShownInv, VmInv, VmTypeOK
  <2>2. /\ \A q \in VmSyncers : vmPoll'[q] = IF q = p THEN VmIdle ELSE vmPoll[q]
        /\ UNCHANGED <<vuln, active, device, reports, shown, overtaken>>
        /\ vmPoll[p].at = "send" /\ vmPoll[p].snaps = {}
    BY DEF VmSucceed, ShownInv, VmInv, VmTypeOK
  <2>3. ShownTypeOK'
    BY <2>2, VmIdleType DEF ShownInv, ShownTypeOK
  <2>4. ObservedInv'
    BY <2>2, VmIdleType DEF ShownInv, ObservedInv, Past
  <2>5. \A f \in Findings : Synced(f)' => Settled(p, f)
    BY <2>1, <2>2 DEF Synced, Settled
  <2>6. DeviceInv'
    BY <1>2, <2>1, <2>2, <2>5, MdvmAssumption DEF ShownInv, DeviceInv, AsNew
  <2>7. ASSUME ~overtaken
        PROVE  HandingInv' /\ KnownInv' /\ PendingInv' /\ ActiveIsShown'
    <3>1. HandingInv /\ KnownInv /\ PendingInv /\ ActiveIsShown
      BY <2>7 DEF ShownInv
    <3>2. HandingInv'
      BY <1>2, <2>2, <3>1, VmIdleType DEF HandingInv
    <3>3. KnownInv'
      BY <2>1, <2>2, <3>1, MdvmAssumption DEF KnownInv, Known
    <3>4. PendingInv'
      BY <2>1, MdvmAssumption DEF PendingInv
    <3>5. ActiveIsShown'
      BY <1>2, <2>2, <2>5, <3>1 DEF PendingInv, ActiveIsShown
    <3> QED BY <3>2, <3>3, <3>4, <3>5
  <2> QED BY <2>2, <2>3, <2>4, <2>6, <2>7 DEF ShownInv
<1> QED BY <1>1, <1>2

\* Whoever takes the row over from a round that was not handing over overtakes nobody.
LEMMA ShownAcquire == ASSUME ShownInv, VmInv', NEW p \in VmSyncers, VmAcquire(p) PROVE ShownInv'
<1>1. /\ \A q \in VmSyncers : q # p => vmPoll'[q] = vmPoll[q]
      /\ vmPoll'[p].at = "fetch" /\ vmPoll'[p].changes = {} /\ vmPoll'[p].snaps = {}
  BY DEF VmAcquire, VmIdle, ShownInv, VmInv, VmTypeOK
<1>2. vmState'.mark = vmState.mark /\ vmState'.owner = p
  BY DEF VmAcquire, ShownInv, VmInv, VmTypeOK
<1>3. /\ UNCHANGED <<vuln, active, device, reports, shown>> /\ overtaken' \in BOOLEAN
      /\ ~overtaken' => ~overtaken /\ ~(vmState.owner \in VmSyncers
                                        /\ vmPoll[vmState.owner].at \in {"snapshot", "send"})
  BY DEF VmAcquire, ShownInv, ShownTypeOK
<1>4. ShownTypeOK'
  BY <1>1, <1>3 DEF ShownInv, ShownTypeOK
<1>5. ObservedInv'
  BY <1>1, <1>3 DEF ShownInv, ObservedInv, Past
<1>6. DeviceInv'
  BY <1>1, <1>2, <1>3 DEF ShownInv, DeviceInv, AsNew, Synced
<1>7. ASSUME ~overtaken'
      PROVE  HandingInv' /\ KnownInv' /\ PendingInv' /\ ActiveIsShown'
  <2>1. HandingInv /\ KnownInv /\ PendingInv /\ ActiveIsShown /\ ~overtaken
    BY <1>3, <1>7 DEF ShownInv
  <2>2. HandingInv'
    BY <1>1, <1>3, <1>7, <2>1 DEF HandingInv
  <2>3. KnownInv'
    BY <1>1, <1>2, <1>3, <2>1 DEF KnownInv, Known
  <2>4. PendingInv'
    BY <1>1, <1>2 DEF PendingInv
  <2>5. ActiveIsShown'
    BY <1>2, <1>3, <2>1 DEF ActiveIsShown, Synced
  <2> QED BY <2>2, <2>3, <2>4, <2>5
<1> QED BY <1>4, <1>5, <1>6, <1>7 DEF ShownInv

LEMMA ShownFetch == ASSUME ShownInv, VmInv', NEW p \in VmSyncers, VmFetch(p) PROVE ShownInv'
<1>0. VmInv
  BY DEF ShownInv
<1> DEFINE cs == Exported(vmPoll[p].mode)
<1>1. /\ cs \in SUBSET Changes
      /\ \A c \in cs : c.f \in Findings /\ c.on = vuln[c.f].on /\ c.t = vuln[c.f].t
      /\ \A f \in Findings :
           (IF vmPoll[p].mode = "baseline" THEN vuln[f].on
            ELSE vuln[f].t > 0 /\ vuln[f].t >= Before(vmState.mark, DeltaOverlap))
             => \E c \in cs : c.f = f
  BY <1>0, ExportFacts
<1>2. /\ \A q \in VmSyncers : q # p => vmPoll'[q] = vmPoll[q]
      /\ vmPoll'[p].at = "apply" /\ vmPoll'[p].changes = cs /\ vmPoll'[p].snaps = vmPoll[p].snaps
      /\ vmPoll'[p].mode = vmPoll[p].mode /\ vmPoll[p].at = "fetch"
  <2> PICK s : s = cs
    OBVIOUS
  <2>1. vmPoll' = [vmPoll EXCEPT ![p].at = "apply", ![p].changes = s] /\ vmPoll[p].at = "fetch"
    BY DEF VmFetch
  <2> HIDE DEF cs
  <2>2. /\ DOMAIN vmPoll = VmSyncers
        /\ DOMAIN vmPoll[p] = {"at", "started", "mode", "changes", "snaps"}
    BY <1>0 DEF VmInv, VmTypeOK
  <2>3. /\ vmPoll'[p].at = "apply" /\ vmPoll'[p].changes = s /\ vmPoll'[p].snaps = vmPoll[p].snaps
        /\ vmPoll'[p].mode = vmPoll[p].mode
    BY <2>1, <2>2
  <2> QED BY <2>1, <2>2, <2>3
<1> HIDE DEF cs
<1>3. UNCHANGED <<vuln, vmState, active, device, reports, shown, overtaken>>
  BY DEF VmFetch
<1>4. ShownTypeOK'
  BY <1>2, <1>3 DEF ShownInv, ShownTypeOK
<1>5. ObservedInv'
  <2>1. \A c \in cs : c.t <= vuln[c.f].t
    BY <1>0, <1>1 DEF VmInv, VmTypeOK
  <2> QED BY <1>2, <1>3, <2>1 DEF ShownInv, ObservedInv, Past
<1>6. DeviceInv'
  BY <1>1, <1>2, <1>3 DEF ShownInv, DeviceInv, AsNew, Synced, Settled
<1>7. ASSUME ~overtaken
      PROVE  HandingInv' /\ KnownInv' /\ PendingInv' /\ ActiveIsShown'
  <2>1. HandingInv /\ KnownInv /\ PendingInv /\ ActiveIsShown
    BY <1>7 DEF ShownInv
  <2>2. HandingInv'
    BY <1>2, <1>3, <2>1 DEF HandingInv, ReportId, Content
  <2>3. ASSUME NEW f \in Findings, Known(f)
        PROVE  /\ \A c \in cs : c.f = f => c.on = TRUE
               /\ \/ \E c \in cs : c.f = f
                  \/ vmPoll[p].mode # "baseline" /\ vuln[f].t < vmState.mark
    <3>1. vuln[f].on = TRUE /\ vuln[f].t > 0 /\ vuln[f].t \in Nat /\ vmState.mark \in Nat
      BY <1>0, <2>3 DEF Known, VmInv, VmTypeOK, ShownInv, ObservedInv
    <3>2. vuln[f].t >= Before(vmState.mark, DeltaOverlap) \/ vuln[f].t < vmState.mark
      BY <3>1, VmNatural DEF Before
    <3> QED BY <1>1, <3>1, <3>2
  <2>4. KnownInv'
    <3>1. \A f \in Findings : Known(f)' => Known(f)
      BY <1>3 DEF Known
    <3> SUFFICES ASSUME NEW f \in Findings, Known(f), NEW q \in VmSyncers, vmState.owner = q
                 PROVE  /\ vmPoll'[q].at = "apply" =>
                             /\ \A c \in vmPoll'[q].changes : c.f = f => c.on = TRUE
                             /\ \/ \E c \in vmPoll'[q].changes : c.f = f
                                \/ vmPoll'[q].mode # "baseline" /\ vuln[f].t < vmState.mark
                        /\ vmPoll'[q].at \in {"snapshot", "send"} => f \in active
      BY <1>3, <2>1, <3>1 DEF KnownInv
    <3>2. CASE q = p
      BY <1>2, <2>3, <3>2
    <3>3. CASE q # p
      BY <1>2, <2>1, <3>3 DEF KnownInv
    <3> QED BY <3>2, <3>3
  <2>5. PendingInv'
    BY <1>2, <1>3, <2>1 DEF PendingInv, Settled, ReportId, Content
  <2>6. ActiveIsShown'
    BY <1>3, <2>1 DEF ActiveIsShown, Synced
  <2> QED BY <2>2, <2>4, <2>5, <2>6
<1> QED BY <1>3, <1>4, <1>5, <1>6, <1>7 DEF ShownInv

LEMMA ShownSnapshot == ASSUME ShownInv, VmInv', NEW p \in VmSyncers, VmSnapshot(p) PROVE ShownInv'
<1>0. VmInv
  BY DEF ShownInv
<1> DEFINE snaps == {[d |-> d, id |-> ReportId(d)] :
                       d \in {e \in Affected(vmPoll[p].changes) : device[e] > 0}}
<1>1. \A s \in snaps : s.d \in Devices /\ s.id = ReportId(s.d) /\ s \in [d : Devices, id : Ids]
  <2>1. Affected(vmPoll[p].changes) \subseteq Devices
    BY <1>0, MdvmAssumption DEF Affected, Changes, VmInv, VmTypeOK
  <2>2. \A d \in Devices : ReportId(d) \in Ids
    BY <1>0 DEF ReportId, Content, Ids, ShownInv, ShownTypeOK, VmInv, VmTypeOK
  <2> QED BY <2>1, <2>2
<1>2. \A d \in Affected(vmPoll[p].changes) : device[d] > 0 => [d |-> d, id |-> ReportId(d)] \in snaps
  OBVIOUS
<1>3. /\ \A q \in VmSyncers : q # p => vmPoll'[q] = vmPoll[q]
      /\ vmPoll'[p].at = "send" /\ vmPoll'[p].changes = vmPoll[p].changes
      /\ vmPoll'[p].snaps = snaps /\ vmPoll'[p].started = vmPoll[p].started
      /\ vmPoll[p].at = "snapshot"
  <2> PICK s : s = snaps
    OBVIOUS
  <2>1. vmPoll' = [vmPoll EXCEPT ![p].at = "send", ![p].snaps = s] /\ vmPoll[p].at = "snapshot"
    BY DEF VmSnapshot
  <2> HIDE DEF snaps
  <2>2. /\ DOMAIN vmPoll = VmSyncers
        /\ DOMAIN vmPoll[p] = {"at", "started", "mode", "changes", "snaps"}
    BY <1>0 DEF VmInv, VmTypeOK
  <2>3. /\ vmPoll'[p].at = "send" /\ vmPoll'[p].changes = vmPoll[p].changes
        /\ vmPoll'[p].snaps = s /\ vmPoll'[p].started = vmPoll[p].started
    BY <2>1, <2>2
  <2> QED BY <2>1, <2>2, <2>3
<1> HIDE DEF snaps
<1>4. UNCHANGED <<vuln, vmState, active, device, reports, shown, overtaken>>
  BY DEF VmSnapshot
<1>5. ShownTypeOK'
  <2>1. snaps \in SUBSET [d : Devices, id : Ids]
    BY <1>1
  <2> QED BY <1>3, <1>4, <2>1 DEF ShownInv, ShownTypeOK
<1>6. ObservedInv'
  <2>1. \A d : ReportId(d).observed = device[d]
    BY DEF ReportId
  <2>2. \A s \in snaps : Past(s.id.observed)
    BY <1>1, <2>1 DEF ShownInv, ObservedInv
  <2> QED BY <1>3, <1>4, <2>2 DEF ShownInv, ObservedInv, Past
<1>7. DeviceInv'
  BY <1>3, <1>4 DEF ShownInv, DeviceInv, AsNew, Synced, Settled
<1>8. ASSUME ~overtaken
      PROVE  HandingInv' /\ KnownInv' /\ PendingInv' /\ ActiveIsShown'
  <2>1. HandingInv /\ KnownInv /\ PendingInv /\ ActiveIsShown
    BY <1>8 DEF ShownInv
  <2>2. HandingInv'
    BY <1>1, <1>3, <1>4, <2>1 DEF HandingInv, ReportId, Content
  <2>3. KnownInv'
    BY <1>3, <1>4, <2>1 DEF KnownInv, Known
  <2>4. ASSUME NEW f \in Findings, vmState.owner = p, Settled(p, f), vuln[f].on
        PROVE  \/ f \in shown[DeviceOf[f]]
               \/ [d |-> DeviceOf[f], id |-> ReportId(DeviceOf[f])] \in snaps
    <3>1. f \in shown[DeviceOf[f]] \/ DeviceOf[f] \in Affected(vmPoll[p].changes)
      BY <1>3, <2>1, <2>4 DEF PendingInv
    <3>2. AsNew(f)
      BY <1>3, <2>4 DEF ShownInv, DeviceInv
    <3>3. device[DeviceOf[f]] > 0
      BY <1>0, <2>4, <3>2, MdvmAssumption DEF AsNew, Settled, VmInv, VmTypeOK, ShownInv, ShownTypeOK
    <3> QED BY <1>2, <3>1, <3>3
  <2>5. PendingInv'
    BY <1>3, <1>4, <2>1, <2>4 DEF PendingInv, Settled, ReportId, Content
  <2>6. ActiveIsShown'
    BY <1>4, <2>1 DEF ActiveIsShown, Synced
  <2> QED BY <2>2, <2>3, <2>5, <2>6
<1> QED BY <1>4, <1>5, <1>6, <1>7, <1>8 DEF ShownInv

\* The owner's transaction: what is known stays in the set, what it found active is shown
\* already or its device is affected, and the device row is as new.
LEMMA ShownApply == ASSUME ShownInv, VmInv', NEW p \in VmSyncers, VmApply(p) PROVE ShownInv'
<1>0. VmInv
  BY DEF ShownInv
<1>1. CASE vmState.owner # p
  <2>1. /\ UNCHANGED <<vuln, vmState, active, device, reports, shown, overtaken>>
        /\ vmPoll' = [vmPoll EXCEPT ![p] = VmIdle]
    BY <1>1 DEF VmApply
  <2> QED BY <1>1, <2>1, ShownEnds
<1>2. CASE vmState.owner = p
  <2> DEFINE cs == vmPoll[p].changes
             mode == vmPoll[p].mode
             old(d) == IF mode = "baseline" THEN 0 ELSE device[d]
  <2>1. /\ vmPoll[p].at = "apply" /\ UNCHANGED <<vuln, vmState, reports, shown, overtaken>>
        /\ active' = {c.f : c \in {x \in cs : x.on}} \union (Kept(mode) \ {c.f : c \in cs})
        /\ device' = [d \in Devices |-> Observed(cs, d, old(d))]
    BY <1>2 DEF VmApply
  <2>2. /\ \A q \in VmSyncers : q # p => vmPoll'[q] = vmPoll[q]
        /\ vmPoll'[p].at = "snapshot" /\ vmPoll'[p].started = vmPoll[p].started
        /\ vmPoll'[p].changes = cs /\ vmPoll'[p].snaps = vmPoll[p].snaps
    BY <1>0, <1>2 DEF VmApply, VmInv, VmTypeOK
  <2>3. /\ cs \in SUBSET Changes /\ vmPoll[p].snaps = {}
        /\ \A c \in cs : c.t \in Nat /\ c.f \in Findings /\ c.t <= vuln[c.f].t
    BY <1>0, <2>1 DEF ShownInv, ShownTypeOK, ObservedInv, Changes, VmInv, VmTypeOK
  <2>4. vmClock \in Nat /\ \A c \in cs : c.t <= vmClock
    BY <1>0, <2>3 DEF VmInv, VmTypeOK, VmTimes
  <2>5. \A d \in Devices : old(d) \in Nat /\ Past(old(d))
    BY DEF ShownInv, ShownTypeOK, ObservedInv, Past
  <2>6. \A d \in Devices :
          /\ device'[d] \in Nat /\ old(d) <= device'[d]
          /\ \A c \in cs : DeviceOf[c.f] = d => c.t <= device'[d]
          /\ device'[d] = old(d) \/ \E c \in cs : device'[d] = c.t
    <3> SUFFICES ASSUME NEW d \in Devices
                 PROVE  /\ device'[d] \in Nat /\ old(d) <= device'[d]
                        /\ \A c \in cs : DeviceOf[c.f] = d => c.t <= device'[d]
                        /\ device'[d] = old(d) \/ \E c \in cs : device'[d] = c.t
      OBVIOUS
    <3>1. device'[d] = Observed(cs, d, old(d))
      BY <2>1
    <3>2. old(d) \in Nat
      BY <2>5
    <3> HIDE DEF old, cs
    <3>3. \A n \in Nat :
            /\ Observed(cs, d, n) \in Nat /\ n <= Observed(cs, d, n)
            /\ \A c \in cs : DeviceOf[c.f] = d => c.t <= Observed(cs, d, n)
            /\ Observed(cs, d, n) = n \/ \E c \in cs : Observed(cs, d, n) = c.t
      BY <2>3, <2>4, ObservedFacts
    <3> QED BY <3>1, <3>2, <3>3
  <2>7. \A f \in Findings : Settled(p, f) =>
          /\ \A c \in cs : c.f = f => c.on = vuln[f].on /\ c.t = vuln[f].t
          /\ \/ \E c \in cs : c.f = f
             \/ mode = "baseline" /\ vuln[f].on = FALSE
             \/ mode # "baseline" /\ vuln[f].t < vmState.mark
    BY <1>0, <1>2, <2>1 DEF VmInv, ExportInv, ShownInv, DeviceInv
  <2>8. \A f \in Findings : DeviceOf[f] \in Devices /\ vuln[f].t \in Nat
    BY <1>0, MdvmAssumption DEF VmInv, VmTypeOK
  <2>9. ASSUME NEW f \in Findings, Settled(p, f), vuln[f].on
        PROVE  vuln[f].t <= device'[DeviceOf[f]]
    <3>1. CASE \E c \in cs : c.f = f
      BY <2>6, <2>7, <2>8, <2>9, <3>1
    <3>2. CASE mode # "baseline" /\ vuln[f].t < vmState.mark
      <4>1. vuln[f].t <= device[DeviceOf[f]]
        BY <2>9, <3>2 DEF ShownInv, DeviceInv, Synced, Settled, AsNew
      <4>2. device[DeviceOf[f]] <= device'[DeviceOf[f]] /\ device'[DeviceOf[f]] \in Nat
            /\ device[DeviceOf[f]] \in Nat
        BY <2>5, <2>6, <2>8, <3>2
      <4> QED BY <2>8, <4>1, <4>2
    <3> QED BY <2>7, <2>9, <3>1, <3>2
  <2>10. \A f \in Findings : Synced(f) => Settled(p, f)
    BY <1>0, <1>2, <2>8 DEF VmInv, VmTypeOK, RoundOwned, Synced, Settled
  <2>11. ShownTypeOK'
    BY <2>1, <2>2, <2>3, <2>6 DEF ShownInv, ShownTypeOK
  <2>12. ObservedInv'
    <3>1. \A d \in Devices : Past(device'[d])
      BY <2>3, <2>5, <2>6 DEF Past
    <3> QED BY <2>1, <2>2, <3>1 DEF ShownInv, ObservedInv, Past
  <2>13. DeviceInv'
    <3>1. \A f \in Findings : Synced(f)' => Synced(f)
      BY <2>1 DEF Synced
    <3>2. \A f \in Findings : Settled(p, f)' => Settled(p, f)
      BY <2>1, <2>2 DEF Settled
    <3> QED BY <1>2, <2>1, <2>2, <2>9, <2>10, <3>1, <3>2 DEF DeviceInv, AsNew
  <2>14. ASSUME ~overtaken
         PROVE  HandingInv' /\ KnownInv' /\ PendingInv' /\ ActiveIsShown'
    <3>1. HandingInv /\ KnownInv /\ PendingInv /\ ActiveIsShown
      BY <2>14 DEF ShownInv
    <3>2. HandingInv'
      BY <1>2, <2>1, <2>2, <2>3, <3>1 DEF HandingInv
    <3>3. ASSUME NEW f \in Findings, Known(f)
          PROVE  f \in active'
      <4>1. /\ \A c \in cs : c.f = f => c.on = TRUE
            /\ \/ \E c \in cs : c.f = f
               \/ mode # "baseline" /\ vuln[f].t < vmState.mark
        BY <1>2, <2>1, <3>1, <3>3 DEF KnownInv
      <4>2. CASE \E c \in cs : c.f = f
        BY <2>1, <4>1, <4>2
      <4>3. CASE ~(\E c \in cs : c.f = f) /\ mode # "baseline" /\ vuln[f].t < vmState.mark
        <5>1. Synced(f) /\ vuln[f].on
          BY <3>3, <4>3 DEF Synced, Known, ShownInv, ObservedInv
        <5>2. f \in active
          BY <1>0, <5>1 DEF VmInv, MaterializedIsUpstream
        <5> QED BY <2>1, <4>3, <5>2 DEF Kept
      <4> QED BY <4>1, <4>2, <4>3
    <3>4. KnownInv'
      <4>1. \A f \in Findings : Known(f)' => Known(f)
        BY <2>1 DEF Known
      <4> QED BY <1>2, <2>1, <2>2, <3>1, <3>3, <4>1 DEF KnownInv
    <3>5. ASSUME NEW f \in Findings, Settled(p, f), vuln[f].on
          PROVE  f \in shown[DeviceOf[f]] \/ DeviceOf[f] \in Affected(cs)
      <4>1. CASE \E c \in cs : c.f = f
        BY <4>1 DEF Affected
      <4>2. CASE mode # "baseline" /\ vuln[f].t < vmState.mark
        BY <2>14, <3>1, <3>5, <4>2 DEF ActiveIsShown, Synced, Settled
      <4> QED BY <2>7, <3>5, <4>1, <4>2
    <3>6. PendingInv'
      BY <1>2, <2>1, <2>2, <3>5 DEF PendingInv, Settled
    <3>7. ActiveIsShown'
      BY <2>1, <3>1 DEF ActiveIsShown, Synced
    <3> QED BY <3>2, <3>4, <3>6, <3>7
  <2> QED BY <2>1, <2>11, <2>12, <2>13, <2>14 DEF ShownInv
<1> QED BY <1>1, <1>2

LEMMA ShownSend ==
  ASSUME ShownInv, VmInv', NEW p \in VmSyncers, NEW s \in vmPoll[p].snaps, VmSend(p, s)
  PROVE  ShownInv'
<1>0. VmInv
  BY DEF ShownInv
<1>1. /\ \A q \in VmSyncers : q # p => vmPoll'[q] = vmPoll[q]
      /\ vmPoll'[p].at = "send" /\ vmPoll'[p].changes = vmPoll[p].changes
      /\ vmPoll'[p].snaps = vmPoll[p].snaps \ {s} /\ vmPoll'[p].started = vmPoll[p].started
      /\ vmPoll[p].at = "send"
  BY <1>0 DEF VmSend, VmInv, VmTypeOK
<1>2. UNCHANGED <<vuln, vmState, active, device, overtaken>> /\ Store(s)
  BY DEF VmSend
<1>3. /\ reports' \in [Devices -> SUBSET Ids] /\ shown' \in [Devices -> SUBSET Findings]
      /\ \A d \in Devices : \A id \in reports'[d] : Past(id.observed)
  BY <1>2, StoreTypes
<1>4. ShownTypeOK'
  BY <1>1, <1>2, <1>3 DEF ShownInv, ShownTypeOK
<1>5. ObservedInv'
  BY <1>1, <1>2, <1>3 DEF ShownInv, ObservedInv, Past
<1>6. DeviceInv'
  BY <1>1, <1>2 DEF ShownInv, DeviceInv, AsNew, Synced, Settled
<1>7. ASSUME ~overtaken
      PROVE  HandingInv' /\ KnownInv' /\ PendingInv' /\ ActiveIsShown'
  <2>1. HandingInv /\ KnownInv /\ PendingInv /\ ActiveIsShown
    BY <1>7 DEF ShownInv
  <2>2. vmState.owner = p /\ s.id = ReportId(s.d)
    BY <1>1, <2>1 DEF HandingInv
  <2>3. /\ \A f \in Findings : Known(f)' => f \in active /\ f \in shown'[DeviceOf[f]]
        /\ \A f \in active : f \in shown[DeviceOf[f]] => f \in shown'[DeviceOf[f]]
        /\ \A f \in active : DeviceOf[f] = s.d /\ AsNew(f) /\ vuln[f].on => f \in shown'[DeviceOf[f]]
    BY <1>2, <1>7, StoreShows
  <2>4. HandingInv'
    BY <1>1, <1>2, <2>1 DEF HandingInv, ReportId, Content
  <2>5. KnownInv'
    BY <1>1, <1>2, <2>2, <2>3 DEF KnownInv
  <2>6. ASSUME NEW f \in Findings, Settled(p, f), vuln[f].on
        PROVE  \/ f \in shown'[DeviceOf[f]]
               \/ [d |-> DeviceOf[f], id |-> ReportId(DeviceOf[f])] \in vmPoll[p].snaps \ {s}
    <3>1. f \in active
      BY <1>0, <1>1, <2>2, <2>6 DEF VmInv, AppliedInv
    <3>2. AsNew(f)
      BY <1>1, <2>2, <2>6 DEF ShownInv, DeviceInv
    <3>3. \/ f \in shown[DeviceOf[f]]
          \/ [d |-> DeviceOf[f], id |-> ReportId(DeviceOf[f])] \in vmPoll[p].snaps
      BY <1>1, <2>1, <2>2, <2>6 DEF PendingInv
    <3>4. CASE [d |-> DeviceOf[f], id |-> ReportId(DeviceOf[f])] = s
      <4>1. s.d = DeviceOf[f]
        BY <3>4
      <4> QED BY <2>3, <2>6, <3>1, <3>2, <4>1
    <3> QED BY <2>3, <3>1, <3>3, <3>4
  <2>7. PendingInv'
    BY <1>1, <1>2, <2>2, <2>6 DEF PendingInv, Settled, ReportId, Content
  <2>8. ActiveIsShown'
    <3> SUFFICES ASSUME NEW f \in Findings, Synced(f), vuln[f].on
                 PROVE  f \in shown'[DeviceOf[f]]
      BY <1>2 DEF ActiveIsShown, Synced
    <3>1. f \in active /\ f \in shown[DeviceOf[f]]
      BY <1>0, <1>7, <2>1 DEF VmInv, MaterializedIsUpstream, ActiveIsShown
    <3> QED BY <2>3, <3>1
  <2> QED BY <2>4, <2>5, <2>7, <2>8
<1> QED BY <1>2, <1>4, <1>5, <1>6, <1>7 DEF ShownInv

\* ActiveIsShown for every refresh, horizon, overlap and lease time: whatever upstream
\* reported as active before the watermark, the newest snapshot of the device shows, although
\* store_mdvm_vulnerability_batch ignores a snapshot whose id it has seen before.
THEOREM ActiveFindingsAreShown == MdvmSpec => []ActiveIsShown
<1>1. MdvmInit => ShownInv
  <2> SUFFICES ASSUME MdvmInit PROVE ShownInv
    OBVIOUS
  <2>1. ShownTypeOK
    BY VmIdleType DEF MdvmInit, ShownTypeOK
  <2>2. ObservedInv
    BY VmIdleType DEF MdvmInit, ObservedInv, Past
  <2>3. DeviceInv /\ ActiveIsShown
    BY VmIdleType, MdvmAssumption DEF MdvmInit, DeviceInv, Synced, ActiveIsShown
  <2>4. HandingInv /\ PendingInv
    BY VmIdleType, MdvmAssumption DEF MdvmInit, HandingInv, PendingInv
  <2>5. KnownInv
    BY MdvmAssumption DEF MdvmInit, KnownInv, Known
  <2> QED BY <2>1, <2>2, <2>3, <2>4, <2>5, VmInvInit DEF ShownInv
<1>2. ShownInv /\ [MdvmNext]_vmVars => ShownInv'
  <2> SUFFICES ASSUME ShownInv, [MdvmNext]_vmVars PROVE ShownInv'
    OBVIOUS
  <2>1. VmInv'
    BY VmInvStep DEF ShownInv
  <2>2. CASE UNCHANGED vmVars \/ VmPass
    BY <2>1, <2>2, ShownFrame DEF vmVars, VmPass
  <2>3. ASSUME NEW p \in VmSyncers, VmFail(p)
        PROVE  ShownInv'
    <3>1. /\ vmState'.mark = vmState.mark /\ vmState'.owner # p
          /\ vmState'.owner = vmState.owner \/ (vmState.owner = p /\ vmState'.owner \notin VmSyncers)
      BY <2>3, MdvmAssumption DEF VmFail, Unleased, ShownInv, VmInv, VmTypeOK
    <3> QED BY <2>1, <2>3, <3>1, ShownEnds DEF VmFail
  <2>4. ASSUME NEW p \in VmSyncers, VmDie(p)
        PROVE  ShownInv'
    <3>1. /\ vmState'.mark = vmState.mark /\ vmState'.owner # p
          /\ vmState'.owner = vmState.owner \/ (vmState.owner = p /\ vmState'.owner \notin VmSyncers)
      BY <2>4, MdvmAssumption DEF VmDie, ShownInv, VmInv, VmTypeOK
    <3> QED BY <2>1, <2>4, <3>1, ShownEnds DEF VmDie
  <2>5. ASSUME NEW p \in VmSyncers,
               \/ VmAcquire(p) \/ VmFetch(p) \/ VmApply(p) \/ VmSnapshot(p) \/ VmSucceed(p)
               \/ \E s \in vmPoll[p].snaps : VmSend(p, s)
        PROVE  ShownInv'
    BY <2>1, <2>5, ShownAcquire, ShownFetch, ShownApply, ShownSnapshot, ShownSucceed, ShownSend
  <2> QED BY <2>1, <2>2, <2>3, <2>4, <2>5, ShownFlip DEF MdvmNext
<1>3. ShownInv => ActiveIsShown
  BY DEF ShownInv, ActiveIsShown
<1> QED BY <1>1, <1>2, <1>3, PTL DEF MdvmSpec
=============================================================================
