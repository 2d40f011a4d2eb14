--------------------------- MODULE JobStoreProofs ---------------------------
(***************************************************************************)
(* Theorems about JobStore, for every set of jobs, targets, slots and      *)
(* requests and every value of the bounds.                                 *)
(***************************************************************************)
EXTENDS JobStore, FiniteSetTheorems, TLAPS

-----------------------------------------------------------------------------
(* The rows that the transactions write, and the columns the proofs use.   *)

(* A NULL time column, zero and every clock reading are times.             *)
LEMMA TimesFacts == Null \in Times /\ 0 \in Times /\ Nat \subseteq Times
  BY DEF Null, Times

(* Clearing a lease leaves a well-formed row without holder or expiry.     *)
LEMMA ClearLeaseRow ==
  ASSUME NEW h \in Head
  PROVE  /\ ClearLease(h) \in Head
         /\ ClearLease(h).holder = NoSlot
         /\ ClearLease(h).state = h.state
         /\ ClearLease(h).attempt = h.attempt
         /\ ClearLease(h).epoch = h.epoch
         /\ ClearLease(h).expires = Null
         /\ ClearLease(h).derived = h.derived
  BY DEF ClearLease, Head, Times, Null

(* create inserts a well-formed queued row at attempt zero.                *)
LEMMA NewHeadRow ==
  ASSUME NEW t \in Nat
  PROVE  /\ NewHead(t) \in Head
         /\ NewHead(t).state = "pending"
         /\ NewHead(t).attempt = 0
         /\ NewHead(t).holder = NoSlot
         /\ NewHead(t).expires = Null
  BY DEF NewHead, EmptyHead, Head, Times, Null, Queued, DerivedStates, CancelMarks

(* A reclaimed row holds no lease and counts as missing.                   *)
LEMMA EvictedHeadRow ==
  /\ EvictedHead \in Head
  /\ EvictedHead.state = "evicted"
  /\ EvictedHead.attempt = 0
  /\ EvictedHead.holder = NoSlot
  /\ EvictedHead.expires = Null
  BY DEF EvictedHead, EmptyHead, Head, Times, Null, Missing, DerivedStates, CancelMarks

(* import_legacy inserts a well-formed row without a lease.                *)
LEMMA LegacyHeadRow ==
  ASSUME NEW st \in Queued \cup Active \cup Terminal, NEW a \in 0 .. MaxAttempts
  PROVE  /\ LegacyHead(st, a) \in Head
         /\ LegacyHead(st, a).state \in Queued \cup Terminal
         /\ LegacyHead(st, a).attempt = a
         /\ LegacyHead(st, a).holder = NoSlot
         /\ LegacyHead(st, a).expires = Null
<1>1. a \in Nat BY BoundAssumption
<1>2. LegacyHead(st, a) \in Head
  BY <1>1 DEF LegacyHead, EmptyHead, Head, Times, Null, Queued, Active, Terminal,
              DerivedStates, CancelMarks
<1>3. LegacyHead(st, a).state \in Queued \cup Terminal
  BY DEF LegacyHead, EmptyHead, Queued, Active, Terminal
<1>4. /\ LegacyHead(st, a).attempt = a
      /\ LegacyHead(st, a).holder = NoSlot
      /\ LegacyHead(st, a).expires = Null
  BY DEF LegacyHead, EmptyHead
<1> QED BY <1>2, <1>3, <1>4

(* _fail_exhausted writes a well-formed failed row without a lease.        *)
LEMMA FailedHeadRow ==
  ASSUME NEW h \in Head
  PROVE  /\ FailedHead(h) \in Head
         /\ FailedHead(h).state = "failed"
         /\ FailedHead(h).attempt = h.attempt
         /\ FailedHead(h).epoch = h.epoch
         /\ FailedHead(h).holder = NoSlot
         /\ FailedHead(h).expires = Null
  BY ClearLeaseRow DEF FailedHead, Head, Times, Null, Terminal

(* claim_next writes a well-formed row leased to the slot under the next   *)
(* epoch; a cancelling row stays cancelling and keeps its attempt.         *)
LEMMA ClaimedHeadRow ==
  ASSUME NEW h \in Head, NEW s \in Slots, NEW t \in Nat
  PROVE  /\ ClaimedHead(h, s, t) \in Head
         /\ ClaimedHead(h, s, t).state \in Active
         /\ h.state = "cancelling" => ClaimedHead(h, s, t).state = "cancelling"
         /\ ClaimedHead(h, s, t).attempt =
              IF h.state = "cancelling" THEN h.attempt ELSE NextAttempt(h)
         /\ ClaimedHead(h, s, t).epoch = h.epoch + 1
         /\ ClaimedHead(h, s, t).holder = s
<1>1. NextAttempt(h) \in Nat
  BY BoundAssumption DEF NextAttempt, Head
<1>2. t + LeaseTTL \in Nat /\ h.epoch + 1 \in Nat
  BY BoundAssumption DEF Head
<1>3. ClaimedHead(h, s, t) \in Head
  <2>1. CASE h.state = "cancelling"
    BY <1>2, <2>1 DEF ClaimedHead, Head, Times, Null
  <2>2. CASE h.state # "cancelling"
    BY <1>1, <1>2, <2>2 DEF ClaimedHead, Head, Times, Null, Active
  <2> QED BY <2>1, <2>2
<1>4. /\ ClaimedHead(h, s, t).state = IF h.state = "cancelling" THEN "cancelling" ELSE "running"
      /\ ClaimedHead(h, s, t).attempt =
              IF h.state = "cancelling" THEN h.attempt ELSE NextAttempt(h)
      /\ ClaimedHead(h, s, t).epoch = h.epoch + 1
      /\ ClaimedHead(h, s, t).holder = s
  BY DEF ClaimedHead, Head
<1> QED BY <1>3, <1>4 DEF Active

(* complete writes a well-formed row that has given up its lease.          *)
LEMMA CompletedHeadRow ==
  ASSUME NEW h \in Head, NEW c \in Claims, NEW t \in Nat,
         NEW state \in Queued \cup Terminal, NEW derived \in DerivedStates
  PROVE  /\ CompletedHead(h, c, t, state, derived) \in Head
         /\ CompletedHead(h, c, t, state, derived).state = state
         /\ CompletedHead(h, c, t, state, derived).attempt = c.attempt
         /\ CompletedHead(h, c, t, state, derived).epoch = h.epoch
         /\ CompletedHead(h, c, t, state, derived).holder = NoSlot
         /\ CompletedHead(h, c, t, state, derived).expires = Null
<1>1. c.attempt \in Nat /\ c.cancel \in CancelMarks /\ t + RetryDelay \in Nat
  BY BoundAssumption DEF Claims
<1> DEFINE cl == ClearLease(h)
<1>2. /\ cl \in Head
      /\ cl.holder = NoSlot
      /\ cl.epoch = h.epoch
      /\ cl.expires = Null
  BY ClearLeaseRow
<1> HIDE DEF cl
<1> DEFINE av == IF state = "retrying" THEN t + RetryDelay ELSE Null
           row == [cl EXCEPT !.state = state, !.attempt = c.attempt, !.cancel = c.cancel,
                             !.avail = av, !.derived = derived]
<1>3. CompletedHead(h, c, t, state, derived) = row
  BY DEF CompletedHead, cl
<1>4. row \in Head
  <2>1. av \in Times BY <1>1, TimesFacts
  <2> HIDE DEF av
  <2> QED BY <1>1, <1>2, <2>1 DEF Head
<1>5. /\ row.state = state
      /\ row.attempt = c.attempt
      /\ row.epoch = cl.epoch
      /\ row.holder = cl.holder
      /\ row.expires = cl.expires
  BY <1>2 DEF Head
<1> HIDE DEF row
<1> QED BY <1>2, <1>3, <1>4, <1>5

(* request_cancel changes the state of a row and leaves its lease alone.   *)
LEMMA CancelledHeadRow ==
  ASSUME NEW h \in Head
  PROVE  /\ CancelledHead(h) \in Head
         /\ h.state \in Queued => CancelledHead(h).state = "cancelled"
         /\ h.state \notin Queued => CancelledHead(h).state = "cancelling"
         /\ CancelledHead(h).attempt = h.attempt
         /\ CancelledHead(h).epoch = h.epoch
         /\ CancelledHead(h).holder = h.holder
         /\ CancelledHead(h).expires = h.expires
<1>1. CASE h.state \in Queued
  BY <1>1 DEF CancelledHead, Head, Times, Null, Terminal, CancelMarks
<1>2. CASE h.state \notin Queued
  BY <1>2 DEF CancelledHead, Head, Active, CancelMarks
<1> QED BY <1>1, <1>2

(* manual_retry writes a well-formed queued row at attempt zero.           *)
LEMMA RetriedHeadRow ==
  ASSUME NEW h \in Head, NEW t \in Nat
  PROVE  /\ RetriedHead(h, t) \in Head
         /\ RetriedHead(h, t).state = "pending"
         /\ RetriedHead(h, t).attempt = 0
         /\ RetriedHead(h, t).epoch = h.epoch
         /\ RetriedHead(h, t).holder = NoSlot
         /\ RetriedHead(h, t).expires = Null
  BY ClearLeaseRow DEF RetriedHead, Head, Times, Queued, DerivedStates, CancelMarks

(* The fence of a direct operation clears the lease and spends the epoch.  *)
LEMMA FencedHeadRow ==
  ASSUME NEW h \in Head
  PROVE  /\ FencedHead(h) \in Head
         /\ FencedHead(h).state = h.state
         /\ FencedHead(h).attempt = h.attempt
         /\ FencedHead(h).epoch = h.epoch + 1
         /\ FencedHead(h).holder = NoSlot
         /\ FencedHead(h).expires = Null
  BY ClearLeaseRow DEF FencedHead, Head

(* Clock readings are times.                                               *)
LEMMA ReadingsNat == ASSUME clock \in Nat, NEW t \in Readings PROVE t \in Nat
  BY DEF Readings

-----------------------------------------------------------------------------
(* The steps the guarantees below survive: those of the repository itself, *)
(* and those of the modules that call it, which exclude other jobs from a  *)
(* claim or lose several claims at once when a process ends.               *)
WorkerCall(s) ==
  \/ \E j \in Jobs : \E t \in Readings : \E E : ClaimNext(s, j, t, E)
  \/ \E t \in Readings : \E E : ClaimNone(s, t, E)
  \/ \E t \in Readings : Renew(s, t)
  \/ \E t \in Readings : \E out \in Outcomes(claim[s]) : Complete(s, t, out[1], out[2])
  \/ Abandon(s)

Forget ==
  /\ \E S \in SUBSET Slots : claim' = [s \in Slots |-> IF s \in S THEN NoClaim ELSE claim[s]]
  /\ UNCHANGED <<heads, opLease, op, clock>>

StoreStep ==
  \/ ApiStep
  \/ \E s \in Slots : WorkerCall(s)
  \/ \E o \in Ops : OpStep(o)
  \/ Tick
  \/ Forget
  \/ UNCHANGED vars

(* The repository takes such steps.                                        *)
LEMMA NextIsStoreStep == [Next]_vars => StoreStep
  BY DEF Next, StoreStep, WorkerStep, WorkerCall

-----------------------------------------------------------------------------
(* What the groups of actions do to the rows.  Each lemma describes the    *)
(* heads after the step in terms of the rows above, so that the invariance *)
(* proofs need not open the actions again.                                 *)

(* Every head that Insert does not touch stays, is evicted, or is the row. *)
LEMMA InsertHeads ==
  ASSUME NEW j \in Jobs, NEW row, Insert(j, row)
  PROVE  /\ heads' = [k \in Jobs |-> heads'[k]]
         /\ heads'[j] = row
         /\ \A k \in Jobs \ {j} :
              \/ heads'[k] = heads[k]
              \/ heads'[k] = EvictedHead /\ heads[k].state \in Terminal
<1>1. PICK E \in Evictions :
        heads' = [k \in Jobs |->
                    IF k = j THEN row ELSE IF k \in E THEN EvictedHead ELSE heads[k]]
  BY DEF Insert
<1>2. \A k \in E : heads[k].state \in Terminal
  BY DEF Evictions, Evictable
<1> QED BY <1>1, <1>2

(* The clean-up of claim_next.                                             *)
LEMMA FailExhaustedHeads ==
  ASSUME TypeOK, NEW t \in Nat
  PROVE  /\ FailExhausted(t) \in [Jobs -> Head]
         /\ \A k \in Jobs :
              \/ FailExhausted(t)[k] = heads[k]
              \/ FailExhausted(t)[k] = FailedHead(heads[k]) /\ heads[k].state \in Queued
<1>1. \A k \in Jobs : heads[k] \in Head /\ FailedHead(heads[k]) \in Head
  BY FailedHeadRow DEF TypeOK
<1> QED BY <1>1 DEF FailExhausted, Exhausted

(* The sweep of target_operation_leases keeps rows or deletes them.        *)
LEMMA SweepOpsLeases ==
  ASSUME TypeOK, NEW t \in Nat
  PROVE  /\ SweepOps(t) \in [Targets -> [holder : Ops \cup {NoOp}, expires : Times]]
         /\ \A g \in Targets :
              \/ SweepOps(t)[g] = opLease[g]
              \/ SweepOps(t)[g] = NoOpLease
         /\ \A g \in Targets : ~ SweepOps(t)[g].expires > t => SweepOps(t)[g] = NoOpLease
<1>1. NoOpLease \in [holder : Ops \cup {NoOp}, expires : Times]
  BY TimesFacts DEF NoOpLease
<1> QED BY <1>1 DEF SweepOps, TypeOK

(* claim_next with a claim: one more head is taken by the slot, and its    *)
(* target has no direct operation left.                                    *)
LEMMA ClaimNextStep ==
  ASSUME TypeOK, NEW s \in Slots, NEW j \in Jobs, NEW t \in Nat, NEW exclude,
         ClaimNext(s, j, t, exclude)
  PROVE  /\ heads' \in [Jobs -> Head]
         /\ heads[j].state \in Queued \cup Active
         /\ heads[j].state \in Queued => heads[j].attempt < MaxAttempts
         /\ heads'[j] = ClaimedHead(heads[j], s, t)
         /\ \A k \in Jobs \ {j} :
              \/ heads'[k] = heads[k]
              \/ heads'[k] = FailedHead(heads[k]) /\ heads[k].state \in Queued
         /\ opLease' = SweepOps(t)
         /\ opLease'[TargetOf[j]] = NoOpLease
         /\ claim' = [claim EXCEPT ![s] = [job |-> j, epoch |-> heads'[j].epoch,
                                           attempt |-> heads'[j].attempt, cancel |-> heads'[j].cancel]]
         /\ op' = op /\ clock' = clock
<1> DEFINE hs == FailExhausted(t)
           row == ClaimedHead(hs[j], s, t)
<1>1. /\ hs \in [Jobs -> Head]
      /\ \A k \in Jobs : \/ hs[k] = heads[k]
                         \/ hs[k] = FailedHead(heads[k]) /\ heads[k].state \in Queued
  BY FailExhaustedHeads
<1>2. Claimable(hs, SweepOps(t), j, t)
  BY DEF ClaimNext, Candidates
<1>3. /\ heads' = [hs EXCEPT ![j] = row]
      /\ opLease' = SweepOps(t)
      /\ claim' = [claim EXCEPT ![s] = [job |-> j, epoch |-> row.epoch,
                                     attempt |-> row.attempt, cancel |-> row.cancel]]
      /\ op' = op /\ clock' = clock
  BY DEF ClaimNext
<1>4. row \in Head BY <1>1, ClaimedHeadRow
<1> HIDE DEF row
<1>5. hs[j].state \in Queued \cup Active
  BY <1>2 DEF Claimable
<1>6. hs[j] = heads[j]
  <2>1. FailedHead(heads[j]).state = "failed"
    BY FailedHeadRow DEF TypeOK
  <2> QED BY <1>1, <1>5, <2>1 DEF Queued, Active
<1>7. hs[j].state \in Queued => hs[j].attempt < MaxAttempts
  BY <1>2 DEF Claimable, Queued, Active
<1>8. opLease'[TargetOf[j]] = NoOpLease
  <2>1. ~ SweepOps(t)[TargetOf[j]].expires > t
    BY <1>2 DEF Claimable
  <2> QED BY <1>3, <2>1, SweepOpsLeases, TargetAssumption
<1>9. heads'[j] = row /\ \A k \in Jobs \ {j} : heads'[k] = hs[k]
  <2> HIDE DEF hs
  <2> QED BY <1>1, <1>3
<1>10. row = ClaimedHead(heads[j], s, t)
  BY <1>6 DEF row
<1>11. heads' \in [Jobs -> Head]
  <2> HIDE DEF hs
  <2> QED BY <1>1, <1>3, <1>4
<1> HIDE DEF hs
<1> QED BY <1>1, <1>3, <1>5, <1>6, <1>7, <1>8, <1>9, <1>10, <1>11

(* A claim that leases a row names an existing job.                        *)
LEMMA LeasedRowJob ==
  ASSUME TypeOK, NEW s \in Slots, NEW t, LeasedRow(s, t)
  PROVE  /\ claim[s] \in Claims
         /\ claim[s].job \in Jobs
         /\ heads[claim[s].job] \in Head
         /\ heads[claim[s].job].holder = s
         /\ heads[claim[s].job].state \in Active
         /\ heads[claim[s].job].expires > t
         /\ ~ opLease[TargetOf[claim[s].job]].expires > t
  BY DEF LeasedRow, TypeOK, Claims

(* What the callers of complete pass: states and results, and RETRYING     *)
(* only within the attempt budget.                                         *)
LEMMA OutcomesFacts ==
  ASSUME NEW c, NEW out \in Outcomes(c)
  PROVE  /\ out[1] \in Terminal \cup {"retrying"}
         /\ out[1] = "retrying" => c.attempt < MaxAttempts
         /\ out[2] \in DerivedStates
  BY DEF Outcomes, Terminal, DerivedStates

(* complete: the head of the claim gives up its lease.                     *)
LEMMA CompleteStep ==
  ASSUME TypeOK, NEW s \in Slots, NEW t \in Nat, NEW out \in Outcomes(claim[s]),
         Complete(s, t, out[1], out[2])
  PROVE  LET j == claim[s].job
             row == CompletedHead(heads[j], claim[s], t, out[1], out[2])
         IN  /\ j \in Jobs
             /\ heads[j].holder = s
             /\ heads[j].state \in Active
             /\ row \in Head
             /\ row.holder = NoSlot
             /\ row.attempt = claim[s].attempt
             /\ row.epoch = heads[j].epoch
             /\ row.state = out[1]
             /\ row.expires = Null
             /\ heads' = [heads EXCEPT ![j] = row]
             /\ claim' = [claim EXCEPT ![s] = NoClaim]
             /\ UNCHANGED <<opLease, op, clock>>
<1>1. LeasedRow(s, t) BY DEF Complete
<1>2. claim[s] \in Claims /\ claim[s].job \in Jobs /\ heads[claim[s].job] \in Head
  BY <1>1, LeasedRowJob
<1>3. out[1] \in Queued \cup Terminal /\ out[2] \in DerivedStates
  BY OutcomesFacts DEF Queued
<1> QED BY <1>1, <1>2, <1>3, LeasedRowJob, CompletedHeadRow DEF Complete

-----------------------------------------------------------------------------
(* Type correctness.                                                       *)

(* The empty repository is well formed.                                    *)
LEMMA TypeInit == Init => TypeOK
  BY DEF Init, TypeOK, EmptyHead, Head, Times, Null, Missing, DerivedStates, CancelMarks, NoOpLease

(* The calls of the API keep the rows well formed.                         *)
LEMMA ApiStepType ==
  ASSUME TypeOK, ApiStep
  PROVE  TypeOK'
<1>1. clock \in Nat BY DEF TypeOK
<1>2. ASSUME NEW j \in Jobs, NEW row \in Head, Insert(j, row),
             UNCHANGED <<opLease, claim, op, clock>>
      PROVE  TypeOK'
  <2>1. \A k \in Jobs : heads'[k] \in Head
    BY <1>2, InsertHeads, EvictedHeadRow DEF TypeOK
  <2>2. heads' = [k \in Jobs |-> heads'[k]]
    BY <1>2, InsertHeads
  <2>3. heads' \in [Jobs -> Head] BY <2>1, <2>2
  <2> QED BY <1>2, <2>3 DEF TypeOK
<1>3. ASSUME NEW j \in Jobs, NEW t \in Readings, Create(j, t)
      PROVE  TypeOK'
  BY <1>1, <1>2, <1>3, ReadingsNat, NewHeadRow DEF Create
<1>4. ASSUME NEW j \in LegacyJobs, NEW st \in Queued \cup Active \cup Terminal,
             NEW a \in 0 .. MaxAttempts, ImportLegacy(j, st, a)
      PROVE  TypeOK'
  BY <1>2, <1>4, LegacyAssumption, LegacyHeadRow DEF ImportLegacy
<1>5. ASSUME NEW j \in Jobs, RequestCancel(j)
      PROVE  TypeOK'
  BY <1>5, CancelledHeadRow DEF RequestCancel, TypeOK
<1>6. ASSUME NEW j \in Jobs, NEW t \in Readings, ManualRetry(j, t)
      PROVE  TypeOK'
  BY <1>1, <1>6, ReadingsNat, RetriedHeadRow DEF ManualRetry, TypeOK
<1>7. ASSUME NEW j \in Jobs, NEW d \in {"open", "settled"}, UpdateDerivedResult(j, d)
      PROVE  TypeOK'
  BY <1>7 DEF UpdateDerivedResult, TypeOK, Head, DerivedStates
<1> QED BY <1>3, <1>4, <1>5, <1>6, <1>7 DEF ApiStep

(* The calls of the workers keep rows and claims well formed.              *)
LEMMA WorkerStepType ==
  ASSUME TypeOK, NEW s \in Slots, WorkerCall(s)
  PROVE  TypeOK'
<1>1. clock \in Nat BY DEF TypeOK
<1>2. ASSUME NEW j \in Jobs, NEW t \in Readings, NEW E, ClaimNext(s, j, t, E)
      PROVE  TypeOK'
  <2>1. t \in Nat BY <1>1, ReadingsNat
  <2>2. heads' \in [Jobs -> Head] BY <1>2, <2>1, ClaimNextStep
  <2>3. opLease' \in [Targets -> [holder : Ops \cup {NoOp}, expires : Times]]
    BY <1>2, <2>1, ClaimNextStep, SweepOpsLeases
  <2>4. heads'[j].epoch \in Nat /\ heads'[j].attempt \in Nat /\ heads'[j].cancel \in CancelMarks
    BY <2>2 DEF Head
  <2>5. claim' = [claim EXCEPT ![s] = [job |-> j, epoch |-> heads'[j].epoch,
                                       attempt |-> heads'[j].attempt, cancel |-> heads'[j].cancel]]
    BY <1>2, <2>1, ClaimNextStep
  <2>6. claim' \in [Slots -> Claims \cup {NoClaim}]
    BY <2>4, <2>5 DEF TypeOK, Claims
  <2>7. op' = op /\ clock' = clock
    BY <1>2, <2>1, ClaimNextStep
  <2> QED BY <2>2, <2>3, <2>6, <2>7 DEF TypeOK
<1>3. ASSUME NEW t \in Readings, NEW E, ClaimNone(s, t, E)
      PROVE  TypeOK'
  <2>1. t \in Nat BY <1>1, ReadingsNat
  <2>2. heads' \in [Jobs -> Head] BY <1>3, <2>1, FailExhaustedHeads DEF ClaimNone
  <2>3. opLease' \in [Targets -> [holder : Ops \cup {NoOp}, expires : Times]]
    BY <1>3, <2>1, SweepOpsLeases DEF ClaimNone
  <2> QED BY <1>3, <2>2, <2>3 DEF ClaimNone, TypeOK
<1>4. ASSUME NEW t \in Readings, Renew(s, t)
      PROVE  TypeOK'
  <2>1. t \in Times /\ t + LeaseTTL \in Times
    BY <1>1, ReadingsNat, BoundAssumption, TimesFacts
  <2>2. claim[s] \in Claims /\ claim[s].job \in Jobs /\ heads[claim[s].job] \in Head
    BY <1>4, LeasedRowJob DEF Renew
  <2>3. heads' \in [Jobs -> Head]
    BY <1>4, <2>1, <2>2 DEF Renew, TypeOK, Head
  <2>4. heads[claim[s].job].attempt \in Nat /\ heads[claim[s].job].cancel \in CancelMarks
    BY <2>2 DEF Head
  <2>5. claim' \in [Slots -> Claims \cup {NoClaim}]
    BY <1>4, <2>2, <2>4 DEF Renew, TypeOK, Claims
  <2> QED BY <1>4, <2>3, <2>5 DEF Renew, TypeOK
<1>5. ASSUME NEW t \in Readings, NEW out \in Outcomes(claim[s]),
             Complete(s, t, out[1], out[2])
      PROVE  TypeOK'
  <2>1. t \in Nat BY <1>1, ReadingsNat
  <2> DEFINE j == claim[s].job
             row == CompletedHead(heads[j], claim[s], t, out[1], out[2])
  <2>2. row \in Head /\ heads' = [heads EXCEPT ![j] = row]
    BY <1>5, <2>1, CompleteStep
  <2> HIDE DEF row
  <2>3. heads' \in [Jobs -> Head] BY <2>2 DEF TypeOK
  <2> QED BY <1>5, <2>3 DEF Complete, TypeOK
<1>6. ASSUME Abandon(s) PROVE TypeOK'
  BY <1>6 DEF Abandon, TypeOK
<1> QED BY <1>2, <1>3, <1>4, <1>5, <1>6 DEF WorkerCall

(* The calls of direct operations keep rows and leases well formed.        *)
LEMMA OpStepType ==
  ASSUME TypeOK, NEW o \in Ops, OpStep(o)
  PROVE  TypeOK'
<1>1. clock \in Nat BY DEF TypeOK
<1> DEFINE Leases == [Targets -> [holder : Ops \cup {NoOp}, expires : Times]]
<1>2. ASSUME NEW g \in Targets, NEW t \in Readings, AcquireTargetOperation(o, g, t)
      PROVE  TypeOK'
  <2>1. t \in Nat /\ t + LeaseTTL \in Times
    BY <1>1, ReadingsNat, BoundAssumption, TimesFacts
  <2>2. SweepOps(t) \in Leases BY <2>1, SweepOpsLeases
  <2>3. opLease' \in Leases
    BY <1>2, <2>1, <2>2 DEF AcquireTargetOperation
  <2>4. \A j \in Jobs : FencedHead(heads[j]) \in Head
    BY FencedHeadRow DEF TypeOK
  <2>5. heads' \in [Jobs -> Head]
    BY <1>2, <2>4 DEF AcquireTargetOperation, TypeOK
  <2> QED BY <1>2, <2>3, <2>5 DEF AcquireTargetOperation, TypeOK
<1>3. ASSUME NEW g \in Targets, NEW t \in Readings, TargetOperationBusy(o, g, t)
      PROVE  TypeOK'
  BY <1>1, <1>3, ReadingsNat, SweepOpsLeases DEF TargetOperationBusy, TypeOK
<1>4. ASSUME NEW t \in Readings, RenewTargetOperation(o, t)
      PROVE  TypeOK'
  <2>1. t + LeaseTTL \in Times
    BY <1>1, ReadingsNat, BoundAssumption, TimesFacts
  <2> QED BY <1>4, <2>1 DEF RenewTargetOperation, TypeOK
<1>5. ASSUME ReleaseTargetOperation(o) PROVE TypeOK'
  <2>1. NoOpLease \in [holder : Ops \cup {NoOp}, expires : Times]
    BY TimesFacts DEF NoOpLease
  <2> QED BY <1>5, <2>1 DEF ReleaseTargetOperation, TypeOK
<1>6. ASSUME CrashTargetOperation(o) PROVE TypeOK'
  BY <1>6 DEF CrashTargetOperation, TypeOK
<1> QED BY <1>2, <1>3, <1>4, <1>5, <1>6 DEF OpStep

(* Every transaction leaves well-formed rows and capabilities.             *)
LEMMA TypeStep == TypeOK /\ StoreStep => TypeOK'
<1> SUFFICES ASSUME TypeOK, StoreStep PROVE TypeOK'
  OBVIOUS
<1>1. CASE Tick BY <1>1 DEF Tick, TypeOK
<1>2. CASE UNCHANGED vars BY <1>2 DEF vars, TypeOK
<1>3. CASE Forget BY <1>3 DEF Forget, TypeOK
<1> QED BY <1>1, <1>2, <1>3, ApiStepType, WorkerStepType, OpStepType DEF StoreStep

(* The repository is well formed in every behaviour.                       *)
THEOREM TypeCorrect == Spec => []TypeOK
  BY TypeInit, TypeStep, NextIsStoreStep, PTL DEF Spec

-----------------------------------------------------------------------------
(* Fencing.  The invariants below hold for every ClockLag: they do not     *)
(* depend on the honesty of the clock readings.                            *)

(* The strengthening: a lease token is stored only in a running or         *)
(* cancelling head, so the fence of acquire_target_operation, which        *)
(* touches only those, leaves no token on the target.                      *)
OnlyActiveHeadsLeased ==
  \A j \in Jobs : heads[j].holder /= NoSlot => heads[j].state \in Active

FenceInv ==
  /\ TypeOK
  /\ OnlyActiveHeadsLeased
  /\ OperationFencesJobs
  /\ SnapshotCurrent
  /\ AttemptBudget

(* The empty repository satisfies the inductive invariant.                 *)
LEMMA FenceInit == Init => FenceInv
<1> SUFFICES ASSUME Init PROVE FenceInv OBVIOUS
<1>1. TypeOK BY TypeInit
<1>2. \A j \in Jobs : heads[j].holder = NoSlot /\ heads[j].attempt = 0 /\ heads[j].state = "absent"
  BY DEF Init, EmptyHead
<1>3. NoSlot \notin Slots /\ MaxAttempts \in Nat \ {0}
  BY SlotAssumption, BoundAssumption
<1> QED BY <1>1, <1>2, <1>3
        DEF FenceInv, OnlyActiveHeadsLeased, OperationFencesJobs, SnapshotCurrent,
            AttemptBudget, Queued

(* A step that changes no claim and no direct operation keeps the          *)
(* invariant if every head stays or becomes an unleased, in-budget row.    *)
LEMMA FenceHeadsStep ==
  ASSUME FenceInv, TypeOK', UNCHANGED <<opLease, claim>>,
         \A k \in Jobs :
           \/ heads'[k] = heads[k]
           \/ /\ heads'[k].holder = NoSlot
              /\ heads'[k].attempt <= MaxAttempts + 1
              /\ heads'[k].state \in Queued /\ k \notin LegacyJobs
                   => heads'[k].attempt < MaxAttempts
              /\ heads'[k].attempt = MaxAttempts + 1 => heads'[k].state \in Active \cup Terminal
  PROVE  FenceInv'
<1>1. NoSlot \notin Slots BY SlotAssumption
<1>2. OnlyActiveHeadsLeased' BY DEF FenceInv, OnlyActiveHeadsLeased
<1>3. OperationFencesJobs' BY DEF FenceInv, OperationFencesJobs
<1>4. SnapshotCurrent' BY <1>1 DEF FenceInv, SnapshotCurrent
<1>5. AttemptBudget' BY DEF FenceInv, AttemptBudget
<1> QED BY <1>2, <1>3, <1>4, <1>5 DEF FenceInv

(* The calls of the API preserve the inductive invariant.                  *)
LEMMA ApiStepFence ==
  ASSUME FenceInv, ApiStep
  PROVE  FenceInv'
<1>0. TypeOK /\ TypeOK' /\ clock \in Nat
  BY ApiStepType DEF FenceInv, TypeOK
<1>1. MaxAttempts \in Nat \ {0} BY BoundAssumption
<1>2. ASSUME NEW j \in Jobs, NEW t \in Readings, Create(j, t)
      PROVE  FenceInv'
  <2>1. t \in Nat BY <1>0, ReadingsNat
  <2>2. Insert(j, NewHead(t)) BY <1>2 DEF Create
  <2>3. /\ heads'[j] = NewHead(t)
        /\ \A k \in Jobs \ {j} : heads'[k] = heads[k] \/ heads'[k] = EvictedHead
    BY <2>2, InsertHeads
  <2>4. UNCHANGED <<opLease, claim>> BY <1>2 DEF Create
  <2>5. ASSUME NEW k \in Jobs
        PROVE  \/ heads'[k] = heads[k]
               \/ heads'[k].holder = NoSlot /\ heads'[k].attempt = 0
    BY <2>1, <2>3, NewHeadRow, EvictedHeadRow
  <2> QED BY <1>0, <1>1, <2>4, <2>5, FenceHeadsStep
<1>3. ASSUME NEW j \in LegacyJobs, NEW st \in Queued \cup Active \cup Terminal,
             NEW a \in 0 .. MaxAttempts, ImportLegacy(j, st, a)
      PROVE  FenceInv'
  <2>1. j \in Jobs BY LegacyAssumption
  <2>2. Insert(j, LegacyHead(st, a)) BY <1>3 DEF ImportLegacy
  <2>3. /\ heads'[j] = LegacyHead(st, a)
        /\ \A k \in Jobs \ {j} : heads'[k] = heads[k] \/ heads'[k] = EvictedHead
    BY <2>1, <2>2, InsertHeads
  <2>4. UNCHANGED <<opLease, claim>> BY <1>3 DEF ImportLegacy
  <2>5. heads'[j].holder = NoSlot /\ heads'[j].attempt = a
    BY <2>3, LegacyHeadRow
  <2>6. ASSUME NEW k \in Jobs \ {j}
        PROVE  \/ heads'[k] = heads[k]
               \/ heads'[k].holder = NoSlot /\ heads'[k].attempt = 0
    BY <2>3, EvictedHeadRow
  <2> QED BY <1>0, <1>1, <2>4, <2>5, <2>6, FenceHeadsStep
<1>4. ASSUME NEW j \in Jobs, RequestCancel(j)
      PROVE  FenceInv'
  <2>1. /\ heads' = [heads EXCEPT ![j] = CancelledHead(heads[j])]
        /\ heads[j].state \in Queued \cup {"running"}
        /\ UNCHANGED <<opLease, claim>>
    BY <1>4 DEF RequestCancel
  <2>2. /\ heads'[j].state = "cancelled" \/ heads'[j].state = "cancelling"
        /\ heads[j].state \in Active => heads'[j].state \in Active
        /\ heads'[j].attempt = heads[j].attempt
        /\ heads'[j].epoch = heads[j].epoch
        /\ heads'[j].holder = heads[j].holder
    BY <1>0, <2>1, CancelledHeadRow DEF TypeOK, Active, Queued
  <2>3. \A k \in Jobs \ {j} : heads'[k] = heads[k]
    BY <1>0, <2>1 DEF TypeOK
  <2>4. OnlyActiveHeadsLeased' BY <2>2, <2>3 DEF FenceInv, OnlyActiveHeadsLeased
  <2>5. OperationFencesJobs' BY <2>1, <2>2, <2>3 DEF FenceInv, OperationFencesJobs
  <2>6. SnapshotCurrent' BY <2>1, <2>2, <2>3 DEF FenceInv, SnapshotCurrent
  <2>7. AttemptBudget'
    BY <2>2, <2>3 DEF FenceInv, AttemptBudget, Active, Terminal, Queued
  <2> QED BY <1>0, <2>4, <2>5, <2>6, <2>7 DEF FenceInv
<1>5. ASSUME NEW j \in Jobs, NEW t \in Readings, ManualRetry(j, t)
      PROVE  FenceInv'
  <2>1. heads' = [heads EXCEPT ![j] = RetriedHead(heads[j], t)] /\ UNCHANGED <<opLease, claim>>
    BY <1>5 DEF ManualRetry
  <2>2. heads'[j].holder = NoSlot /\ heads'[j].attempt = 0
    BY <1>0, <2>1, ReadingsNat, RetriedHeadRow DEF TypeOK
  <2>3. \A k \in Jobs \ {j} : heads'[k] = heads[k]
    BY <1>0, <2>1 DEF TypeOK
  <2> QED BY <1>0, <1>1, <2>1, <2>2, <2>3, FenceHeadsStep
<1>6. ASSUME NEW j \in Jobs, NEW d \in {"open", "settled"}, UpdateDerivedResult(j, d)
      PROVE  FenceInv'
  <2>1. /\ heads' = [heads EXCEPT ![j].derived = d]
        /\ heads[j].state = "succeeded"
        /\ UNCHANGED <<opLease, claim>>
    BY <1>6 DEF UpdateDerivedResult
  <2>2. /\ heads'[j].state = heads[j].state
        /\ heads'[j].attempt = heads[j].attempt
        /\ heads'[j].epoch = heads[j].epoch
        /\ heads'[j].holder = heads[j].holder
        /\ \A k \in Jobs \ {j} : heads'[k] = heads[k]
    BY <1>0, <2>1 DEF TypeOK, Head
  <2>3. OnlyActiveHeadsLeased' BY <2>2 DEF FenceInv, OnlyActiveHeadsLeased
  <2>4. OperationFencesJobs' BY <2>1, <2>2 DEF FenceInv, OperationFencesJobs
  <2>5. SnapshotCurrent' BY <2>1, <2>2 DEF FenceInv, SnapshotCurrent
  <2>6. AttemptBudget' BY <2>2 DEF FenceInv, AttemptBudget
  <2> QED BY <1>0, <2>3, <2>4, <2>5, <2>6 DEF FenceInv
<1> QED BY <1>2, <1>3, <1>4, <1>5, <1>6 DEF ApiStep

(* The calls of the workers preserve the inductive invariant.              *)
LEMMA WorkerStepFence ==
  ASSUME FenceInv, NEW s \in Slots, WorkerCall(s)
  PROVE  FenceInv'
<1>0. TypeOK /\ TypeOK' /\ clock \in Nat
  BY WorkerStepType DEF FenceInv, TypeOK
<1>1. MaxAttempts \in Nat \ {0} /\ NoSlot \notin Slots
  BY BoundAssumption, SlotAssumption
<1>2. ASSUME NEW j \in Jobs, NEW t \in Readings, NEW E, ClaimNext(s, j, t, E)
      PROVE  FenceInv'
  <2>1. t \in Nat BY <1>0, ReadingsNat
  <2>2. /\ heads[j].state \in Queued \cup Active
        /\ heads[j].state \in Queued => heads[j].attempt < MaxAttempts
        /\ heads'[j] = ClaimedHead(heads[j], s, t)
        /\ \A k \in Jobs \ {j} :
              \/ heads'[k] = heads[k]
              \/ heads'[k] = FailedHead(heads[k]) /\ heads[k].state \in Queued
        /\ opLease' = SweepOps(t)
        /\ opLease'[TargetOf[j]] = NoOpLease
        /\ claim' = [claim EXCEPT ![s] = [job |-> j, epoch |-> heads'[j].epoch,
                                          attempt |-> heads'[j].attempt, cancel |-> heads'[j].cancel]]
    BY <1>0, <1>2, <2>1, ClaimNextStep
  <2>3. /\ heads'[j].state \in Active
        /\ heads'[j].holder = s
        /\ heads'[j].attempt =
              IF heads[j].state = "cancelling" THEN heads[j].attempt ELSE NextAttempt(heads[j])
    BY <1>0, <2>1, <2>2, ClaimedHeadRow DEF TypeOK
  <2>4. \A k \in Jobs \ {j} :
          \/ heads'[k] = heads[k]
          \/ /\ heads'[k].holder = NoSlot
             /\ heads'[k].state = "failed"
             /\ heads'[k].attempt = heads[k].attempt
    BY <1>0, <2>2, FailedHeadRow DEF TypeOK
  <2>5. OnlyActiveHeadsLeased'
    BY <2>3, <2>4 DEF FenceInv, OnlyActiveHeadsLeased
  <2>6. OperationFencesJobs'
    <3>1. \A g \in Targets : opLease'[g] /= NoOpLease =>
             opLease[g] /= NoOpLease /\ g /= TargetOf[j]
      BY <1>0, <2>1, <2>2, SweepOpsLeases
    <3> QED BY <2>4, <3>1 DEF FenceInv, OperationFencesJobs
  <2>7. SnapshotCurrent'
    <3> SUFFICES ASSUME NEW r \in Slots, NEW k \in Jobs,
                        heads'[k].holder = r, claim'[r].job = k
                 PROVE  /\ heads'[k].state \in Active
                        /\ claim'[r].epoch = heads'[k].epoch
                        /\ claim'[r].attempt = heads'[k].attempt
      BY DEF SnapshotCurrent
    <3>1. CASE k = j
      <4>1. r = s BY <2>3, <3>1
      <4> QED BY <1>0, <2>2, <2>3, <3>1, <4>1 DEF TypeOK
    <3>2. CASE k /= j
      <4>1. heads'[k] = heads[k] BY <1>1, <2>4, <3>2
      <4>2. r /= s BY <1>0, <2>2, <3>2 DEF TypeOK
      <4>3. claim'[r] = claim[r] BY <1>0, <2>2, <4>2 DEF TypeOK
      <4> QED BY <4>1, <4>3 DEF FenceInv, SnapshotCurrent
    <3> QED BY <3>1, <3>2
  <2>8. AttemptBudget'
    <3>1. heads[j].attempt \in Nat /\ heads[j].attempt <= MaxAttempts + 1
      BY <1>0 DEF FenceInv, AttemptBudget, TypeOK, Head
    <3>2. heads'[j].attempt <= MaxAttempts + 1
      BY <1>1, <2>2, <2>3, <3>1 DEF NextAttempt, Active, Queued
    <3> QED BY <2>3, <2>4, <3>2 DEF FenceInv, AttemptBudget, Active, Queued, Terminal
  <2> QED BY <1>0, <2>5, <2>6, <2>7, <2>8 DEF FenceInv
<1>3. ASSUME NEW t \in Readings, NEW E, ClaimNone(s, t, E)
      PROVE  FenceInv'
  <2>1. t \in Nat BY <1>0, ReadingsNat
  <2>2. heads' = FailExhausted(t) /\ opLease' = SweepOps(t) /\ claim' = claim
    BY <1>3 DEF ClaimNone
  <2>3. \A k \in Jobs :
          \/ heads'[k] = heads[k]
          \/ /\ heads'[k].holder = NoSlot
             /\ heads'[k].state = "failed"
             /\ heads'[k].attempt = heads[k].attempt
    BY <1>0, <2>1, <2>2, FailExhaustedHeads, FailedHeadRow DEF TypeOK
  <2>4. \A g \in Targets : opLease'[g] /= NoOpLease => opLease[g] /= NoOpLease
    BY <1>0, <2>1, <2>2, SweepOpsLeases
  <2>5. OnlyActiveHeadsLeased' BY <2>3 DEF FenceInv, OnlyActiveHeadsLeased
  <2>6. OperationFencesJobs' BY <2>3, <2>4 DEF FenceInv, OperationFencesJobs
  <2>7. SnapshotCurrent' BY <1>1, <2>2, <2>3 DEF FenceInv, SnapshotCurrent
  <2>8. AttemptBudget' BY <2>3 DEF FenceInv, AttemptBudget, Queued, Terminal
  <2> QED BY <1>0, <2>5, <2>6, <2>7, <2>8 DEF FenceInv
<1>4. ASSUME NEW t \in Readings, Renew(s, t)
      PROVE  FenceInv'
  <2> DEFINE j == claim[s].job
  <2>1. claim[s] \in Claims /\ j \in Jobs /\ heads[j] \in Head /\ heads[j].holder = s
    BY <1>0, <1>4, LeasedRowJob DEF Renew
  <2>2. /\ heads' = [heads EXCEPT ![j].expires = t + LeaseTTL, ![j].heartbeat = t]
        /\ claim' = [claim EXCEPT ![s].attempt = heads[j].attempt, ![s].cancel = heads[j].cancel]
        /\ opLease' = opLease
    BY <1>4 DEF Renew
  <2>3. \A k \in Jobs : /\ heads'[k].state = heads[k].state
                        /\ heads'[k].holder = heads[k].holder
                        /\ heads'[k].attempt = heads[k].attempt
                        /\ heads'[k].epoch = heads[k].epoch
    BY <1>0, <2>1, <2>2 DEF TypeOK, Head
  <2>4. claim'[s].job = j /\ claim'[s].epoch = claim[s].epoch /\ claim'[s].attempt = heads[j].attempt
    BY <1>0, <2>1, <2>2 DEF TypeOK, Claims
  <2>5. \A r \in Slots \ {s} : claim'[r] = claim[r]
    BY <1>0, <2>2 DEF TypeOK
  <2>6. OnlyActiveHeadsLeased' BY <2>3 DEF FenceInv, OnlyActiveHeadsLeased
  <2>7. OperationFencesJobs' BY <2>2, <2>3 DEF FenceInv, OperationFencesJobs
  <2>8. SnapshotCurrent' BY <2>3, <2>4, <2>5 DEF FenceInv, SnapshotCurrent
  <2>9. AttemptBudget' BY <2>3 DEF FenceInv, AttemptBudget
  <2> QED BY <1>0, <2>6, <2>7, <2>8, <2>9 DEF FenceInv
<1>5. ASSUME NEW t \in Readings, NEW out \in Outcomes(claim[s]),
             Complete(s, t, out[1], out[2])
      PROVE  FenceInv'
  <2> DEFINE j == claim[s].job
  <2>1. t \in Nat BY <1>0, ReadingsNat
  <2>2. /\ j \in Jobs
        /\ heads[j].holder = s
        /\ heads'[j].holder = NoSlot
        /\ heads'[j].attempt = claim[s].attempt
        /\ heads'[j].state = out[1]
        /\ \A k \in Jobs \ {j} : heads'[k] = heads[k]
        /\ claim' = [claim EXCEPT ![s] = NoClaim]
        /\ opLease' = opLease
    BY <1>0, <1>5, <2>1, CompleteStep DEF TypeOK
  <2>3. claim[s].attempt = heads[j].attempt
    BY <2>2 DEF FenceInv, SnapshotCurrent
  <2>4. OnlyActiveHeadsLeased' BY <2>2 DEF FenceInv, OnlyActiveHeadsLeased
  <2>5. OperationFencesJobs' BY <2>2 DEF FenceInv, OperationFencesJobs
  <2>6. SnapshotCurrent'
    <3>1. claim'[s].job \notin Jobs
      BY <1>0, <2>2, JobsAssumption DEF TypeOK, NoClaim, NoJob
    <3>2. \A r \in Slots \ {s} : claim'[r] = claim[r]
      BY <1>0, <2>2 DEF TypeOK
    <3> QED BY <1>1, <2>2, <3>1, <3>2 DEF FenceInv, SnapshotCurrent
  <2>7. AttemptBudget'
    <3>1. heads[j].attempt \in Nat /\ heads[j].attempt <= MaxAttempts + 1
      BY <1>0, <2>2 DEF FenceInv, AttemptBudget, TypeOK, Head
    <3>2. heads'[j].state \in Terminal \/ (heads'[j].state = "retrying" /\ heads'[j].attempt < MaxAttempts)
      BY <2>2, OutcomesFacts
    <3> QED BY <1>1, <2>2, <2>3, <3>1, <3>2 DEF FenceInv, AttemptBudget, Terminal, Queued
  <2> QED BY <1>0, <2>4, <2>5, <2>6, <2>7 DEF FenceInv
<1>6. ASSUME Abandon(s) PROVE FenceInv'
  <2>1. heads' = heads /\ opLease' = opLease /\ claim' = [claim EXCEPT ![s] = NoClaim]
    BY <1>6 DEF Abandon
  <2>2. claim'[s].job \notin Jobs /\ \A r \in Slots \ {s} : claim'[r] = claim[r]
    BY <1>0, <2>1, JobsAssumption DEF TypeOK, NoClaim, NoJob
  <2>3. SnapshotCurrent' BY <2>1, <2>2 DEF FenceInv, SnapshotCurrent
  <2> QED BY <1>0, <2>1, <2>3
          DEF FenceInv, OnlyActiveHeadsLeased, OperationFencesJobs, AttemptBudget
<1> QED BY <1>2, <1>3, <1>4, <1>5, <1>6 DEF WorkerCall

(* The calls of direct operations preserve the inductive invariant.        *)
LEMMA OpStepFence ==
  ASSUME FenceInv, NEW o \in Ops, OpStep(o)
  PROVE  FenceInv'
<1>0. TypeOK /\ TypeOK' /\ clock \in Nat
  BY OpStepType DEF FenceInv, TypeOK
<1>1. NoSlot \notin Slots /\ NoOp \notin Ops
  BY SlotAssumption
<1>2. ASSUME NEW g \in Targets, NEW t \in Readings, AcquireTargetOperation(o, g, t)
      PROVE  FenceInv'
  <2>1. t \in Nat BY <1>0, ReadingsNat
  <2>2. /\ \A k \in Jobs : TargetOf[k] = g => ~ Leased(heads[k], t)
        /\ \A k \in Jobs :
             heads'[k] = IF TargetOf[k] = g /\ heads[k].state \in Active /\ heads[k].expires <= t
                         THEN FencedHead(heads[k]) ELSE heads[k]
        /\ opLease' = [SweepOps(t) EXCEPT ![g] = [holder |-> o, expires |-> t + LeaseTTL]]
        /\ claim' = claim
    BY <1>2 DEF AcquireTargetOperation
  <2>3. \A k \in Jobs :
          \/ heads'[k] = heads[k]
          \/ /\ heads'[k].holder = NoSlot
             /\ heads'[k].state = heads[k].state
             /\ heads'[k].attempt = heads[k].attempt
    BY <1>0, <2>2, FencedHeadRow DEF TypeOK
  <2>4. ASSUME NEW k \in Jobs, TargetOf[k] = g
        PROVE  heads'[k].holder = NoSlot
    <3>1. CASE heads[k].state \in Active
      <4>1. heads[k].expires <= t
        BY <1>0, <2>1, <2>2, <2>4, <3>1 DEF Leased, TypeOK, Head, Times, Null
      <4> QED BY <1>0, <2>2, <2>4, <3>1, <4>1, FencedHeadRow DEF TypeOK
    <3>2. CASE heads[k].state \notin Active
      BY <2>2, <3>2 DEF FenceInv, OnlyActiveHeadsLeased
    <3> QED BY <3>1, <3>2
  <2>5. \A h \in Targets \ {g} : opLease'[h] /= NoOpLease => opLease[h] /= NoOpLease
    BY <1>0, <2>1, <2>2, SweepOpsLeases
  <2>6. OnlyActiveHeadsLeased' BY <2>3 DEF FenceInv, OnlyActiveHeadsLeased
  <2>7. OperationFencesJobs'
    BY <2>3, <2>4, <2>5 DEF FenceInv, OperationFencesJobs
  <2>8. SnapshotCurrent' BY <1>1, <2>2, <2>3 DEF FenceInv, SnapshotCurrent
  <2>9. AttemptBudget' BY <2>3 DEF FenceInv, AttemptBudget
  <2> QED BY <1>0, <2>6, <2>7, <2>8, <2>9 DEF FenceInv
<1>3. ASSUME heads' = heads, claim' = claim,
             \A g \in Targets : opLease'[g] /= NoOpLease => opLease[g] /= NoOpLease
      PROVE  FenceInv'
  BY <1>0, <1>3 DEF FenceInv, OnlyActiveHeadsLeased, OperationFencesJobs,
                    SnapshotCurrent, AttemptBudget
<1>4. ASSUME NEW g \in Targets, NEW t \in Readings, TargetOperationBusy(o, g, t)
      PROVE  FenceInv'
  BY <1>0, <1>3, <1>4, ReadingsNat, SweepOpsLeases DEF TargetOperationBusy
<1>5. ASSUME NEW t \in Readings, RenewTargetOperation(o, t)
      PROVE  FenceInv'
  <2>1. opLease[op[o]] /= NoOpLease
    BY <1>1, <1>5 DEF RenewTargetOperation, NoOpLease
  <2>2. \A g \in Targets : opLease'[g] /= NoOpLease => opLease[g] /= NoOpLease
    BY <1>0, <1>5, <2>1 DEF RenewTargetOperation, TypeOK
  <2> QED BY <1>3, <1>5, <2>2 DEF RenewTargetOperation
<1>6. ASSUME ReleaseTargetOperation(o) PROVE FenceInv'
  <2>1. \A g \in Targets : opLease'[g] /= NoOpLease => opLease[g] /= NoOpLease
    BY <1>0, <1>6 DEF ReleaseTargetOperation, TypeOK
  <2> QED BY <1>3, <1>6, <2>1 DEF ReleaseTargetOperation
<1>7. ASSUME CrashTargetOperation(o) PROVE FenceInv'
  BY <1>3, <1>7 DEF CrashTargetOperation
<1> QED BY <1>2, <1>4, <1>5, <1>6, <1>7 DEF OpStep

(* Every step preserves the inductive invariant.                           *)
LEMMA FenceStep == FenceInv /\ StoreStep => FenceInv'
<1> SUFFICES ASSUME FenceInv, StoreStep PROVE FenceInv'
  OBVIOUS
<1>1. ASSUME heads' = heads, claim' = claim, opLease' = opLease, TypeOK'
      PROVE  FenceInv'
  BY <1>1 DEF FenceInv, OnlyActiveHeadsLeased, OperationFencesJobs,
              SnapshotCurrent, AttemptBudget
<1>2. CASE Tick
  <2>1. TypeOK' BY <1>2 DEF FenceInv, Tick, TypeOK
  <2> QED BY <1>1, <1>2, <2>1 DEF Tick
<1>3. CASE UNCHANGED vars
  <2>1. TypeOK' BY <1>3 DEF FenceInv, vars, TypeOK
  <2> QED BY <1>1, <1>3, <2>1 DEF vars
<1>4. CASE Forget
  <2>1. TypeOK' BY <1>4, TypeStep DEF FenceInv, StoreStep
  <2>2. \A s \in Slots : claim'[s] = claim[s] \/ claim'[s].job \notin Jobs
    BY <1>4, JobsAssumption DEF Forget, NoClaim, NoJob
  <2> QED BY <1>4, <2>1, <2>2
          DEF Forget, FenceInv, OnlyActiveHeadsLeased, OperationFencesJobs, SnapshotCurrent,
              AttemptBudget
<1> QED BY <1>2, <1>3, <1>4, ApiStepFence, WorkerStepFence, OpStepFence DEF StoreStep

(* The inductive invariant of the repository.                              *)
THEOREM Fencing == Spec => []FenceInv
  BY FenceInit, FenceStep, NextIsStoreStep, PTL DEF Spec

(* A direct operation on a target excludes every job capability on it,     *)
(* whatever clock readings the workers present.                            *)
THEOREM OperationExclusion == Spec => []OperationFencesJobs
<1>1. FenceInv => OperationFencesJobs BY DEF FenceInv
<1> QED BY <1>1, Fencing, PTL

(* complete never writes back a snapshot older than the row it replaces.   *)
THEOREM SnapshotsCurrent == Spec => []SnapshotCurrent
<1>1. FenceInv => SnapshotCurrent BY DEF FenceInv
<1> QED BY <1>1, Fencing, PTL

(* No job is executed more often than its budget allows.                   *)
THEOREM AttemptsBounded == Spec => []AttemptBudget
<1>1. FenceInv => AttemptBudget BY DEF FenceInv
<1> QED BY <1>1, Fencing, PTL

-----------------------------------------------------------------------------
(* Valid leases, when callers read the clock as they commit (ClockLag = 0). *)

LeasedJobs == {k \in Jobs : Leased(heads[k], clock)}

(* A row whose lease columns are empty is not leased.                      *)
LEMMA NullNotLeased ==
  ASSUME NEW h, h.expires = Null, NEW t \in Nat PROVE ~ Leased(h, t)
  BY DEF Leased, Null

(* No step but a claim adds a valid lease; a claim adds one, on a target   *)
(* without any and below the cap.                                          *)
LEMMA LeaseStep ==
  ASSUME ClockLag = 0, FenceInv, StoreStep
  PROVE  \/ LeasedJobs' \subseteq LeasedJobs
         \/ \E j \in Jobs :
              /\ LeasedJobs' \subseteq LeasedJobs \cup {j}
              /\ \A k \in Jobs \ {j} : TargetOf[k] = TargetOf[j] => k \notin LeasedJobs'
              /\ Cardinality(LeasedJobs' \ {j}) < MaxRunning
<1>0. TypeOK /\ clock \in Nat BY DEF FenceInv, TypeOK
<1>1. \A t \in Readings : t = clock
  BY <1>0 DEF Readings
<1>2. ASSUME clock' = clock,
             \A k \in Jobs : \/ heads'[k] = heads[k]
                             \/ heads'[k].expires = Null
      PROVE  LeasedJobs' \subseteq LeasedJobs
  BY <1>0, <1>2, NullNotLeased DEF LeasedJobs, Leased, Null
<1>3. CASE ApiStep
  <2>1. ASSUME NEW j \in Jobs, NEW row \in Head, Insert(j, row), row.expires = Null,
               clock' = clock
        PROVE  LeasedJobs' \subseteq LeasedJobs
    BY <1>2, <2>1, InsertHeads, EvictedHeadRow
  <2>2. ASSUME NEW j \in Jobs, NEW t \in Readings, Create(j, t)
        PROVE  LeasedJobs' \subseteq LeasedJobs
    BY <1>0, <2>1, <2>2, ReadingsNat, NewHeadRow DEF Create
  <2>3. ASSUME NEW j \in LegacyJobs, NEW st \in Queued \cup Active \cup Terminal,
               NEW a \in 0 .. MaxAttempts, ImportLegacy(j, st, a)
        PROVE  LeasedJobs' \subseteq LeasedJobs
    BY <2>1, <2>3, LegacyAssumption, LegacyHeadRow DEF ImportLegacy
  <2>4. ASSUME NEW j \in Jobs, RequestCancel(j)
        PROVE  LeasedJobs' \subseteq LeasedJobs
    <3>1. /\ heads' = [heads EXCEPT ![j] = CancelledHead(heads[j])]
          /\ heads[j].state \in Queued \cup {"running"}
          /\ clock' = clock
      BY <2>4 DEF RequestCancel
    <3>2. /\ heads[j].state \in Queued => heads'[j].state = "cancelled"
          /\ heads'[j].expires = heads[j].expires
      BY <1>0, <3>1, CancelledHeadRow DEF TypeOK
    <3>3. \A k \in Jobs \ {j} : heads'[k] = heads[k]
      BY <1>0, <3>1 DEF TypeOK
    <3> QED BY <3>1, <3>2, <3>3 DEF LeasedJobs, Leased, Active, Queued
  <2>5. ASSUME NEW j \in Jobs, NEW t \in Readings, ManualRetry(j, t)
        PROVE  LeasedJobs' \subseteq LeasedJobs
    BY <1>0, <1>2, <2>5, ReadingsNat, RetriedHeadRow DEF ManualRetry, TypeOK
  <2>6. ASSUME NEW j \in Jobs, NEW d \in {"open", "settled"}, UpdateDerivedResult(j, d)
        PROVE  LeasedJobs' \subseteq LeasedJobs
    <3>1. /\ heads' = [heads EXCEPT ![j].derived = d]
          /\ clock' = clock
      BY <2>6 DEF UpdateDerivedResult
    <3>2. \A k \in Jobs : heads'[k].state = heads[k].state /\ heads'[k].expires = heads[k].expires
      BY <1>0, <3>1 DEF TypeOK, Head
    <3> QED BY <3>1, <3>2 DEF LeasedJobs, Leased
  <2> QED BY <1>3, <2>2, <2>3, <2>4, <2>5, <2>6 DEF ApiStep
<1>4. ASSUME NEW s \in Slots, WorkerCall(s)
      PROVE  \/ LeasedJobs' \subseteq LeasedJobs
             \/ \E j \in Jobs :
                  /\ LeasedJobs' \subseteq LeasedJobs \cup {j}
                  /\ \A k \in Jobs \ {j} : TargetOf[k] = TargetOf[j] => k \notin LeasedJobs'
                  /\ Cardinality(LeasedJobs' \ {j}) < MaxRunning
  <2>1. ASSUME NEW j \in Jobs, NEW t \in Readings, NEW E, ClaimNext(s, j, t, E)
        PROVE  /\ LeasedJobs' \subseteq LeasedJobs \cup {j}
               /\ \A k \in Jobs \ {j} : TargetOf[k] = TargetOf[j] => k \notin LeasedJobs'
               /\ Cardinality(LeasedJobs' \ {j}) < MaxRunning
    <3> DEFINE hs == FailExhausted(clock)
    <3>1. t = clock BY <1>1
    <3>2. /\ hs \in [Jobs -> Head]
          /\ \A k \in Jobs : hs[k] = heads[k] \/ hs[k] = FailedHead(heads[k])
      BY <1>0, FailExhaustedHeads
    <3>3. /\ clock' = clock
          /\ RunningCount(hs, clock) < MaxRunning
          /\ Claimable(hs, SweepOps(clock), j, clock)
          /\ heads' = [hs EXCEPT ![j] = ClaimedHead(hs[j], s, clock)]
      BY <2>1, <3>1 DEF ClaimNext, Candidates
    <3> HIDE DEF hs
    <3>4. \A k \in Jobs \ {j} : heads'[k] = hs[k]
      BY <3>2, <3>3
    <3>5. \A k \in Jobs : hs[k] = heads[k] \/ hs[k].expires = Null
      BY <1>0, <3>2, FailedHeadRow DEF TypeOK
    <3>6. LeasedJobs' \subseteq LeasedJobs \cup {j}
      BY <1>0, <3>3, <3>4, <3>5, NullNotLeased DEF LeasedJobs
    <3>7. \A k \in Jobs \ {j} : TargetOf[k] = TargetOf[j] => k \notin LeasedJobs'
      BY <3>3, <3>4 DEF LeasedJobs, Claimable
    <3>8. ~ Leased(hs[j], clock)
      BY <1>0, <3>2, <3>3 DEF Claimable, Leased, Head, Times, Null, Queued, Active
    <3>9. LeasedJobs' \ {j} = {k \in Jobs : Leased(hs[k], clock)}
      BY <3>3, <3>4, <3>8 DEF LeasedJobs
    <3> QED BY <3>3, <3>6, <3>7, <3>9 DEF RunningCount
  <2>2. ASSUME NEW t \in Readings, NEW E, ClaimNone(s, t, E)
        PROVE  LeasedJobs' \subseteq LeasedJobs
    <3>1. \A k \in Jobs : heads'[k] = heads[k] \/ heads'[k] = FailedHead(heads[k])
      BY <1>0, <2>2, ReadingsNat, FailExhaustedHeads DEF ClaimNone
    <3> QED BY <1>0, <1>2, <2>2, <3>1, FailedHeadRow DEF ClaimNone, TypeOK
  <2>3. ASSUME NEW t \in Readings, Renew(s, t)
        PROVE  LeasedJobs' \subseteq LeasedJobs
    <3> DEFINE j == claim[s].job
    <3>1. /\ j \in Jobs /\ heads[j] \in Head
          /\ heads[j].state \in Active /\ heads[j].expires > clock
      BY <1>0, <1>1, <2>3, LeasedRowJob DEF Renew
    <3>2. j \in LeasedJobs BY <3>1 DEF LeasedJobs, Leased
    <3>3. heads' = [heads EXCEPT ![j].expires = t + LeaseTTL, ![j].heartbeat = t]
          /\ clock' = clock
      BY <2>3 DEF Renew
    <3>4. \A k \in Jobs \ {j} : heads'[k] = heads[k]
      BY <1>0, <3>1, <3>3 DEF TypeOK
    <3> QED BY <3>2, <3>3, <3>4 DEF LeasedJobs
  <2>4. ASSUME NEW t \in Readings, NEW out \in Outcomes(claim[s]),
               Complete(s, t, out[1], out[2])
        PROVE  LeasedJobs' \subseteq LeasedJobs
    <3>1. t \in Nat BY <1>0, ReadingsNat
    <3>2. /\ heads'[claim[s].job].expires = Null
          /\ \A k \in Jobs \ {claim[s].job} : heads'[k] = heads[k]
          /\ clock' = clock
      BY <1>0, <2>4, <3>1, CompleteStep DEF TypeOK
    <3> QED BY <1>2, <3>2
  <2>5. ASSUME Abandon(s) PROVE LeasedJobs' \subseteq LeasedJobs
    BY <1>2, <2>5 DEF Abandon
  <2> QED BY <1>4, <2>1, <2>2, <2>3, <2>4, <2>5 DEF WorkerCall
<1>5. ASSUME NEW o \in Ops, OpStep(o)
      PROVE  LeasedJobs' \subseteq LeasedJobs
  <2>1. ASSUME NEW g \in Targets, NEW t \in Readings, AcquireTargetOperation(o, g, t)
        PROVE  LeasedJobs' \subseteq LeasedJobs
    <3>1. \A k \in Jobs : heads'[k] = heads[k] \/ heads'[k] = FencedHead(heads[k])
      BY <2>1 DEF AcquireTargetOperation
    <3> QED BY <1>0, <1>2, <2>1, <3>1, FencedHeadRow DEF AcquireTargetOperation, TypeOK
  <2>2. CASE heads' = heads /\ clock' = clock
    BY <1>2, <2>2
  <2> QED BY <1>5, <2>1, <2>2
          DEF OpStep, TargetOperationBusy, RenewTargetOperation, ReleaseTargetOperation,
              CrashTargetOperation
<1>6. CASE Tick
  <2>1. heads' = heads /\ clock' = clock + 1 BY <1>6 DEF Tick
  <2>2. \A k \in Jobs : heads[k].expires \in Int
    BY <1>0 DEF TypeOK, Head, Times, Null
  <2> QED BY <1>0, <2>1, <2>2 DEF LeasedJobs, Leased
<1>7. CASE UNCHANGED vars
  BY <1>7 DEF vars, LeasedJobs
<1>8. CASE Forget BY <1>2, <1>8 DEF Forget
<1> QED BY <1>3, <1>4, <1>5, <1>6, <1>7, <1>8 DEF StoreStep

(* With fresh clock readings, the work on a target is serialised.          *)
THEOREM Serialization == ClockLag = 0 /\ Spec => []TargetSerialized
<1> SUFFICES ASSUME ClockLag = 0 PROVE Spec => []TargetSerialized
  OBVIOUS
<1>1. Init => TargetSerialized
  BY DEF Init, TargetSerialized, EmptyHead, Leased, Active
<1>2. FenceInv /\ TargetSerialized /\ [Next]_vars => TargetSerialized'
  <2> SUFFICES ASSUME FenceInv, TargetSerialized, [Next]_vars,
                      NEW j \in Jobs, NEW k \in Jobs, j /= k, TargetOf[j] = TargetOf[k],
                      j \in LeasedJobs', k \in LeasedJobs'
               PROVE  FALSE
    BY DEF TargetSerialized, LeasedJobs
  <2>1. ~ (j \in LeasedJobs /\ k \in LeasedJobs)
    BY DEF TargetSerialized, LeasedJobs
  <2> QED BY <2>1, LeaseStep, NextIsStoreStep
<1> QED BY <1>1, <1>2, Fencing, PTL DEF Spec

(* With fresh clock readings, at most max_running leases are valid.        *)
THEOREM Capacity == ClockLag = 0 /\ Spec => []RunningCapRespected
<1> SUFFICES ASSUME ClockLag = 0 PROVE Spec => []RunningCapRespected
  OBVIOUS
<1>1. Init => RunningCapRespected
  <2> SUFFICES ASSUME Init PROVE RunningCapRespected OBVIOUS
  <2>1. {j \in Jobs : Leased(heads[j], clock)} = {}
    BY DEF Init, EmptyHead, Leased, Active
  <2> QED BY <2>1, FS_EmptySet, BoundAssumption DEF RunningCapRespected, RunningCount
<1>2. RunningCapRespected <=> Cardinality(LeasedJobs) <= MaxRunning
  BY DEF RunningCapRespected, RunningCount, LeasedJobs
<1>3. FenceInv /\ RunningCapRespected /\ [Next]_vars => RunningCapRespected'
  <2> SUFFICES ASSUME FenceInv, RunningCapRespected, [Next]_vars
               PROVE  Cardinality(LeasedJobs') <= MaxRunning
    BY DEF RunningCapRespected, RunningCount, LeasedJobs
  <2>1. IsFiniteSet(LeasedJobs) /\ IsFiniteSet(LeasedJobs')
    BY JobsAssumption, FS_Subset DEF LeasedJobs
  <2>2. CASE LeasedJobs' \subseteq LeasedJobs
    BY <1>2, <2>1, <2>2, FS_Subset, FS_CardinalityType, BoundAssumption
  <2>3. ASSUME NEW j \in Jobs, Cardinality(LeasedJobs' \ {j}) < MaxRunning
        PROVE  Cardinality(LeasedJobs') <= MaxRunning
    <3>1. IsFiniteSet(LeasedJobs' \ {j}) BY <2>1, FS_Subset
    <3>2. CASE j \in LeasedJobs'
      <4>1. Cardinality(LeasedJobs' \ {j}) = Cardinality(LeasedJobs') - 1
        BY <2>1, <3>2, FS_RemoveElement
      <4> QED BY <2>1, <2>3, <3>1, <4>1, FS_CardinalityType, BoundAssumption
    <3>3. CASE j \notin LeasedJobs'
      <4>1. LeasedJobs' \ {j} = LeasedJobs' BY <3>3
      <4>2. Cardinality(LeasedJobs') < MaxRunning BY <2>3, <4>1
      <4>3. Cardinality(LeasedJobs') \in Nat BY <2>1, FS_CardinalityType
      <4> QED BY <4>2, <4>3, BoundAssumption
    <3> QED BY <3>2, <3>3
  <2> QED BY <2>2, <2>3, LeaseStep, NextIsStoreStep
<1> QED BY <1>1, <1>3, Fencing, PTL DEF Spec

-----------------------------------------------------------------------------
(* Action properties, for every ClockLag.                                  *)

(* What one step does to the lifecycle of one job.                         *)
LifecycleStep(k) ==
  \/ heads'[k].state = heads[k].state /\ heads'[k].derived = heads[k].derived
  \/ heads[k].state \in Missing
  \/ heads[k].state \in Terminal /\ heads'[k].state = "evicted"
  \/ heads[k].state \in Queued /\ heads'[k].state \in {"failed", "cancelled", "running"}
  \/ heads[k].state = "running" /\ Exists(heads'[k])
  \/ heads[k].state = "cancelling" /\ heads'[k].state \in {"cancelled", "failed"}
  \/ heads[k].state = "cancelling" /\ heads'[k].state = "succeeded" /\ k \notin Guards
  \/ heads[k].state \in {"failed", "cancelled"} /\ heads'[k].state = "pending"
  \/ /\ heads[k].state = "succeeded" /\ heads[k].derived = "open"
     /\ heads'[k].state = "succeeded"

(* Every step of the repository moves a row along the life cycle of a job. *)
LEMMA LifecycleSteps ==
  ASSUME FenceInv, StoreStep
  PROVE  \A k \in Jobs : LifecycleStep(k)
<1>0. TypeOK /\ TypeOK' /\ clock \in Nat
  BY FenceStep DEF FenceInv, TypeOK
<1> SUFFICES ASSUME NEW k \in Jobs PROVE LifecycleStep(k)
  OBVIOUS
<1>1. CASE heads'[k] = heads[k] BY <1>1 DEF LifecycleStep
<1>2. CASE heads[k].state \in Terminal /\ heads'[k] = EvictedHead
  BY <1>2, EvictedHeadRow DEF LifecycleStep
<1>3. CASE heads[k].state \in Missing BY <1>3 DEF LifecycleStep
<1>4. CASE heads[k].state \in Queued /\ heads'[k] = FailedHead(heads[k])
  BY <1>0, <1>4, FailedHeadRow DEF LifecycleStep, TypeOK
<1>5. CASE ApiStep
  <2>1. ASSUME NEW j \in Jobs, NEW t \in Readings, Create(j, t)
        PROVE  LifecycleStep(k)
    BY <1>1, <1>2, <1>3, <2>1, InsertHeads DEF Create, Missing
  <2>2. ASSUME NEW j \in LegacyJobs, NEW st \in Queued \cup Active \cup Terminal,
               NEW a \in 0 .. MaxAttempts, ImportLegacy(j, st, a)
        PROVE  LifecycleStep(k)
    BY <1>1, <1>2, <1>3, <2>2, InsertHeads, LegacyAssumption DEF ImportLegacy, Exists
  <2>3. ASSUME NEW j \in Jobs, RequestCancel(j)
        PROVE  LifecycleStep(k)
    <3>1. CASE k /= j BY <1>0, <1>1, <2>3, <3>1 DEF RequestCancel, TypeOK
    <3>2. CASE k = j
      <4>1. /\ heads'[j] = CancelledHead(heads[j])
            /\ heads[j].state \in Queued \cup {"running"}
        BY <1>0, <2>3 DEF RequestCancel, TypeOK
      <4>2. heads[j] \in Head BY <1>0 DEF TypeOK
      <4> QED BY <3>2, <4>1, <4>2, CancelledHeadRow
              DEF LifecycleStep, Queued, Exists, Missing
    <3> QED BY <3>1, <3>2
  <2>4. ASSUME NEW j \in Jobs, NEW t \in Readings, ManualRetry(j, t)
        PROVE  LifecycleStep(k)
    <3>1. t \in Nat BY <1>0, ReadingsNat
    <3> QED BY <1>0, <1>1, <2>4, <3>1, RetriedHeadRow DEF ManualRetry, TypeOK, LifecycleStep
  <2>5. ASSUME NEW j \in Jobs, NEW d \in {"open", "settled"}, UpdateDerivedResult(j, d)
        PROVE  LifecycleStep(k)
    BY <1>0, <1>1, <2>5 DEF UpdateDerivedResult, TypeOK, Head, LifecycleStep
  <2> QED BY <1>5, <2>1, <2>2, <2>3, <2>4, <2>5 DEF ApiStep
<1>6. ASSUME NEW s \in Slots, WorkerCall(s)
      PROVE  LifecycleStep(k)
  <2>1. ASSUME NEW j \in Jobs, NEW t \in Readings, NEW E, ClaimNext(s, j, t, E)
        PROVE  LifecycleStep(k)
    <3>1. t \in Nat BY <1>0, ReadingsNat
    <3>2. /\ heads[j].state \in Queued \cup Active
          /\ heads'[j] = ClaimedHead(heads[j], s, t)
          /\ \A i \in Jobs \ {j} : \/ heads'[i] = heads[i]
                                   \/ heads'[i] = FailedHead(heads[i]) /\ heads[i].state \in Queued
      BY <1>0, <2>1, <3>1, ClaimNextStep
    <3>3. CASE k = j
      <4>1. /\ heads'[j].state = IF heads[j].state = "cancelling" THEN "cancelling" ELSE "running"
            /\ heads'[j].derived = heads[j].derived
        BY <1>0, <3>2 DEF ClaimedHead, TypeOK, Head
      <4> QED BY <3>2, <3>3, <4>1 DEF LifecycleStep, Active, Queued
    <3> QED BY <1>1, <1>4, <3>2, <3>3
  <2>2. ASSUME NEW t \in Readings, NEW E, ClaimNone(s, t, E)
        PROVE  LifecycleStep(k)
    <3>1. t \in Nat BY <1>0, ReadingsNat
    <3> QED BY <1>0, <1>1, <1>4, <2>2, <3>1, FailExhaustedHeads DEF ClaimNone
  <2>3. ASSUME NEW t \in Readings, Renew(s, t)
        PROVE  LifecycleStep(k)
    <3>0. /\ heads' = [heads EXCEPT ![claim[s].job].expires = t + LeaseTTL,
                                    ![claim[s].job].heartbeat = t]
          /\ k \in DOMAIN heads /\ heads[k] \in Head
      BY <1>0, <2>3 DEF Renew, TypeOK
    <3>1. heads'[k].state = heads[k].state /\ heads'[k].derived = heads[k].derived
      <4>1. CASE k = claim[s].job BY <3>0, <4>1 DEF Head
      <4>2. CASE k # claim[s].job BY <3>0, <4>2
      <4> QED BY <4>1, <4>2
    <3> QED BY <3>1 DEF LifecycleStep
  <2>4. ASSUME NEW t \in Readings, NEW out \in Outcomes(claim[s]),
               Complete(s, t, out[1], out[2])
        PROVE  LifecycleStep(k)
    <3> DEFINE j == claim[s].job
    <3>1. t \in Nat BY <1>0, ReadingsNat
    <3>2. /\ j \in Jobs
          /\ heads[j].state \in Active
          /\ heads'[j].state = out[1]
          /\ \A i \in Jobs \ {j} : heads'[i] = heads[i]
      BY <1>0, <2>4, <3>1, CompleteStep DEF TypeOK
    <3>3. Completable(j, out[1]) BY <2>4 DEF Complete
    <3>4. out[1] \in Terminal \cup {"retrying"} BY OutcomesFacts
    <3>5. CASE k = j
      BY <3>2, <3>3, <3>4, <3>5
      DEF LifecycleStep, Completable, Active, Terminal, Exists, Missing
    <3> QED BY <1>1, <3>2, <3>5
  <2>5. ASSUME Abandon(s) PROVE LifecycleStep(k)
    BY <1>1, <2>5 DEF Abandon
  <2> QED BY <1>6, <2>1, <2>2, <2>3, <2>4, <2>5 DEF WorkerCall
<1>7. ASSUME NEW o \in Ops, OpStep(o)
      PROVE  LifecycleStep(k)
  <2>1. ASSUME NEW g \in Targets, NEW t \in Readings, AcquireTargetOperation(o, g, t)
        PROVE  LifecycleStep(k)
    <3>1. heads'[k] = heads[k] \/ heads'[k] = FencedHead(heads[k])
      BY <2>1 DEF AcquireTargetOperation
    <3>2. /\ FencedHead(heads[k]).state = heads[k].state
          /\ FencedHead(heads[k]).derived = heads[k].derived
      BY <1>0, ClearLeaseRow DEF FencedHead, TypeOK, Head
    <3> QED BY <3>1, <3>2 DEF LifecycleStep
  <2>2. CASE heads' = heads BY <1>1, <2>2
  <2> QED BY <1>7, <2>1, <2>2
          DEF OpStep, TargetOperationBusy, RenewTargetOperation, ReleaseTargetOperation,
              CrashTargetOperation
<1>8. CASE Tick BY <1>1, <1>8 DEF Tick
<1>9. CASE UNCHANGED vars BY <1>1, <1>9 DEF vars
<1>10. CASE Forget BY <1>1, <1>10 DEF Forget
<1> QED BY <1>5, <1>6, <1>7, <1>8, <1>9, <1>10 DEF StoreStep

(* An accepted cancellation is never undone.                               *)
THEOREM CancellationHolds == Spec => CancellationSticks
<1>1. FenceInv /\ [Next]_vars =>
        [\A j \in Jobs : heads[j].state = "cancelling" =>
           \/ heads'[j].state \in {"cancelling", "cancelled", "failed"}
           \/ heads'[j].state = "succeeded" /\ j \notin Guards]_vars
  <2> SUFFICES ASSUME FenceInv, [Next]_vars, NEW j \in Jobs, heads[j].state = "cancelling"
               PROVE  \/ heads'[j].state \in {"cancelling", "cancelled", "failed"}
                      \/ heads'[j].state = "succeeded" /\ j \notin Guards
    OBVIOUS
  <2>1. LifecycleStep(j) BY LifecycleSteps, NextIsStoreStep
  <2> QED BY <2>1 DEF LifecycleStep, Missing, Terminal, Queued
<1> QED BY <1>1, Fencing, PTL DEF Spec, CancellationSticks

(* A recorded success is never replaced by another outcome.                *)
THEOREM SuccessHolds == Spec => SuccessIsFinal
<1>1. FenceInv /\ [Next]_vars =>
        [\A j \in Jobs : heads[j].state = "succeeded" =>
           \/ heads'[j].state = "evicted"
           \/ /\ heads'[j].state = "succeeded"
              /\ heads[j].derived = "settled" => heads'[j].derived = "settled"]_vars
  <2> SUFFICES ASSUME FenceInv, [Next]_vars, NEW j \in Jobs, heads[j].state = "succeeded"
               PROVE  \/ heads'[j].state = "evicted"
                      \/ /\ heads'[j].state = "succeeded"
                         /\ heads[j].derived = "settled" => heads'[j].derived = "settled"
    OBVIOUS
  <2>1. LifecycleStep(j) BY LifecycleSteps, NextIsStoreStep
  <2> QED BY <2>1 DEF LifecycleStep, Missing, Terminal, Queued
<1> QED BY <1>1, Fencing, PTL DEF Spec, SuccessIsFinal

(* What one step does to the fence of one job: the epoch of a row that     *)
(* stays in the table is never lowered.                                    *)
EpochStep(k) == Exists(heads[k]) /\ Exists(heads'[k]) => heads'[k].epoch >= heads[k].epoch

(* No step of the repository lowers an epoch: claims and fences of direct  *)
(* operations spend one, everything else keeps it.                         *)
LEMMA EpochSteps ==
  ASSUME FenceInv, StoreStep
  PROVE  \A k \in Jobs : EpochStep(k)
<1>0. /\ TypeOK /\ TypeOK' /\ clock \in Nat
      /\ \A k \in Jobs : heads[k] \in Head /\ heads[k].epoch \in Nat
  BY FenceStep DEF FenceInv, TypeOK, Head
<1> SUFFICES ASSUME NEW k \in Jobs PROVE EpochStep(k)
  OBVIOUS
<1>1. CASE heads'[k].epoch = heads[k].epoch BY <1>0, <1>1 DEF EpochStep
<1>2. CASE heads'[k] = EvictedHead
  BY <1>2, EvictedHeadRow DEF EpochStep, Exists, Missing
<1>3. CASE ~ Exists(heads[k]) BY <1>3 DEF EpochStep
<1>4. CASE heads'[k].epoch = heads[k].epoch + 1 BY <1>0, <1>4 DEF EpochStep
<1>5. CASE ApiStep
  <2>1. ASSUME NEW j \in Jobs, NEW t \in Readings, Create(j, t)
        PROVE  EpochStep(k)
    BY <1>1, <1>2, <1>3, <2>1, InsertHeads DEF Create, Exists, Missing
  <2>2. ASSUME NEW j \in LegacyJobs, NEW st \in Queued \cup Active \cup Terminal,
               NEW a \in 0 .. MaxAttempts, ImportLegacy(j, st, a)
        PROVE  EpochStep(k)
    BY <1>1, <1>2, <1>3, <2>2, InsertHeads, LegacyAssumption DEF ImportLegacy
  <2>3. ASSUME NEW j \in Jobs, RequestCancel(j)
        PROVE  EpochStep(k)
    <3>1. heads'[k] = heads[k] \/ heads'[k] = CancelledHead(heads[k])
      BY <1>0, <2>3 DEF RequestCancel, TypeOK
    <3> QED BY <1>0, <1>1, <3>1, CancelledHeadRow
  <2>4. ASSUME NEW j \in Jobs, NEW t \in Readings, ManualRetry(j, t)
        PROVE  EpochStep(k)
    <3>1. t \in Nat BY <1>0, ReadingsNat
    <3>2. heads'[k] = heads[k] \/ heads'[k] = RetriedHead(heads[k], t)
      BY <1>0, <2>4 DEF ManualRetry, TypeOK
    <3> QED BY <1>0, <1>1, <3>1, <3>2, RetriedHeadRow
  <2>5. ASSUME NEW j \in Jobs, NEW d \in {"open", "settled"}, UpdateDerivedResult(j, d)
        PROVE  EpochStep(k)
    <3>1. heads'[k].epoch = heads[k].epoch
      BY <1>0, <2>5 DEF UpdateDerivedResult, TypeOK, Head
    <3> QED BY <1>1, <3>1
  <2> QED BY <1>5, <2>1, <2>2, <2>3, <2>4, <2>5 DEF ApiStep
<1>6. ASSUME NEW s \in Slots, WorkerCall(s)
      PROVE  EpochStep(k)
  <2>1. ASSUME NEW j \in Jobs, NEW t \in Readings, NEW E, ClaimNext(s, j, t, E)
        PROVE  EpochStep(k)
    <3>1. t \in Nat BY <1>0, ReadingsNat
    <3>2. \/ heads'[k] = ClaimedHead(heads[k], s, t)
          \/ heads'[k] = heads[k]
          \/ heads'[k] = FailedHead(heads[k])
      BY <1>0, <2>1, <3>1, ClaimNextStep
    <3> QED BY <1>0, <1>1, <1>4, <3>1, <3>2, ClaimedHeadRow, FailedHeadRow
  <2>2. ASSUME NEW t \in Readings, NEW E, ClaimNone(s, t, E)
        PROVE  EpochStep(k)
    <3>1. t \in Nat BY <1>0, ReadingsNat
    <3>2. heads'[k] = heads[k] \/ heads'[k] = FailedHead(heads[k])
      BY <1>0, <2>2, <3>1, FailExhaustedHeads DEF ClaimNone
    <3> QED BY <1>0, <1>1, <3>2, FailedHeadRow
  <2>3. ASSUME NEW t \in Readings, Renew(s, t)
        PROVE  EpochStep(k)
    <3>1. heads'[k].epoch = heads[k].epoch
      BY <1>0, <2>3 DEF Renew, TypeOK, Head
    <3> QED BY <1>1, <3>1
  <2>4. ASSUME NEW t \in Readings, NEW out \in Outcomes(claim[s]),
               Complete(s, t, out[1], out[2])
        PROVE  EpochStep(k)
    <3>1. t \in Nat BY <1>0, ReadingsNat
    <3>2. heads'[k].epoch = heads[k].epoch
      BY <1>0, <2>4, <3>1, CompleteStep DEF TypeOK
    <3> QED BY <1>1, <3>2
  <2>5. ASSUME Abandon(s) PROVE EpochStep(k)
    BY <1>1, <2>5 DEF Abandon
  <2> QED BY <1>6, <2>1, <2>2, <2>3, <2>4, <2>5 DEF WorkerCall
<1>7. ASSUME NEW o \in Ops, OpStep(o)
      PROVE  EpochStep(k)
  <2>1. ASSUME NEW g \in Targets, NEW t \in Readings, AcquireTargetOperation(o, g, t)
        PROVE  EpochStep(k)
    <3>1. heads'[k] = heads[k] \/ heads'[k] = FencedHead(heads[k])
      BY <2>1 DEF AcquireTargetOperation
    <3> QED BY <1>0, <1>1, <1>4, <3>1, FencedHeadRow
  <2>2. CASE heads' = heads BY <1>1, <2>2
  <2> QED BY <1>7, <2>1, <2>2
          DEF OpStep, TargetOperationBusy, RenewTargetOperation, ReleaseTargetOperation,
              CrashTargetOperation
<1>8. CASE Tick BY <1>1, <1>8 DEF Tick
<1>9. CASE UNCHANGED vars BY <1>1, <1>9 DEF vars
<1>10. CASE Forget BY <1>1, <1>10 DEF Forget
<1> QED BY <1>5, <1>6, <1>7, <1>8, <1>9, <1>10 DEF StoreStep

(* Nothing that is queued or in flight is reclaimed, by retention, capacity *)
(* or an import, and the epoch that fences a late worker never goes back.   *)
THEOREM HeadsAreKept == Spec => HeadsSurvive
<1>1. FenceInv /\ [Next]_vars =>
        [\A j \in Jobs :
           /\ heads[j].state \in Queued \cup Active => Exists(heads'[j])
           /\ Exists(heads[j]) /\ Exists(heads'[j]) => heads'[j].epoch >= heads[j].epoch]_vars
  <2> SUFFICES ASSUME FenceInv, [Next]_vars, NEW j \in Jobs
               PROVE  /\ heads[j].state \in Queued \cup Active => Exists(heads'[j])
                      /\ Exists(heads[j]) /\ Exists(heads'[j]) =>
                           heads'[j].epoch >= heads[j].epoch
    OBVIOUS
  <2>1. LifecycleStep(j) BY LifecycleSteps, NextIsStoreStep
  <2>2. EpochStep(j) BY EpochSteps, NextIsStoreStep
  <2> QED BY <2>1, <2>2
          DEF LifecycleStep, EpochStep, Exists, Missing, Terminal, Queued, Active
<1> QED BY <1>1, Fencing, PTL DEF Spec, HeadsSurvive
=============================================================================
