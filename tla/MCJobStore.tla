---------------------------- MODULE MCJobStore ----------------------------
(* Small instances of JobStore for TLC. *)
EXTENDS JobStore, TLC

\* Jobs 1 and 2 share a target; jobs 3 and 4 have another.
MCTargetOf == [j \in Jobs |-> IF j <= 2 THEN "t1" ELSE "t2"]
MCTargets == {MCTargetOf[j] : j \in Jobs}

\* Jobs 2 and 4 are submitted with the same Idempotency-Key.
MCKeyOf == [j \in Jobs |-> IF j \in {2, 4} THEN "k" ELSE NoKey]

\* Every slot is a process of its own, or all are slots of one process: in
\* both cases the slots are interchangeable.
MCDistinctOwners == [s \in Slots |-> s]
MCSameOwner == [s \in Slots |-> "A"]
SlotSymmetry == Permutations(Slots)
=============================================================================
