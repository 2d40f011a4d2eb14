---------------------------- MODULE MCScanWorker ----------------------------
(***************************************************************************)
(* Instances of ScanWorker for TLC: the jobs of one target, and one slot   *)
(* in each Form process or two slots in the same process.                  *)
(***************************************************************************)
EXTENDS ScanWorker, TLC

MCTargets == {"t"}
MCTargetOf == [j \in Jobs |-> "t"]
MCKeyOf == [j \in Jobs |-> NoKey]

(* One slot per process.                                                   *)
MCReplicas == [s \in Slots |-> s]

ReplicaSymmetry == Permutations(Slots)
=============================================================================
