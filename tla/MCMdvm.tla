---- MODULE MCMdvm ----
(* One device and one synchronisation for TLC. *)
EXTENDS MdvmSync
CONSTANTS d1
OneDevice == [f \in Findings |-> d1]
====
