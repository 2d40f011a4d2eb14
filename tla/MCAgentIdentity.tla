--------------------------- MODULE MCAgentIdentity --------------------------
(* Small instances of AgentIdentity for TLC. *)
EXTENDS AgentIdentity, TLC

IssuerSymmetry == Permutations(Issuers)
=============================================================================
