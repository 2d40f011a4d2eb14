----------------------------- MODULE MCGuardDeploy -----------------------------
EXTENDS GuardDeploy, TLC
CONSTANTS d1, d2, c1, old, none
MCBuild == [d \in {d1, d2, old} |-> "v1"]
SymmetricDeployers == Permutations({d1, d2})
=============================================================================
