---------------------------- MODULE MCPolicySync ----------------------------
(* Small instances of PolicySync for TLC. *)
EXTENDS PolicySync, TLC

MCBranches == <<"master", "release">>
OneBranch == <<"master">>

Both(m, r) == [b \in BranchSet |-> IF b = "master" THEN m ELSE r]

\* A change to master and its revert; release is not concerned.
Reverted == <<Both(1, 0), Both(0, 0)>>

\* Changes one after the other.
Growing == <<Both(1, 1), Both(2, 2)>>

\* Nothing tells two runs apart (not for liveness).
AnyRunner == Permutations(Runners)
=============================================================================
