------------------------ MODULE MCExecutionWorkspace ------------------------
(* Finite instances of ExecutionWorkspace for TLC.                         *)
EXTENDS ExecutionWorkspace, TLC

CONSTANTS r1, r2, o1, t1, t2, a1, v1, v2

\* Every task belongs to the same agent.
OneOwner == [t \in Task |-> a1]

MCSymmetry == Permutations(Worktree)
=============================================================================
