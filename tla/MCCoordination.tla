--------------------------- MODULE MCCoordination ---------------------------
(* Finite instances of the worker pool and the review loop for TLC.  They  *)
(* share no state: the part that is chosen at first moves, the other does  *)
(* not.                                                                    *)
EXTENDS WorkerPool, ReviewLoop

CONSTANTS h1, h2, h3, f1, f2, r1, r2, Parts

VARIABLE part

MCInit == part \in Parts /\ PoolInit /\ ReviewInit

MCNext ==
    \/ part = "pool" /\ PoolNext /\ UNCHANGED <<part, reviewVars>>
    \/ part = "review" /\ ReviewNext /\ UNCHANGED <<part, poolVars>>

MCSpec == MCInit /\ [][MCNext]_<<part, poolVars, reviewVars>>

\* The first task waits from the beginning: its runner owes a pass only where the
\* review loop moves.  The pool owes nothing before start().
FairMCSpec ==
    /\ MCSpec /\ PoolFairness
    /\ \A r \in Runner : WF_reviewVars(part = "review" /\ Pass(r))

\* Where the review loop moves, it ends (run_coordinators returns).
ReviewEnds == part = "review" => LoopEnds

\* Where it moves, and nobody posts tasks, it ends as verify_coordinator_pipeline.py
\* expects.
ReviewOutcome == part = "review" => LoopOutcome
=============================================================================
