--------------------------- MODULE MCTaskHandoff ---------------------------
(* Finite instances of TaskHandoff for TLC.                                *)
EXTENDS TaskHandoff, TLC

CONSTANTS w1, w2, o1, t1, t2, e1, e2, e3, e4, p1

\* Two experiment workers compete for the same tasks.
SameRole == w1 :> "experiment" @@ w2 :> "experiment"

\* One worker hands over to the other.
Chain == w1 :> "explorer" @@ w2 :> "experiment"

\* A single experiment worker, beside operators.
OneWorker == w1 :> "experiment"

MCSymmetry == Permutations(Event)
=============================================================================
