----------------------------- MODULE PackageLog -----------------------------
(* What a project's packages of one type promise: a log of what was frozen, *)
(* in order of version, which only grows.                                   *)
EXTENDS Sequences

CONSTANT Source  \* what a package may be created from: sets of artifacts

VARIABLE log

Init == log = <<>>

Freeze(source) == log' = Append(log, source)

Next == \E source \in Source : Freeze(source)

Spec == Init /\ [][Next]_log
=============================================================================
