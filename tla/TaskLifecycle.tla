--------------------------- MODULE TaskLifecycle ---------------------------
(* The task statuses and the transitions state_machine.py allows.          *)

TaskStatus == {"todo", "in_progress", "blocked", "retry", "done"}

\* Mutant: blocked tasks can be claimed as well.
ClaimableBlocked == {"todo", "retry", "blocked"}

Claimable  == {"todo", "retry"}
Open       == TaskStatus \ {"done"}

\* Mutant: a finished task may be reported as blocked.
TaskTransitionsFromDone ==
    [s \in TaskStatus |-> CASE s = "todo"        -> {"in_progress", "blocked", "retry"}
                            [] s = "in_progress" -> {"blocked", "retry", "todo", "done"}
                            [] s = "blocked"     -> {"retry", "todo", "in_progress"}
                            [] s = "retry"       -> {"in_progress", "blocked", "todo", "done"}
                            [] s = "done"        -> {"blocked"}]

TaskTransitions ==
    [todo        |-> {"in_progress", "blocked", "retry"},
     in_progress |-> {"blocked", "retry", "todo", "done"},
     blocked     |-> {"retry", "todo", "in_progress"},
     retry       |-> {"in_progress", "blocked", "todo", "done"},
     done        |-> {}]

ValidTransition(current, next) ==
    current \in TaskStatus /\ (next = current \/ next \in TaskTransitions[current])

=============================================================================
