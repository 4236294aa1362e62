----------------------------- MODULE TaskBoard -----------------------------
(***************************************************************************)
(* What the task and event tables promise to those who only watch them: a  *)
(* task moves along the transitions of state_machine.py; it appears as a   *)
(* seed, or in the same step as its event is delivered, and only once; a   *)
(* delivered event stays delivered.                                        *)
(***************************************************************************)
EXTENDS TaskLifecycle

CONSTANTS SeedTask, Event

TaskId == SeedTask \cup Event

VARIABLES
    status,     \* of every task, "absent" before it is created
    posted,     \* events in the table
    delivered   \* events consumed or ignored

board == <<status, posted, delivered>>

Init ==
    /\ status \in [TaskId -> {"absent", "todo"}]
    /\ \A e \in Event : status[e] = "absent"
    /\ posted = {}
    /\ delivered = {}

Create(t, first) ==
    /\ status[t] = "absent"
    /\ status' = [status EXCEPT ![t] = first]
    /\ UNCHANGED <<posted, delivered>>

Move(t, next) ==
    /\ ValidTransition(status[t], next)
    /\ status' = [status EXCEPT ![t] = next]
    /\ UNCHANGED <<posted, delivered>>

Post(e) ==
    /\ e \notin posted
    /\ posted' = posted \cup {e}
    /\ UNCHANGED <<status, delivered>>

\* Events are delivered together.  Each creates its task or none; together they
\* may move other tasks, but neither finish one nor touch a finished one.
Deliver(batch) ==
    /\ delivered' = delivered \cup batch
    /\ \A t \in TaskId :
          \/ status'[t] = status[t]
          \/ status[t] = "absent" /\ t \in batch /\ status'[t] = "todo"
          \/ status[t] \in Open /\ status'[t] \in Open
    /\ UNCHANGED posted

Next ==
    \/ \E t \in SeedTask, first \in TaskStatus : Create(t, first)
    \/ \E t \in TaskId, next \in TaskStatus : Move(t, next)
    \/ \E e \in Event : Post(e)
    \/ \E batch \in SUBSET posted : Deliver(batch)

Spec == Init /\ [][Next]_board
=============================================================================
