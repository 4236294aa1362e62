---------------------------- MODULE SessionTurns ----------------------------
(***************************************************************************)
(* What the command lanes promise to the sessions of a gateway.  The runs  *)
(* of a session take turns: one has it, the others stand in line, in the   *)
(* order they were submitted in, and whoever ends passes it on in the same *)
(* step.  A run that has had its turn is not dropped, and what is over     *)
(* stays over.  A restart gives turns anew, beside the runs under way.     *)
(***************************************************************************)
EXTENDS Naturals

CONSTANTS Session, Run, SessionOf

VARIABLES
    stage,      \* per run, "new", "lined", "turn", "ended" or "dropped"
    carried     \* runs that had their turn when a restart gave turns anew

turns == <<stage, carried>>

Init ==
    /\ stage = [r \in Run |-> "new"]
    /\ carried = {}

\* The turn of a session is taken, by a run that was not carried over.
Taken(s) == \E r \in Run : SessionOf[r] = s /\ stage[r] = "turn" /\ r \notin carried

Line(sessions) == {r \in Run : SessionOf[r] \in sessions /\ stage[r] = "lined"}

Heads(line) == {r \in line : \A q \in line : SessionOf[q] = SessionOf[r] => r <= q}

\* A gateway that drains drops what is submitted.
Submit(r) ==
    /\ stage[r] = "new"
    /\ \E next \in {"dropped", IF Taken(SessionOf[r]) THEN "lined" ELSE "turn"} :
          stage' = [stage EXCEPT ![r] = next]
    /\ UNCHANGED carried

\* The turn goes to the head of the line, or, in a gateway that drains, the line
\* is dropped.  A run that was carried over has no turn to pass on.
End(r) ==
    LET line == IF r \in carried THEN {} ELSE Line({SessionOf[r]}) IN
    /\ stage[r] = "turn"
    /\ \/ stage' = [q \in Run |-> IF q = r THEN "ended"
                                  ELSE IF q \in Heads(line) THEN "turn" ELSE stage[q]]
       \/ stage' = [q \in Run |-> IF q = r THEN "ended"
                                  ELSE IF q \in line THEN "dropped" ELSE stage[q]]
    /\ UNCHANGED carried

Clear(s) ==
    /\ stage' = [q \in Run |-> IF q \in Line({s}) THEN "dropped" ELSE stage[q]]
    /\ UNCHANGED carried

Restart ==
    /\ stage' = [q \in Run |-> IF q \in Heads(Line(Session)) THEN "turn" ELSE stage[q]]
    /\ carried' = carried \cup {r \in Run : stage[r] = "turn"}

Next ==
    \/ \E r \in Run : Submit(r) \/ End(r)
    \/ \E s \in Session : Clear(s)
    \/ Restart

Spec == Init /\ [][Next]_turns
=============================================================================
