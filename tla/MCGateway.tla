----------------------------- MODULE MCGateway -----------------------------
(* Finite instances of the parts of the gateway for TLC.  They share no    *)
(* state: the part that is chosen at first moves, the others do not.       *)
EXTENDS CommandLanes, FollowupQueue, HeartbeatWake, DeliveryQueue, AgentRuns

CONSTANTS s1, s2, m1, m2, m3, m4, t1, t2, k1, d1, d2, Parts

VARIABLE part

\* All runs but the last are of one session.
TwoSessions == [r \in Run |-> IF \E q \in Run : q > r THEN s1 ELSE s2]

\* One message comes from another channel than the others.
TwoChannels == [m \in Message |-> IF m = m2 THEN "b" ELSE "a"]

ThreeSettings == {<<"collect", "summarize">>, <<"followup", "summarize">>, <<"followup", "old">>}

\* Two deliveries and two passes meet while every call of the file system succeeds
\* and no delivery is excused, is sent with an error behind it or fails twice.  What
\* these do shows with one pass, and with one delivery.
Tried == {d \in Delivery : file[d] # NoFile \/ sent[d] + tried[d] > 0}
DeliveriesBounded ==
    \/ faults = 0 /\ excused = {} /\ \A d \in Delivery : late[d] = 0 /\ tried[d] <= 1
    \/ \E p \in Pass : step[p] = "new"
    \/ \E d \in Delivery : Tried \subseteq {d}

OneKey == [d \in Dispatch |-> k1]

MCInit ==
    /\ part \in Parts
    /\ LanesInit /\ FollowupInit /\ WakeInit /\ DeliveryInit /\ AgentInit
    /\ part # "lanes" => width = 1

MCNext ==
    \/ /\ part = "lanes" /\ LanesNext
       /\ UNCHANGED <<part, followupVars, wakeVars, deliveryVars, agentVars>>
    \/ /\ part = "followups" /\ FollowupNext
       /\ UNCHANGED <<part, lanesVars, wakeVars, deliveryVars, agentVars>>
    \/ /\ part = "wakes" /\ WakeNext
       /\ UNCHANGED <<part, lanesVars, followupVars, deliveryVars, agentVars>>
    \/ /\ part = "deliveries" /\ DeliveryNext /\ DeliveriesBounded'
       /\ UNCHANGED <<part, lanesVars, followupVars, wakeVars, agentVars>>
    \/ /\ part = "calls" /\ AgentNext
       /\ UNCHANGED <<part, lanesVars, followupVars, wakeVars, deliveryVars>>

MCSpec == MCInit /\ [][MCNext]_<<part, lanesVars, followupVars, wakeVars, deliveryVars, agentVars>>

FairMCSpec == MCSpec /\ LanesFairness /\ FollowupFairness /\ WakeFairness
=============================================================================
