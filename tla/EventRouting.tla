---------------------------- MODULE EventRouting ----------------------------
(* The routing table of event_consumer.py: who gets the downstream task,   *)
(* and the state its owner is put in.                                      *)

Role == {"explorer", "experiment", "writer", "reviewer"}

DownstreamOwner ==
    [hypothesis_ready_for_experiment |-> "experiment",
     experiment_results_ready        |-> "writer",
     writer_needs_evidence           |-> "experiment",
     review_requested                |-> "reviewer",
     review_requires_ablation        |-> "experiment",
     review_requires_evidence        |-> "experiment",
     review_requires_revision        |-> "writer"]

DownstreamType == DOMAIN DownstreamOwner

DownstreamState(type) ==
    IF type = "writer_needs_evidence" THEN "executing"
    ELSE IF type = "review_requested" THEN "review_pending"
    ELSE "planning"

ControlType == {"agent_blocked", "agent_recovered", "task_retry_requested",
                "task_requeued", "review_approved"}
\* "other" stands for every type the consumer only marks as ignored.
EventType == DownstreamType \cup ControlType \cup {"other"}

\* The completion event of each role; the reviewer's answer chooses one.
CompletionTypes(role) ==
    CASE role = "explorer"   -> {"hypothesis_ready_for_experiment"}
      [] role = "experiment" -> {"experiment_results_ready"}
      [] role = "writer"     -> {"review_requested"}
      [] role = "reviewer"   -> {"review_requires_ablation", "review_requires_evidence",
                                 "review_requires_revision", "review_approved"}

AgentState == {"absent", "idle", "planning", "executing", "blocked",
               "review_pending", "done"}

=============================================================================
