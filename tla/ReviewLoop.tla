----------------------------- MODULE ReviewLoop -----------------------------
(***************************************************************************)
(* The research loop the Python coordinators drive: explorer, experiment,  *)
(* writer and reviewer tasks of one project, each made by the event the    *)
(* previous one completes with, until the reviewer approves.  What a       *)
(* handler reads, the latest artifacts and the number of reports, it reads *)
(* before it registers its own artifact, and it does that before it        *)
(* completes its task.                                                     *)
(*                                                                         *)
(* Completion is one action here: TaskHandoff has its transactions,        *)
(* ExecutionWorkspace its hooks.  Every completion names a package or      *)
(* report of its own, so the reuse of open tasks never applies.            *)
(***************************************************************************)
EXTENDS Naturals, Sequences, FiniteSets, SequencesExt, EventRouting

CONSTANTS
    Runner,    \* processes in run_coordinators
    MaxPosts   \* bound: tasks operators post beside the bootstrap task

ASSUME ReviewAssumption == MaxPosts \in Nat

ArtifactType == [explorer |-> "hypotheses", experiment |-> "results_summary",
                 writer   |-> "draft",      reviewer   |-> "review_report"]

\* The artifacts a handler cannot do without.
Inputs == [explorer |-> {},
           experiment |-> {"hypotheses"},
           writer     |-> {"hypotheses", "results_summary"},
           reviewer   |-> {"draft"}]

ReviewSequence == <<"review_requires_ablation", "review_requires_evidence",
                    "review_requires_revision", "review_approved">>

Decision(prior) ==
    ReviewSequence[IF prior < Len(ReviewSequence) THEN prior + 1 ELSE Len(ReviewSequence)]

\* A task depends on no artifact (0), or on a review report, by position.
TaskRow == [owner : Role, status : {"todo", "in_progress", "done", "blocked"}, report : Nat]

\* The file of an artifact lies in the execution workspace of its task.
ArtifactRow == [type : {ArtifactType[r] : r \in Role}, task : Nat, event : EventType]

\* What came of the excerpt of the file a handler quotes.
Excerpt == {"none", "read", "unavailable"}

Step == {"idle", "read", "register", "complete", "settle"}
Call == [step : Step, task : Nat, event : EventType, excerpt : Excerpt]

IdleCall == [step |-> "idle", task |-> 0, event |-> "other", excerpt |-> "none"]

VARIABLES
    task,      \* tasks, in the order they were created
    artifact,  \* artifacts, in the order they were registered
    agent,     \* agent_states
    call,      \* per runner, the pass it is in
    posts      \* history: tasks operators posted

reviewVars == <<task, artifact, agent, call, posts>>

ReviewTypeOK ==
    /\ task \in Seq(TaskRow)
    /\ artifact \in Seq(ArtifactRow)
    /\ agent \in [Role -> AgentState]
    /\ call \in [Runner -> Call]
    /\ posts \in Nat

-----------------------------------------------------------------------------
NewTask(owner, report) == [owner |-> owner, status |-> "todo", report |-> report]

ReviewInit ==
    /\ task = <<NewTask("explorer", 0)>>
    /\ artifact = <<>>
    /\ agent = [a \in Role |-> IF a = "explorer" THEN "planning" ELSE "absent"]
    /\ call = [r \in Runner |-> IdleCall]
    /\ posts = 0

OfType(type) == {a \in DOMAIN artifact : artifact[a].type = type}

\* The pipeline removes a task's workspace when the task is done, before its
\* event is consumed.
Readable(a) == task[artifact[a].task].status # "done"

ExcerptOf(a) == IF Readable(a) THEN "read" ELSE "unavailable"

TaskOf(r) == task[call[r].task]

Goto(r, c) == call' = [call EXCEPT ![r] = c]

-----------------------------------------------------------------------------
\* Mutant: a task waits until its agent is planning.
ClaimTaskPlanned(r) ==
    LET todo == {t \in DOMAIN task : task[t].status = "todo"} IN
    /\ call[r].step = "idle"
    /\ \E t \in todo :
          /\ \A u \in todo : t <= u
          /\ agent[task[t].owner] = "planning"
          /\ task' = [task EXCEPT ![t].status = "in_progress"]
          /\ agent' = [agent EXCEPT ![task[t].owner] = "executing"]
          /\ Goto(r, [IdleCall EXCEPT !.step = "read", !.task = t])
    /\ UNCHANGED <<artifact, posts>>

\* The oldest task that is todo, and with it the state of its agent.
ClaimTask(r) ==
    LET todo == {t \in DOMAIN task : task[t].status = "todo"} IN
    /\ call[r].step = "idle"
    /\ \E t \in todo :
          /\ \A u \in todo : t <= u
          /\ task' = [task EXCEPT ![t].status = "in_progress"]
          /\ agent' = [agent EXCEPT ![task[t].owner] = "executing"]
          /\ Goto(r, [IdleCall EXCEPT !.step = "read", !.task = t])
    /\ UNCHANGED <<artifact, posts>>

\* A handler without its inputs raises: task and agent are blocked.
MissesInputs(r) ==
    /\ call[r].step = "read"
    /\ \E type \in Inputs[TaskOf(r).owner] : OfType(type) = {}
    /\ task' = [task EXCEPT ![call[r].task].status = "blocked"]
    /\ agent' = [agent EXCEPT ![TaskOf(r).owner] = "blocked"]
    /\ Goto(r, IdleCall)
    /\ UNCHANGED <<artifact, posts>>

\* What the handler quotes: the report it answers to, or the latest draft.
Quoted(r) ==
    IF TaskOf(r).owner = "reviewer" THEN {CHOOSE a \in OfType("draft") :
                                              \A b \in OfType("draft") : b <= a}
    ELSE {TaskOf(r).report} \ {0}

\* Mutant: the rounds are counted by drafts.
ReadInputsByDraft(r) ==
    /\ call[r].step = "read"
    /\ \A type \in Inputs[TaskOf(r).owner] : OfType(type) # {}
    /\ \E event \in CompletionTypes(TaskOf(r).owner) :
          /\ TaskOf(r).owner = "reviewer" => event = Decision(Cardinality(OfType("draft")))
          /\ Goto(r, [call[r] EXCEPT !.step = "register", !.event = event,
                        !.excerpt = IF Quoted(r) = {} THEN "none"
                                    ELSE ExcerptOf(CHOOSE a \in Quoted(r) : TRUE)])
    /\ UNCHANGED <<task, artifact, agent, posts>>

ReadInputs(r) ==
    /\ call[r].step = "read"
    /\ \A type \in Inputs[TaskOf(r).owner] : OfType(type) # {}
    /\ \E event \in CompletionTypes(TaskOf(r).owner) :
          /\ TaskOf(r).owner = "reviewer" => event = Decision(Cardinality(OfType("review_report")))
          /\ Goto(r, [call[r] EXCEPT !.step = "register", !.event = event,
                        !.excerpt = IF Quoted(r) = {} THEN "none"
                                    ELSE ExcerptOf(CHOOSE a \in Quoted(r) : TRUE)])
    /\ UNCHANGED <<task, artifact, agent, posts>>

RegisterOutput(r) ==
    /\ call[r].step = "register"
    /\ artifact' = Append(artifact, [type |-> ArtifactType[TaskOf(r).owner],
                                     task |-> call[r].task, event |-> call[r].event])
    /\ Goto(r, [call[r] EXCEPT !.step = "complete"])
    /\ UNCHANGED <<task, agent, posts>>

\* The artifact a pass has registered.
OutputOf(r) == CHOOSE a \in DOMAIN artifact : artifact[a].task = call[r].task

\* Mutant: the agent of an approved project is not told.
CompleteTaskQuietly(r) ==
    LET event  == call[r].event
        report == IF TaskOf(r).owner = "reviewer" THEN OutputOf(r) ELSE 0
        done   == [task EXCEPT ![call[r].task].status = "done"]
    IN  /\ call[r].step = "complete"
        /\ task' = IF event \in DownstreamType
                   THEN Append(done, NewTask(DownstreamOwner[event], report)) ELSE done
        /\ agent' = IF event \in DownstreamType
                    THEN [agent EXCEPT ![DownstreamOwner[event]] = DownstreamState(event)]
                    ELSE agent
        /\ Goto(r, [call[r] EXCEPT !.step = "settle"])
        /\ UNCHANGED <<artifact, posts>>

\* The task is done, its workspace cleaned up, its event emitted and consumed:
\* there is a task for the next role, or the writer is done.
CompleteTask(r) ==
    LET event  == call[r].event
        report == IF TaskOf(r).owner = "reviewer" THEN OutputOf(r) ELSE 0
        done   == [task EXCEPT ![call[r].task].status = "done"]
    IN  /\ call[r].step = "complete"
        /\ task' = IF event \in DownstreamType
                   THEN Append(done, NewTask(DownstreamOwner[event], report)) ELSE done
        /\ agent' = IF event \in DownstreamType
                    THEN [agent EXCEPT ![DownstreamOwner[event]] = DownstreamState(event)]
                    ELSE [agent EXCEPT !["writer"] = "done"]
        /\ Goto(r, [call[r] EXCEPT !.step = "settle"])
        /\ UNCHANGED <<artifact, posts>>

SettleAgent(r) ==
    /\ call[r].step = "settle"
    /\ agent' = [agent EXCEPT ![TaskOf(r).owner] = "idle"]
    /\ Goto(r, IdleCall)
    /\ UNCHANGED <<task, artifact, posts>>

\* POST /v1/tasks for any role.
PostTask ==
    /\ posts < MaxPosts
    /\ \E owner \in Role : task' = Append(task, NewTask(owner, 0))
    /\ posts' = posts + 1
    /\ UNCHANGED <<artifact, agent, call>>

\* POST /v1/events with task_requeued for a blocked task.
RequeueTask ==
    /\ posts < MaxPosts
    /\ \E t \in DOMAIN task :
          /\ task[t].status = "blocked"
          /\ task' = [task EXCEPT ![t].status = "todo"]
          /\ agent' = [agent EXCEPT ![task[t].owner] = "planning"]
    /\ posts' = posts + 1
    /\ UNCHANGED <<artifact, call>>

-----------------------------------------------------------------------------
Pass(r) ==
    \/ ClaimTask(r) \/ MissesInputs(r) \/ ReadInputs(r)
    \/ RegisterOutput(r) \/ CompleteTask(r) \/ SettleAgent(r)

ReviewNext == PostTask \/ RequeueTask \/ \E r \in Runner : Pass(r)

ReviewSpec == ReviewInit /\ [][ReviewNext]_reviewVars

\* run_coordinators is called until it reports that it is idle.
ReviewFairness == \A r \in Runner : WF_reviewVars(Pass(r))

FairReviewSpec == ReviewSpec /\ ReviewFairness

-----------------------------------------------------------------------------
Unfinished == {t \in DOMAIN task : task[t].status # "done"}

\* Each task of the loop has what it needs when it is claimed, and is the only
\* one that is not finished: the loop runs in single file while nobody posts
\* tasks (DOWNSTREAM_TASK_RULES, the handlers).
SingleFile ==
    posts = 0 => /\ Cardinality(Unfinished) <= 1
                 /\ \A t \in DOMAIN task : task[t].status # "blocked"

\* The n-th report of a project carries the n-th decision, whatever tasks are
\* posted beside the loop (_run_reviewer_task).
RoundsInOrder ==
    LET reports == OfType("review_report")
    IN  \A a \in reports : artifact[a].event = Decision(Cardinality({b \in reports : b < a}))

\* What the pipeline's verification script expects of a finished loop: one explorer,
\* three experiment, four writer and four reviewer tasks, all done, the writer done
\* and the other agents idle (verify_coordinator_pipeline.py).
AsExpected ==
    /\ Unfinished = {}
    /\ \A owner \in Role :
          Cardinality({t \in DOMAIN task : task[t].owner = owner}) =
              CASE owner = "explorer" -> 1 [] owner = "experiment" -> 3 [] OTHER -> 4
    /\ \A a \in Role : agent[a] = IF a = "writer" THEN "done" ELSE "idle"

\* While nobody posts tasks the loop stops nowhere else: where run_coordinators finds
\* nothing to do, and no pass is under way, it has come to what is expected.
StopsAsExpected ==
    /\ posts = 0
    /\ \A t \in DOMAIN task : task[t].status # "todo"
    /\ \A r \in Runner : call[r].step = "idle"
    => AsExpected

\* The loop takes one step after the other (_run_reviewer_task and its followers).
LoopInOrder == ReviewTypeOK /\ SingleFile /\ RoundsInOrder /\ StopsAsExpected

\* A task that follows a review quotes the report it answers to, not a file that is
\* gone (_read_markdown_excerpt).  What the reviewer itself quotes is not meant.
FeedbackReadable ==
    \A r \in Runner : call[r].excerpt = "unavailable" => TaskOf(r).report = 0

\* The loop ends: nothing is left to run.
LoopEnds == <>[](\A t \in DOMAIN task : task[t].status \in {"done", "blocked"})

\* While nobody posts tasks it ends as the verification script expects.
LoopOutcome == <>[](posts = 0 => AsExpected)

=============================================================================
