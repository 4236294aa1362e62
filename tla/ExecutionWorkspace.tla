------------------------- MODULE ExecutionWorkspace -------------------------
(***************************************************************************)
(* Where a coordinator works and what becomes of its output: the folder    *)
(* and the worktree row made for a task, the execution context that binds  *)
(* them, the completion hooks (checkpoint, merge, cleanup) that run when   *)
(* the task is done, and the same operations asked for through the API.    *)
(*                                                                         *)
(* Every call to storage/db.py is a transaction of its own and every       *)
(* change of the file system lies between two of them, so each is one      *)
(* action.  A folder's path depends on the task alone: folder is indexed   *)
(* by the task.  git worktrees and plain folders differ in how they are    *)
(* made and removed, not in what is there afterwards.                      *)
(***************************************************************************)
EXTENDS Naturals, FiniteSets, TaskLifecycle

CONSTANTS
    Task,         \* the tasks of one project; all are claimable initially
    Owner,        \* agents
    OwnerOf,      \* the agent each task belongs to
    Runner,       \* processes in run_coordinators
    Operator,     \* callers of the API
    Worktree,     \* worktree ids, each drawn once by uuid4
    Requests,     \* kinds of request the operators send
    MaxRequests,  \* bound: requests operators send
    MaxFaults,    \* bound: operations that raise and processes that die
    None          \* absent id

Proc == Runner \cup Operator
Hook == {"checkpoint", "merge", "cleanup"}

\* prepare, release and remove are POST /v1/worktrees/{prepare, release,
\* cleanup}; checkpoint, merge and cleanup POST /v1/control/actions/...;
\* the task statuses POST /v1/tasks/status.
Request == {"prepare", "release", "remove"} \cup Hook \cup TaskStatus

ASSUME ConstantsAssumption ==
    /\ OwnerOf \in [Task -> Owner]
    /\ Runner \cap Operator = {} /\ IsFiniteSet(Proc)
    /\ Requests \subseteq Request
    /\ None \notin Task \cup Worktree \cup Runner
    /\ {"missing", "empty"} \cap Runner = {}
    /\ MaxRequests \in Nat
    /\ MaxFaults \in Nat

-----------------------------------------------------------------------------
ContextStatus  == {"absent", "prepared", "active", "completed", "blocked", "cleaned"}
WorktreeStatus == {"absent", "prepared", "active", "released", "blocked", "cleaned"}

ContextRow  == [status : ContextStatus, worktree : Worktree \cup {None}]
WorktreeRow == [status : WorktreeStatus, task : Task \cup {None}]
AgentRow    == [state : {"idle", "executing", "blocked"}, task : Task \cup {None}]

\* A folder is missing, empty, or holds the output file of the runner that
\* wrote it last: its name depends on the task alone.
Folder == {"missing", "empty"} \cup Runner

\* The steps of prepare_execution_workspace and activate_execution_workspace,
Preparing == {"lookup", "make", "insert", "bind", "activate", "start"}
\* of a coordinator's handler,
Working == {"work", "register", "complete", "emit", "settle"}
\* of the completion hooks,
Hooking == {"pipeline", "checkpoint", "checkpointing", "merge", "copy", "merging",
            "cleanup", "remove", "mark", "unbind", "cleaning"}
\* and of finalize_execution_workspace, and the runner's except clause.
Closing == {"finalize", "release", "close", "abort", "report", "fail"}
Step == {"idle", "claimed"} \cup Preparing \cup Working \cup Hooking \cup Closing

Call == [step  : Step,
         kind  : Request \cup {"none", "run"},      \* what was asked for
         task  : Task \cup {None},
         wt    : Worktree \cup {None},              \* the worktree id read last
         final : {"completed", "blocked"}]          \* how a runner's pass ends

IdleCall == [step |-> "idle", kind |-> "none", task |-> None, wt |-> None,
             final |-> "completed"]

VARIABLES
    status,    \* tasks: status
    agent,     \* agent_states: state and current task
    context,   \* task_execution_contexts, by task
    worktree,  \* project_worktrees
    folder,    \* per task, its execution folder
    output,    \* artifacts: per task, the runner that registered last, or None
    merged,    \* runs/merges: per task, the runner whose file was copied last
    running,   \* task_completion_hooks: hooks opened and not completed ...
    completed, \* ... and how many were completed, per task and type
    call,      \* per process, the operation in progress
    requests,  \* history: requests the operators sent
    faults     \* history: operations that raised, processes that died

rows  == <<status, agent, context, worktree, output, running, completed>>
files == <<folder, merged>>
bounds == <<requests, faults>>
vars  == <<rows, files, call, bounds>>

HookCount == [Task -> [Hook -> Nat]]

TypeOK ==
    /\ status \in [Task -> TaskStatus]
    /\ agent \in [Owner -> AgentRow]
    /\ context \in [Task -> ContextRow]
    /\ worktree \in [Worktree -> WorktreeRow]
    /\ folder \in [Task -> Folder]
    /\ output \in [Task -> Runner \cup {None}]
    /\ merged \in [Task -> Runner \cup {None}]
    /\ running \in HookCount /\ completed \in HookCount
    /\ call \in [Proc -> Call]
    /\ requests \in Nat /\ faults \in Nat

-----------------------------------------------------------------------------
Init ==
    /\ status = [t \in Task |-> "todo"]
    /\ agent = [a \in Owner |-> [state |-> "idle", task |-> None]]
    /\ context = [t \in Task |-> [status |-> "absent", worktree |-> None]]
    /\ worktree = [w \in Worktree |-> [status |-> "absent", task |-> None]]
    /\ folder = [t \in Task |-> "missing"]
    /\ output = [t \in Task |-> None]
    /\ merged = output
    /\ running = [t \in Task |-> [h \in Hook |-> 0]]
    /\ completed = running
    /\ call = [p \in Proc |-> IdleCall]
    /\ requests = 0 /\ faults = 0

Goto(p, c) == call' = [call EXCEPT ![p] = c]
Then(p, step) == Goto(p, [call[p] EXCEPT !.step = step])
Return(p) == Goto(p, IdleCall)

At(p, step) == call[p].step = step
TaskOf(p) == call[p].task
Bound(t) == context[t].status # "absent"

\* done runs the whole pipeline, whoever asked for it.
InPipeline(p) == call[p].kind \in {"run", "done"}

AfterPipeline(p) == IF call[p].kind = "run" THEN Then(p, "emit") ELSE Return(p)

\* The steps of run_next_coordinator_task's try block.
Tried(c) == /\ c.kind = "run" /\ c.final = "completed"
            /\ c.step \in Preparing \cup Working \cup {"pipeline", "finalize", "release", "close"}

\* Mutant: the pipeline goes on after a stage failed.
RaisedContinues(p) ==
    IF InPipeline(p) /\ call[p].step \in {"merge", "copy", "merging"} THEN Then(p, "cleanup")
    ELSE IF InPipeline(p) /\ call[p].step \in Hooking \ {"pipeline"} THEN AfterPipeline(p)
    ELSE IF Tried(call[p]) THEN Goto(p, [call[p] EXCEPT !.step = "abort", !.final = "blocked"])
    ELSE Return(p)

\* The operation at hand raises.  A stage of the pipeline ends the pipeline
\* only; in the try block the runner's except clause follows.
Raised(p) ==
    IF InPipeline(p) /\ call[p].step \in Hooking \ {"pipeline"} THEN AfterPipeline(p)
    ELSE IF Tried(call[p]) THEN Goto(p, [call[p] EXCEPT !.step = "abort", !.final = "blocked"])
    ELSE Return(p)

-----------------------------------------------------------------------------
(* run_next_coordinator_task: claim a task, prepare and activate its       *)
(* workspace.                                                              *)

ClaimTask(r) ==
    /\ At(r, "idle")
    /\ \E t \in Task :
          /\ status[t] = "todo"
          /\ status' = [status EXCEPT ![t] = "in_progress"]
          /\ Goto(r, [IdleCall EXCEPT !.step = "claimed", !.kind = "run", !.task = t])
    /\ UNCHANGED <<agent, context, worktree, output, running, completed, files, bounds>>

SetAgent(r, state, task) == agent' = [agent EXCEPT ![OwnerOf[TaskOf(r)]] =
                                        [state |-> state, task |-> task]]

MarkRunning(r) ==
    /\ At(r, "claimed")
    /\ SetAgent(r, "executing", TaskOf(r))
    /\ Then(r, "lookup")
    /\ UNCHANGED <<status, context, worktree, output, running, completed, files, bounds>>

\* A bound folder that is still there is used again.
LookUpContext(p) ==
    /\ At(p, "lookup")
    /\ IF ~Bound(TaskOf(p)) \/ folder[TaskOf(p)] = "missing" THEN Then(p, "make")
       ELSE IF call[p].kind = "run"
            THEN Goto(p, [call[p] EXCEPT !.step = "activate", !.wt = context[TaskOf(p)].worktree])
            ELSE Return(p)
    /\ UNCHANGED <<rows, files, bounds>>

\* Otherwise what is at its place is removed, and a new one made.
MakeFolder(p) ==
    /\ At(p, "make")
    /\ folder' = [folder EXCEPT ![TaskOf(p)] = "empty"]
    /\ Then(p, "insert")
    /\ UNCHANGED <<rows, merged, bounds>>

InsertWorktree(p) ==
    /\ At(p, "insert")
    /\ \E w \in Worktree :
          /\ worktree[w].status = "absent"
          /\ worktree' = [worktree EXCEPT ![w] = [status |-> "prepared", task |-> TaskOf(p)]]
          /\ Goto(p, [call[p] EXCEPT !.step = "bind", !.wt = w])
    /\ UNCHANGED <<status, agent, context, output, running, completed, files, bounds>>

SetContext(p, state) == context' = [context EXCEPT ![TaskOf(p)] =
                                      [status |-> state, worktree |-> call[p].wt]]

SetWorktree(p, state) == worktree' = [worktree EXCEPT ![call[p].wt].status = state]

BindContext(p) ==
    /\ At(p, "bind")
    /\ SetContext(p, "prepared")
    /\ IF call[p].kind = "run" THEN Then(p, "activate") ELSE Return(p)
    /\ UNCHANGED <<status, agent, worktree, output, running, completed, files, bounds>>

ActivateWorktree(r) ==
    /\ At(r, "activate")
    /\ SetWorktree(r, "active")
    /\ Then(r, "start")
    /\ UNCHANGED <<status, agent, context, output, running, completed, files, bounds>>

StartContext(r) ==
    /\ At(r, "start")
    /\ SetContext(r, "active")
    /\ Then(r, "work")
    /\ UNCHANGED <<status, agent, worktree, output, running, completed, files, bounds>>

-----------------------------------------------------------------------------
(* The handler writes a file, registers it, completes the task.            *)

WriteOutput(r) ==
    /\ At(r, "work")
    /\ folder' = [folder EXCEPT ![TaskOf(r)] = r]
    /\ Then(r, "register")
    /\ UNCHANGED <<rows, merged, bounds>>

RegisterOutput(r) ==
    /\ At(r, "register")
    /\ output' = [output EXCEPT ![TaskOf(r)] = r]
    /\ Then(r, "complete")
    /\ UNCHANGED <<status, agent, context, worktree, running, completed, files, bounds>>

\* update_task_status, then the pipeline when the task is done.
CompleteTask(p) ==
    LET t    == TaskOf(p)
        next == IF call[p].kind = "run" THEN "done" ELSE call[p].kind
    IN  /\ At(p, "complete")
        /\ IF ValidTransition(status[t], next)
           THEN /\ status' = [status EXCEPT ![t] = next]
                /\ IF next = "done" THEN Then(p, "pipeline") ELSE Return(p)
           ELSE Raised(p) /\ UNCHANGED status
        /\ UNCHANGED <<agent, context, worktree, output, running, completed, files, bounds>>

\* emit_event and consume_pending_events: TaskHandoff has their detail.
EmitEvent(r) ==
    /\ At(r, "emit")
    /\ Then(r, "settle")
    /\ UNCHANGED <<rows, files, bounds>>

SettleAgent(r) ==
    /\ At(r, "settle")
    /\ SetAgent(r, "idle", None)
    /\ Then(r, "finalize")
    /\ UNCHANGED <<status, context, worktree, output, running, completed, files, bounds>>

-----------------------------------------------------------------------------
(* The completion hooks.                                                   *)

\* Mutant: the pipeline starts with the cleanup.
StartPipelineAtCleanup(p) ==
    /\ At(p, "pipeline")
    /\ IF Bound(TaskOf(p)) THEN Then(p, "cleanup") ELSE AfterPipeline(p)
    /\ UNCHANGED <<rows, files, bounds>>

StartPipeline(p) ==
    /\ At(p, "pipeline")
    /\ IF Bound(TaskOf(p)) THEN Then(p, "checkpoint") ELSE AfterPipeline(p)
    /\ UNCHANGED <<rows, files, bounds>>

OpenHook(p, hook) == running' = [running EXCEPT ![TaskOf(p)][hook] = @ + 1]

CloseHook(p, hook) ==
    /\ running' = [running EXCEPT ![TaskOf(p)][hook] = @ - 1]
    /\ completed' = [completed EXCEPT ![TaskOf(p)][hook] = @ + 1]

OpenCheckpoint(p) ==
    /\ At(p, "checkpoint")
    /\ OpenHook(p, "checkpoint")
    /\ Then(p, "checkpointing")
    /\ UNCHANGED <<status, agent, context, worktree, output, completed, files, bounds>>

CloseCheckpoint(p) ==
    /\ At(p, "checkpointing")
    /\ CloseHook(p, "checkpoint")
    /\ IF InPipeline(p) THEN Then(p, "merge") ELSE Return(p)
    /\ UNCHANGED <<status, agent, context, worktree, output, files, bounds>>

OpenMerge(p) ==
    /\ At(p, "merge")
    /\ IF Bound(TaskOf(p))
       THEN OpenHook(p, "merge") /\ Then(p, "copy")
       ELSE Raised(p) /\ UNCHANGED running
    /\ UNCHANGED <<status, agent, context, worktree, output, completed, files, bounds>>

\* Mutant: looks for the files in the canonical workspace.
CopyNothing(p) ==
    /\ At(p, "copy")
    /\ Then(p, "merging")
    /\ UNCHANGED <<rows, files, bounds>>

CopyOutput(p) ==
    /\ At(p, "copy")
    /\ merged' = IF folder[TaskOf(p)] \in Runner
                 THEN [merged EXCEPT ![TaskOf(p)] = folder[TaskOf(p)]] ELSE merged
    /\ Then(p, "merging")
    /\ UNCHANGED <<rows, folder, bounds>>

CloseMerge(p) ==
    /\ At(p, "merging")
    /\ CloseHook(p, "merge")
    /\ IF InPipeline(p) THEN Then(p, "cleanup") ELSE Return(p)
    /\ UNCHANGED <<status, agent, context, worktree, output, files, bounds>>

OpenCleanup(p) ==
    /\ At(p, "cleanup")
    /\ IF Bound(TaskOf(p))
       THEN /\ OpenHook(p, "cleanup")
            /\ Goto(p, [call[p] EXCEPT !.step = "remove", !.wt = context[TaskOf(p)].worktree])
       ELSE Raised(p) /\ UNCHANGED running
    /\ UNCHANGED <<status, agent, context, worktree, output, completed, files, bounds>>

\* cleanup_worktree: the folder, then its row.
RemoveFolder(p) ==
    /\ At(p, "remove")
    /\ folder' = [folder EXCEPT ![worktree[call[p].wt].task] = "missing"]
    /\ Then(p, "mark")
    /\ UNCHANGED <<rows, merged, bounds>>

MarkCleaned(p) ==
    /\ At(p, "mark")
    /\ SetWorktree(p, "cleaned")
    /\ IF call[p].kind = "remove" THEN Return(p) ELSE Then(p, "unbind")
    /\ UNCHANGED <<status, agent, context, output, running, completed, files, bounds>>

MarkContextCleaned(p) ==
    /\ At(p, "unbind")
    /\ SetContext(p, "cleaned")
    /\ Then(p, "cleaning")
    /\ UNCHANGED <<status, agent, worktree, output, running, completed, files, bounds>>

CloseCleanup(p) ==
    /\ At(p, "cleaning")
    /\ CloseHook(p, "cleanup")
    /\ IF InPipeline(p) THEN AfterPipeline(p) ELSE Return(p)
    /\ UNCHANGED <<status, agent, context, worktree, output, files, bounds>>

-----------------------------------------------------------------------------
(* finalize_execution_workspace, after the handler and in the except       *)
(* clause.                                                                 *)

\* The workspace of a successful pass has been cleaned up already, as a rule.
Finalize(r) ==
    /\ At(r, "finalize")
    /\ IF context[TaskOf(r)].status \in {"absent", "cleaned", "completed"}
       THEN Return(r)
       ELSE Goto(r, [call[r] EXCEPT !.step = "release", !.wt = context[TaskOf(r)].worktree])
    /\ UNCHANGED <<rows, files, bounds>>

Abort(r) ==
    /\ At(r, "abort")
    /\ IF Bound(TaskOf(r))
       THEN Goto(r, [call[r] EXCEPT !.step = "release", !.wt = context[TaskOf(r)].worktree])
       ELSE Then(r, "report")
    /\ UNCHANGED <<rows, files, bounds>>

ReleaseWorktree(p) ==
    /\ At(p, "release")
    /\ SetWorktree(p, IF call[p].final = "completed" THEN "released" ELSE "blocked")
    /\ IF call[p].kind = "run" THEN Then(p, "close") ELSE Return(p)
    /\ UNCHANGED <<status, agent, context, output, running, completed, files, bounds>>

CloseContext(r) ==
    /\ At(r, "close")
    /\ SetContext(r, call[r].final)
    /\ IF call[r].final = "completed" THEN Return(r) ELSE Then(r, "report")
    /\ UNCHANGED <<status, agent, worktree, output, running, completed, files, bounds>>

\* Mutant: the agent's state is not written.
ReportBlockedOnly(r) ==
    /\ At(r, "report")
    /\ IF ValidTransition(status[TaskOf(r)], "blocked")
       THEN status' = [status EXCEPT ![TaskOf(r)] = "blocked"]
       ELSE UNCHANGED status
    /\ Return(r)
    /\ UNCHANGED <<agent, context, worktree, output, running, completed, files, bounds>>

\* complete_task_and_emit with status blocked: the exception of a transition
\* that is not allowed leaves the runner.
ReportBlocked(r) ==
    /\ At(r, "report")
    /\ IF ValidTransition(status[TaskOf(r)], "blocked")
       THEN status' = [status EXCEPT ![TaskOf(r)] = "blocked"] /\ Then(r, "fail")
       ELSE Return(r) /\ UNCHANGED status
    /\ UNCHANGED <<agent, context, worktree, output, running, completed, files, bounds>>

BlockAgent(r) ==
    /\ At(r, "fail")
    /\ SetAgent(r, "blocked", TaskOf(r))
    /\ Return(r)
    /\ UNCHANGED <<status, context, worktree, output, running, completed, files, bounds>>

-----------------------------------------------------------------------------
(* Requests of operators, and failures.                                    *)

FirstStep(kind) ==
    CASE kind = "prepare"       -> "lookup"
      [] kind \in TaskStatus    -> "complete"
      [] kind \in Hook          -> kind

PostTaskRequest(o) ==
    /\ At(o, "idle")
    /\ requests < MaxRequests
    /\ \E kind \in Requests \ {"release", "remove"}, t \in Task :
          Goto(o, [IdleCall EXCEPT !.step = FirstStep(kind), !.kind = kind, !.task = t])
    /\ requests' = requests + 1
    /\ UNCHANGED <<rows, files, faults>>

PostWorktreeRequest(o) ==
    /\ At(o, "idle")
    /\ requests < MaxRequests
    /\ \E kind \in Requests \cap {"release", "remove"}, w \in Worktree :
          /\ worktree[w].status # "absent"
          /\ Goto(o, [IdleCall EXCEPT !.step = kind, !.kind = kind,
                                      !.task = worktree[w].task, !.wt = w])
    /\ requests' = requests + 1
    /\ UNCHANGED <<rows, files, faults>>

\* Anything may raise: the disk is full, the database stays locked, a handler
\* misses an upstream artifact, the consumer meets an event it cannot handle.
OperationRaises(p) ==
    /\ faults < MaxFaults
    /\ ~At(p, "idle")
    /\ Raised(p)
    /\ faults' = faults + 1
    /\ UNCHANGED <<rows, files, requests>>

ProcessDies(p) ==
    /\ faults < MaxFaults
    /\ ~At(p, "idle")
    /\ Return(p)
    /\ faults' = faults + 1
    /\ UNCHANGED <<rows, files, requests>>

-----------------------------------------------------------------------------
Prepare(p) == \/ LookUpContext(p) \/ MakeFolder(p) \/ InsertWorktree(p) \/ BindContext(p)

RunHooks(p) ==
    \/ CompleteTask(p) \/ StartPipeline(p) \/ OpenCheckpoint(p) \/ CloseCheckpoint(p)
    \/ OpenMerge(p) \/ CopyOutput(p) \/ CloseMerge(p)
    \/ OpenCleanup(p) \/ RemoveFolder(p) \/ MarkCleaned(p) \/ MarkContextCleaned(p)
    \/ CloseCleanup(p) \/ ReleaseWorktree(p)

Run(r) ==
    \/ MarkRunning(r) \/ ActivateWorktree(r) \/ StartContext(r) \/ WriteOutput(r)
    \/ RegisterOutput(r) \/ EmitEvent(r) \/ SettleAgent(r) \/ Finalize(r)
    \/ Abort(r) \/ CloseContext(r) \/ ReportBlocked(r) \/ BlockAgent(r)

Next ==
    \/ \E p \in Proc : Prepare(p) \/ RunHooks(p) \/ OperationRaises(p) \/ ProcessDies(p)
    \/ \E r \in Runner : ClaimTask(r) \/ Run(r)
    \/ \E o \in Operator : PostTaskRequest(o) \/ PostWorktreeRequest(o)

Spec == Init /\ [][Next]_vars

\* A pass and a request go on once they have begun.  Nothing makes a runner
\* claim: run_coordinators is called when somebody calls it.
Fairness ==
    /\ \A p \in Proc : WF_vars(Prepare(p) \/ RunHooks(p))
    /\ \A r \in Runner : WF_vars(Run(r))

FairSpec == Spec /\ Fairness

\* Somebody calls run_coordinators again and again.
BusySpec == FairSpec /\ \A r \in Runner : WF_vars(ClaimTask(r))

-----------------------------------------------------------------------------
(* Safety.                                                                 *)

\* What a runner registered last is in the task's folder or was copied to
\* runs/merges: no cleanup and no preparation destroys the only copy of an
\* output (prepare_execution_workspace, cleanup_worktree).
OutputKept ==
    \A t \in Task : output[t] # None => output[t] \in {folder[t], merged[t]}

\* A task that is not finished keeps the folder its output was written to: the
\* scene of a failure is preserved, and a repeated run finds it.
FailureKept ==
    \A t \in Task : output[t] # None /\ folder[t] = "missing" => status[t] = "done"

\* The hooks of a task complete in their order: no more cleanups than merges,
\* no more merges than checkpoints, whichever stage fails
\* (_run_auto_completion_pipeline).
PipelineOrdered ==
    \A t \in Task : /\ completed[t]["cleanup"] <= completed[t]["merge"]
                    /\ completed[t]["merge"] <= completed[t]["checkpoint"]

\* Every hook completes at most once per task (_run_auto_completion_pipeline).
\* The code does not keep this; the README has the steps that break it.
PipelineOnce == \A t \in Task, h \in Hook : completed[t][h] <= 1

\* A hook of a task stays open only while a process is in it, or because a
\* process raised or died there (create_, update_task_completion_hook).
InHook(hook) ==
    CASE hook = "checkpoint" -> {"checkpointing"}
      [] hook = "merge"      -> {"copy", "merging"}
      [] hook = "cleanup"    -> {"remove", "mark", "unbind", "cleaning"}

HooksAccounted ==
    \A t \in Task, h \in Hook :
        running[t][h] <= faults + Cardinality({p \in Proc :
            TaskOf(p) = t /\ call[p].step \in InHook(h) /\ call[p].kind # "remove"})

\* The hooks tell what was done: in their order, and of everything that ended.
HooksTrue == PipelineOrdered /\ HooksAccounted

Busy(t) == \E p \in Proc : call[p].step # "idle" /\ call[p].task = t

\* When nobody works on a task, its context and the worktree row it is bound to
\* tell the same story, and the folder is missing exactly when it is cleaned
\* (activate_, finalize_execution_workspace, cleanup_execution_result).
Settled(t) ==
    LET bound == worktree[context[t].worktree] IN
    Bound(t) =>
        /\ bound.task = t
        /\ bound.status = IF context[t].status = "completed" THEN "released"
                          ELSE context[t].status
        /\ folder[t] = "missing" <=> context[t].status = "cleaned"

ContextSettled == faults = 0 => \A t \in Task : Busy(t) \/ Settled(t)

\* No output is lost and no failure's folder, and rows and folders agree.
WorkspaceSound == TypeOK /\ OutputKept /\ FailureKept /\ ContextSettled

\* An agent is executing only while a runner works on the task it is said to be at,
\* or because that task was finished by somebody else while its runner was failing:
\* done cannot become blocked, and the runner leaves without a word to the agent
\* (runner.py: idle after a success, blocked after a failure).
AgentReleased ==
    faults = 0 =>
        \A a \in Owner : agent[a].state = "executing" =>
            \/ \E r \in Runner : ~At(r, "idle") /\ TaskOf(r) = agent[a].task
            \/ status[agent[a].task] = "done"

\* An agent is executing only while a runner works on the task it is said to be at.
\* The code does not keep this; the README has the steps that break it.
AgentAtWork ==
    faults = 0 =>
        \A a \in Owner : agent[a].state = "executing" =>
            \E r \in Runner : ~At(r, "idle") /\ TaskOf(r) = agent[a].task

\* A worktree row that says cleaned never says anything else again
\* (update_project_worktree).
\* The code does not keep this; the README has the steps that break it.
CleanedFinal ==
    [][\A w \in Worktree : worktree[w].status = "cleaned" => worktree'[w].status = "cleaned"]_vars

-----------------------------------------------------------------------------
(* Liveness, under FairSpec.                                               *)

\* The output of a finished task is promoted and its workspace cleaned up,
\* unless something raises or dies (_run_auto_completion_pipeline).
DoneIsCleaned ==
    \A t \in Task : status[t] = "done" /\ output[t] # None ~>
        \/ faults > 0
        \/ merged[t] = output[t] /\ context[t].status = "cleaned"

\* A task set to retry runs again, if runners keep running (_select_next_task).
\* Stated for BusySpec.
\* The code does not keep this; the README has the steps that break it.
RetryIsRun == \A t \in Task : status[t] = "retry" ~> status[t] # "retry"

=============================================================================
