# SciAILab: a TLA+ model of the research runtime

SciAILab runs research projects with four coordinator agents, *explorer*,
*experiment*, *writer* and *reviewer*, that hand work to each other through a
database. The agents run inside a vendored OpenClaw gateway. This directory holds
a specification of that hand-off, of the stores and processes around it and of
the parts of the gateway that a run passes through, the TLC configurations that
check it on small instances, and proofs of its main safety properties.

Sources are named relative to `src/`: `db.py` is
`python/research_runtime/storage/db.py`, `event_consumer.py`,
`task_driver.py`, `state_machine.py`, `worktree_manager.py` and
`archive_manager.py` are in `python/research_runtime/orchestrator/`, `runner.py`
is `python/research_runtime/coordinators/runner.py`, `app.py` is
`python/research_runtime/api/app.py`, and `coordinator-agent.ts` is in
`openclaw/extensions/research-core/src/`. Of the gateway, paths are relative to
`openclaw/src/`.

## The system

| Part | State | Operations | Talks to |
|---|---|---|---|
| Task and event tables (`db.py`, `state_machine.py`) | `tasks`, `events`, `messages`, `agent_states` in SQLite | create, claim, update a task; emit an event; set an agent's state | everybody |
| Event consumer (`event_consumer.py`) | none of its own | consume pending events: create downstream tasks and messages, block, recover, requeue | the tables |
| Task driver (`task_driver.py`) | none | `complete_task_and_emit`: status, pipeline, event, consumption | tables, consumer, hooks |
| Worktree and archive manager | `project_worktrees`, `task_execution_contexts`, `task_completion_hooks`, folders | prepare, activate, finalize, release, clean up; checkpoint, merge | tables, file system, git |
| Python coordinators (`runner.py`) | a pass, on the stack | claim a task, run its handler, complete it | all of the above |
| OpenClaw service (`coordinator-agent.ts`) | routing, worker pools | refresh routing, grow and shrink pools, run a pass with a subagent | the runtime, over HTTP |
| Artifact and package store (`db.py`) | `artifacts`, `frozen_packages`, manifest files | register, move an artifact; freeze a package | coordinators, hooks, API |
| Messages (`db.py`) | `messages` | create; change the state of the hand-off, and tell of it by an event | UI, coordinators, consumer |
| Provider observability, auth profiles, agent routing (`db.py`, `openclaw_sync.py`) | a table each, the OpenClaw auth store | read-modify-write of one row | UI, coordinators |
| HTTP API, CLI worker, plugin tools, web UI | none that matters here | pass requests on | the runtime |
| Agent runs of the gateway (`gateway/server-methods/agent.ts`, `agent-job.ts`) | the dedupe map, the cache of lifecycle events, waiters | `agent`, `agent.wait` | the OpenClaw service, the lanes |
| Command lanes and restart loop (`process/command-queue.ts`, `cli/gateway-cli/run-loop.ts`) | a queue and active tasks per lane, embedded runs | enqueue, clear, resize; drain, reset, start the server again | every run |
| Followup queue (`auto-reply/reply/queue/`) | a queue per session, its drain | enqueue, drain, clear | the runs of the session |
| Heartbeat wake layer (`infra/heartbeat-wake.ts`) | pending wakes, a timer, a handler | request, fire, retry, replace the handler | heartbeat runner, the main lane |
| Outbound delivery queue (`infra/outbound/delivery-queue.ts`) | a file per delivery | write ahead, acknowledge, fail, recover | every channel |
| Read model, trace page, overview | none | read and render | the tables |

The hard part is that nothing runs alone. FastAPI serves requests from a thread
pool; agent-mode workers, runners, operators and tools are all clients. Python's
`sqlite3` opens a transaction only before the first `INSERT` or `UPDATE` of a
`with connect(...)` block, so *every SELECT before it protects nothing*. A
logical operation, such as completing a task, is several transactions with files
written in between, and a process may stop at any of them. There are no claims
that expire, no retries and no locks above SQLite's.

In the gateway there is one event loop, and what interleaves is what comes between
two awaits: a run ends after the lanes it was queued in were reset, a drain
awakes in a queue that was cleared, an answer arrives at a key that was dropped.
A restart happens *inside the process*, so that what the old server was doing
goes on beside the new one.

What makes each part correct:

- **Hand-off.** A task is claimed by one worker at a time, moves along its table,
  and its completion leads to exactly one whole hand-off: downstream task,
  message, consumed event.
- **Workspace.** No cleanup or preparation destroys the only copy of an output;
  failures keep their folder; hooks run in order; rows and folders agree.
- **Pool.** The pool is the set of loops that go on, follows the routing, and
  can be stopped.
- **Review loop.** The rounds come in order, the loop ends, with the artifacts
  each step needs.
- **Stores.** An answered version stays its caller's; a package's manifest says
  what its row says; an acknowledgement is not taken back.
- **Gateway.** Nothing queued, owed or written ahead is lost, over restarts too,
  or repeated without an error, a crash or an overlap that explains it; lanes with
  work and room do not sleep; a caller is told what its run has come to.

`PROJECT.json` lists the hazards behind these, each at its line of code.

## Modules

| Module | Models | Variables | Its actions |
|---|---|---|---|
| `TaskLifecycle` | the status table of `state_machine.py` | none | none |
| `EventRouting` | `DOWNSTREAM_TASK_RULES`, `ROLE_DEFAULT_EVENTS` | none | none |
| `TaskBoard` | *abstract*: what the tables promise to an observer | `status`, `posted`, `delivered` | create, move, post, deliver |
| `TaskHandoff` | the four tables and the requests on them | `store` (committed rows), `work` and `writer` (the open transaction), `call` (each request's locals) | one per statement that other requests can come between |
| `ExecutionWorkspace` | folders, worktrees, contexts, hooks, runner | the tables, `folder`, `merged`, `call` | one per `db.py` call and per change of the file system |
| `WorkerPool` | `createResearchCoordinatorService` | routing, requests, `pool`, `loop`, flags | one per stretch of JavaScript between two awaits |
| `ReviewLoop` | handlers of `runner.py` and the tasks their events create | `task`, `artifact`, `agent`, `call` | claim, read, register, complete, settle |
| `ArtifactStore` | `register_artifact`, `transition_artifact_state` | rows and calls | read, write |
| `PackageLog` | *abstract*: an append-only log | `log` | freeze |
| `PackageStore` | `freeze_package` | rows, manifest files, calls | read version, write file, insert row |
| `MessageHandoff` | `create_message`, `update_message_state` | the row, readers | read, write, emit |
| `SessionTurns` | *abstract*: what the lanes promise to a session | `stage`, `carried` | submit, end, clear, restart |
| `CommandLanes` | lanes, embedded runs, restart loop | `queue`, `active`, `phase`, `handle`, `gateway` | one per event of the event loop |
| `AgentRuns` | `agent`, `agent.wait` | `entry`, `snapshot`, `grace`, calls and runs | one per stretch between two awaits, one per timer |
| `FollowupQueue` | one session's followup queue | `queues` (objects), `registered`, `callback`, `fate` | arrive, enqueue, start and end a followup, clear |
| `HeartbeatWake` | the wake layer and its runners | `wakes`, `timer`, `handler`, `busy`, `batch` | request, fire, answer, raise, start, stop |
| `Outbox` | *abstract*: what the write-ahead queue promises to its senders | `handed`, `kept`, `failed`, `sent`, `tried`, `late`, `excused`, `disturbed` | hand over, deliver, deliver with a late error, fail, excuse, misjudge, release, give up, return, disturb |
| `DeliveryQueue` | the write-ahead queue | files, senders, passes | one per call of the file system and one for its failure, send and its outcomes, crash |
| `TaskHandoff_proofs` | theorems about `TaskHandoff` and that it implements `TaskBoard` | | |
| `ExecutionWorkspace_proofs` | theorems about `ExecutionWorkspace` | | |
| `Coordination_proofs` | theorems about `WorkerPool` and `ReviewLoop` | | |
| `PackageStore_proofs` | theorems about `PackageStore` and that it implements `PackageLog` | | |
| `Records_proofs` | theorems about `ArtifactStore` and `MessageHandoff` | | |
| `Gateway_proofs` | theorems about `HeartbeatWake` and `AgentRuns` | | |
| `DeliveryQueue_proofs` | theorems about `DeliveryQueue` and that it implements `Outbox` | | |
| `Queues_proofs` | theorems about `CommandLanes`, that it implements `SessionTurns`, and about `FollowupQueue` | | |
| `MC...` | finite instances | | |

How they fit: `TaskHandoff` implements `TaskBoard`, `PackageStore` `PackageLog`,
`CommandLanes` `SessionTurns` and `DeliveryQueue` `Outbox`, by `INSTANCE`. `TaskHandoff` and `ExecutionWorkspace` both use
`TaskLifecycle`; `ReviewLoop` and `TaskHandoff` both use `EventRouting`. The
three big modules look at one pass of a coordinator from three sides, and each
says in its heading what it leaves to the others: `ReviewLoop` takes completion
for one action, whose transactions are `TaskHandoff` and whose hooks are
`ExecutionWorkspace`. A pass of an agent-mode worker asks for a run by
`AgentRuns`, which waits its turn in `CommandLanes`; a run of either can end
only by an answer, an error or its timeout, and that is what `WorkerPool` takes
for the end of a pass.

The parts of the gateway share no variables, nor do the stores. `MCGateway`,
`MCRecords` and `MCCoordination` instantiate several of them beside each other:
a variable `part` is chosen at first, that part moves, the others stay in their
initial states. Such a run checks each part on its own, and costs the sum of
their state spaces and not their product.

### Grain and abstractions

- *TaskHandoff.* A process' `call.step` is its program counter. `ReadStatus` is
  the SELECT of `update_task_status`, `WriteStatus` its UPDATE; `FetchEvents`,
  `PeekFirst`, `BeginBatch`, `ApplyEvent` and `CommitBatch` are one call of
  `consume_pending_events`, and `PeekFirst` stands for the SELECTs of the first
  event's handler, which come before the transaction begins. A payload is
  reduced to the references the consumer reads. Ids drawn by `uuid4` are drawn
  once. `RequestDies` is a request that fails for a reason outside the tables,
  `WorkerDies` a process that stops between two requests. In agent mode tasks
  have no execution context, so the pipeline inside `complete_task_and_emit`
  does nothing there.
- *ExecutionWorkspace.* A task's folder path depends on the task alone, and its
  output file's name too, so a folder is `missing`, `empty` or named after the
  runner that wrote last. git worktrees and plain folders are not told apart.
  Prepares without a task are left out.
- *WorkerPool.* One role: roles share nothing. A handle may be used again once
  its loop has ended, so a few handles serve any number of loops. `start()` is
  not called while `stop()` is waiting, as the host awaits it.
- *ReviewLoop.* Tasks and artifacts are sequences in order of creation. Each
  completion names its own package or report, so no open task is ever reused.
  Conflicts of versions are left to `ArtifactStore`. A reviewer quotes the latest
  draft (`runner.py:486`), which is as unreadable as the reports are; the finding
  `FeedbackReadable` is about the follow-ups, which quote the report.
- *Stores.* One type of one project; versions of different types do not meet.
  A message's times are reduced to whether they are set, and the event that tells
  of a change to that it was emitted.
- *CommandLanes.* The task of a session's entry enqueues the run in the main lane
  and ends with it, so one `phase` per run tells where both halves are. Lane
  generations are not numbers: a task of an older generation is one that the
  active tasks of its lane do not have. Promise callbacks that follow one another
  without a wait belong to the event that started them, so while the gateway
  drains a whole session queue is refused at once. The restart without a new
  process is the one modelled; with a new process nothing here survives.
- *AgentRuns.* One key stands for a task; a dispatch is a call of the plugin. The
  run of a call emits attempts that start and end or fail, and settles after
  them; `paused` is the time between two attempts, or after the last. Timers
  fire whenever they are set, so graces and ages have no lengths, but a snapshot
  is not dropped while a timer of seconds runs beside it.
- *FollowupQueue.* One session. Queue objects are numbered as they are made,
  because a drain goes on with the object it began with after the key has another
  one. What was dropped is remembered as a set, and a summary reports all of it.
- *HeartbeatWake.* Times are reduced to the kind of the timer: `schedule` keeps a
  timer that is due sooner, and with the delays in use a retry (1 s) is never due
  before a normal timer that was set earlier (0 or 250 ms).
- *DeliveryQueue.* A file is its retry count. A delivery's payloads are sent all
  or not all. Whether the time of a retry has come is not predictable once a
  send has failed. Behind the payloads, a delivery in `Mirrored` is appended to the
  transcript of its session (`deliver.ts:758`); where that raises, the caller
  cannot tell it from an error of sending, and `MirrorFails` is that case: sent in
  full, and counted as failed (`late`). Every call of the file system may raise, up
  to `MaxFaults` times: a sender ignores the error of `ackDelivery`
  (`deliver.ts:518`), a pass takes it for one of sending (`delivery-queue.ts:392`),
  and that of `failDelivery` or `moveToFailed` nobody minds. A delivery whose
  channel is not configured raises whether it is best-effort or not
  (`deliver.ts:142`).

## Runs

| Run | Instance | Shows |
|---|---|---|
| `handoff_workers` | 2 experiment workers, 1 operator posting duplicate hand-off events, 3 events, batches of 2, 1 death | `OneClaimPerOpening`, `RunnerOwnsTask`, `DoneStaysDone`, refinement of `TaskBoard` |
| `handoff_control` | 1 worker, 1 operator posting all control events, creating tasks, writing `retry`; 2 events | `TypeOK`, `DownstreamCommitted` |
| `handoff_drain` | explorer and experiment worker, 1 operator, batches of 1, 1 death, fairness | `HandoffAccounted`, `ConsumingDrains`, `HandoffArrives` |
| `workspace_runs` | 1 runner, 2 tasks, operator blocking and requeuing (2 requests), 1 fault, fairness | `WorkspaceSound` (`TypeOK`, `OutputKept`, `FailureKept`, `ContextSettled`), `HooksTrue` (`PipelineOrdered`, `HooksAccounted`), `DoneIsCleaned` |
| `workspace_requests` | 2 runners, 1 task, 3 requests that release, clean up or set any status but `retry` | `AgentReleased` |
| `coordination` | pool: 3 handles, 2 routing requests at once, up to 2 workers, 3 changes, fairness | `PoolSound` (`PoolIsLive`, `StopWaits`), `PoolConverges`, `StopReturns` |
| | review loop: 1 runner, 2 posted or requeued tasks, fairness | `LoopInOrder` (`ReviewTypeOK`, `SingleFile`, `RoundsInOrder`, `StopsAsExpected`), `ReviewEnds`, `ReviewOutcome` |
| `records` | packages: 3 calls at once, 2 sources, 3 versions | `TypeOK`, `UnsharedAgrees`, refinement of `PackageLog` |
| | artifacts: 2 calls at once, 2 versions, all 13 states | `ArtifactsSound` (`ArtifactTypeOK`, `AnswersKept`), `UnracedMovesLegal` |
| | a message: 2 readers, 3 requests for any state, readers die | `MessagesSound` (`MessageTypeOK`, `ReceiptsNested`, `ChangesTold`), `ReceiptsKept` |
| `gateway` | lanes: 3 runs of one session and 1 of another, main lane of width 1 or 2, 2 restarts | `EntriesServed` (`EntriesKept`, `NoLaneSleeps`), `SessionsInTurn` (`SessionOrder`, `SessionSerial`), refinement of `SessionTurns` |
| | followup queue: 4 messages from 2 channels, cap 2, 3 settings, cleared once | `DrainsSound` (`NoneSlips`, `NoneTwice`, `OneDrain`, `BarrenExplained`) |
| | heartbeats: 2 targets, 2 runners | `WakesHeld` (`WakesKept`, `NoWakeSleeps`), `BatchesApart` (`OneBatch`, `CooldownKept`) |
| | deliveries: 2, one of them best-effort and the other written to a transcript, 2 passes, 1 call of the file system that fails, crashes anywhere | `DeliveriesKept` (`NoneLost`, `DuplicatesExplained`, `FilesHonest`, `GivesUpInTime`), refinement of `Outbox` |
| | agent runs: 2 calls under one key | `RunsExplained`, `WaitersServed` (`AnswersReal`, `WaitersHaveRuns`, `NoDeafWaiter`) |
| `gateway_progress` | lanes with 3 runs, followup queue with 3 messages, heartbeats, fairness | `RunsSettle`, `ServesAgain`, `QueuedDrains`, `WakesRun` |
| `event_stuck` | 2 workers, 2 tasks, 4 events, no failures, fairness | violation of `EventsConsumed` |
| `manifest_overwritten` | 2 calls | violation of `ManifestAgrees` |
| `feedback_unread` | 1 runner, nobody else | violation of `FeedbackReadable`: the first task that follows a review finds the report it answers to removed |

Where the code promises several things about one matter, an invariant of the run
is their conjunction, and the parts, in brackets above, have definitions and
comments of their own; where the parts of a run share no state, one of each part's is
its type invariant.

*Why the bounds are enough.* The races are between two parties over one row: two
workers for a task, two consumers for an event, two calls for a version. Two of
each, and a third that comes after, cover them. Three events allow a hand-off, a
duplicate of it and the follow-up of either, in overlapping batches; a batch of
2 has a first event, which is looked at outside the transaction, and another,
which is not. Two worktrees suffice for two tasks that are run once. Three
requests in `workspace_requests` make a runner fail, open its task again and
finish it while it fails. Three handles allow two workers beside one that was dropped. `MaxFaults = 1` puts a single
failure at every point: nothing in the code reacts to failures in pairs. In the
gateway, three runs of a session are one that runs, one that is next and one
that waits behind it, and a second restart meets what the first carried over; a
queue of two that gets four messages overflows twice, once under its drain; two
runners are one before and one after a restart; two passes beside a sender let
any two of them hold a file, and `MaxRetries = 2` has an error behind a send
followed by another attempt before the retries end, which a sender and two passes
reach. Two deliveries and two passes meet only while nothing went wrong beyond one
failed send (`DeliveriesBounded`): from the first error behind a send, failed call of
the file system, abort or second failure on, there is one pass or one delivery, since
deliveries share only the order in which a pass takes them. A call that finds the answer of another, and one that races
with it, are two calls under one key. Runs that show safety only use symmetry in
ids that nothing compares or chooses among, which is sound there; runs with
liveness use none. The system may stop when the bounds are used up, so no run
checks deadlock; that something goes on is the liveness properties' business.

Some of these properties have an exception, named by a history variable
(`carried`, `missed`, `marks`, `belated`, `swallowed`, `overlapped`,
`disturbed`, `late`, `dropped`, `raced`, `crossed`): the code does not keep the plain
property, and the weaker one says that this happens in those ways and in no
other. The plain ones are in the table further down.

*Fairness.* `TaskHandoff!FairSpec`: requests that were begun are served, and a
worker's loop goes on, because a timer drives it. Operators owe nothing: where a
property needs consumption to be asked for again, it says so itself
(`ConsumeAsked`). `ExecutionWorkspace!FairSpec`: an operation goes on once
begun; nothing makes a runner claim. `WorkerPool!PoolFairness`: the timer ticks,
requests for the routing are answered or fail, passes end, since a subagent run
has a timeout. `ReviewLoop!ReviewFairness`: the runner is called until it is idle,
which is what the verification script does
(in `MCCoordination` where the review loop is the part that moves). `CommandLanes!LanesFairness`: runs
end, by their timeout at the latest; the drain has a timeout of its own; a
server that is started is up or has failed some time. `FollowupQueue`'s: runs
end and it is quiet some time, and a followup that is tried again and again does
not fail every time (strong fairness: each failure takes it back). `HeartbeatWake`'s:
timers fire, and the handler does not raise every time, since the runner catches
the errors of a heartbeat. Deaths, faults, messages, requests and restarts are
never fair.

Every property of a passing run comes with a mutant in `PROJECT.json`, a
plausible bug of the code (the definition beside the original, headed
*Mutant:*), under which that run fails.

## Proofs

TLAPS proves the following for any number of processes, tasks, events, versions,
messages and failures. The properties are those of the runs, so each theorem says
for every instance what a run shows on a small one.

| Module | Theorems | Where |
|---|---|---|
| `TaskHandoff_proofs` | `TypeCorrect` (`TypeOK`), `ClaimsExclusive` (`OneClaimPerOpening`), `HandoffsWhole` (`DownstreamCommitted`) | always |
| | `RunnersOwnTasks` (`RunnerOwnsTask`), `BoardImplemented` (`ImplementsBoard`), `DoneIsFinal` (`DoneStaysDone`) | `LeftAlone` |
| | `HandoffsAccounted` (`HandoffAccounted`) | `OnlyReportsFinish` |
| `ExecutionWorkspace_proofs` | `HooksAreAccounted` (`HooksAccounted`), `AgentsAreReleased` (`AgentReleased`) | always |
| | `HooksAreTrue` (`HooksTrue`) | `NoHookRequests` |
| | `WorkspaceIsSound` (`WorkspaceSound`) | `Alone` |
| `Coordination_proofs` | `PoolIsSound` (`PoolSound`), `LoopInSingleFile` (`SingleFile`) | always |
| | `LoopIsInOrder` (`LoopInOrder`) | `OneRunner` |
| `PackageStore_proofs` | `TypeCorrect`, `ManifestsExist`, `OnlySharedDisagree` (`UnsharedAgrees`), `ImplementsLog`: the package store implements `PackageLog` | always |
| `Records_proofs` | `MessagesAreSound`, `ReceiptsAreKept`, `ArtifactsAreSound`, `UnracedMovesAreLegal` | always |
| `Gateway_proofs` | `WakesAreHeld`, `BatchesComeApart`, `RunsAreExplained`, `WaitersAreServed` | always |
| `DeliveryQueue_proofs` | `DeliveriesAreKept`, `OutboxImplemented` (`ImplementsOutbox`): the delivery queue implements `Outbox` | always |
| `Queues_proofs` | `EntriesAreServed` (`EntriesServed`), `SessionsTakeTurns` (`SessionsInTurn`), `DrainsAreSound` (`DrainsSound`), `TurnsImplemented` (`ImplementsTurns`): the command lanes implement `SessionTurns` | always |

*Assumptions.* Those the modules make of their constants. Three were added for the
proofs. `NoQueue` is not a queue, which TLC takes for granted of a model value. The
processes of `ExecutionWorkspace` and the recovery passes of `DeliveryQueue` are
finitely many, because both invariants count them; in the code they are threads of
a process and starts of a server. That the events of
`TaskHandoff` are finitely many is not needed, because what is counted is finite in
every state.

*Hypotheses.* Some properties hold only where operators keep to their part, and
the theorem says where. Each hypothesis is a predicate of the constants that the
configuration of the run satisfies.

- `LeftAlone`: operators write no status themselves and post no event that does
  (`agent_blocked`, `task_retry_requested`, `task_requeued`); they may create
  tasks, post completion events twice and consume whenever they like. Without it a
  status that was validated against `in_progress` overwrites `done` (the table
  below), and even a late `agent_blocked`, applied after its task was taken up
  again, takes it from its worker.
- `OnlyReportsFinish`: no operator writes `done` by hand, which is a request like
  any other, emits nothing and so finishes a task without its event.
- `NoHookRequests`: nobody asks for a completion hook by itself. Where somebody
  does, its rows are still accounted for, but not in order.
- `Alone`: one runner, and requests that set a status other than `done`. Each part
  is needed for `OutputKept`: a prepare asked for by an operator, or by a second runner
  that claims a task requeued under the first, removes the folder the first writes to
  (the table below); and `done` by hand under a pass runs the pipeline, whose cleanup
  removes what the pass wrote after the merge.
- `OneRunner`: two reviews under way at once count the same reports (the table below).

*TaskHandoff, the tables.* `DownstreamCommitted` speaks of the committed rows, but a
commit publishes the rows of the open transaction, so `IInv` has `HandoffWhole` for
`store` and for `work`. A batch applies events it fetched long ago and, for the
first, decisions it took from rows that may have changed since. What keeps that
from doing harm: rows are never deleted and payloads never change (`Extended`),
so whatever a process remembers is still there (`CallSound`), and a task that
exists makes the insertion fail by its primary key (`Raises`), so the task, the
message and the mark of an event appear together or not at all. For claims,
`ClaimsSound` adds that a claimable task has no holder: the UPDATE of
`claim_next_task` tests the status again. The proof has one lemma per action.
Those for the many actions that change a request's locals only, work inside a
transaction, or publish the tables rest on `CallStep`, `TransactionStep` and
`PublishStep`; what each statement does to the tables is said once, by lemmas on
the operators (`...Type`, `...Fields`, `...Extends`, `...Whole`).

*TaskHandoff, ownership and refinement.* That a runner owns its task says nothing
of the requests that could take it away. `HeldInv` says it of each request under
way (`Holds`): whoever is about to write a status holds the task, and the task is
in the status the request takes it for, although that was read in an earlier
transaction. What another process can do meanwhile is bounded by `Advanced`: the
batch of the open transaction creates tasks and delivers events, and changes no
other status. An event that blocks a task finds it blocked already (`BlocksTold`),
since the report wrote the status before it emitted the event. On `HeldInv` every
step moves a task along the table, creates it from its event, posts or delivers
events, or changes nothing the board shows: `BoardImplemented`. `DoneIsFinal` is
about the steps of the same kind.

*TaskHandoff, accounting.* `HandoffAccounted` compares numbers: finished tasks are at
most the completion events, the reports between their two commits and the deaths
there. `AccountInv` adds what keeps each action within one of them: a batch
finishes no task, whoever writes `done` is a worker that will emit a completion
event (`Reports`), and the sets counted are finite.

*ExecutionWorkspace.* Hook rows are shared by every pipeline of a task, so a row
does not tell whose it is. `HooksInv` counts: the rows of a hook that are running are at
least the calls inside it, and at most those and the faults (`HooksCounted`); and a
hook was completed, or is still owed by a call, at most as often as the one before
it was completed (`HooksPaired`). `AgentsInv` adds which passes have marked their agent as
executing and not yet said otherwise (`Marked`). `KeptInv` is for one runner: where
its folder's only copy is at each step (`PassSound`), and, while nothing raises by
itself, in which of two rows that belong together it is (`RowsStory`). A step is
seen in what it does to the call of the process that takes it, so that most actions
rest on a few lemmas about opening a hook, completing one or dropping what was
under way.

*Coordination.* `PoolInv` adds to `PoolSound` which loops may go on outside the pool
(`Leaving`): those that left when it shrank, and while a stop waits, those it waits
for. `FileInv` says what a pass knows of its task, that it is in progress and its
alone, and that while nobody posts tasks the one that is open has all it builds on
(`Supplied`): what a role needs is what the role before it needed and what that
made (`NeedsMet`), and the pass registers before it completes. It holds for any
number of runners. `RoundsInv` adds that a review under way was decided by the
reports there are; a second runner breaks that. `ScriptInv` says how far a loop
nobody disturbs has come: its tasks are the first of a script of twelve, in which
the four decisions follow each other, all but the last are done, each has made its
artifact, and the agents behind the loop are idle (`AtRest`). Each task is made by the
event of the one before it (`ScriptFollows`), so where no task is left to claim the
script is at its end.

*PackageStore.* The inductive invariant says that the rows' versions are
`1..Len`, so `NextVersion` is `Len + 1`; that a call's version is at most that;
that a call about to insert a row nobody has inserted yet has written its
manifest; and that a version two calls hold is recorded in `shared`. The
refinement follows: an insertion that succeeds is an `Append`, everything else a
stutter.

*Records.* A reader writes a row as it was some time ago. `MessageInv` says of each
reader under way that its row is nested, that unless requests crossed it is the
one that is there, and that somebody is still to tell of a change nobody has told
of. `ArtifactInv` says the same of versions that are taken and not yet inserted,
and of moves.

*Gateway.* `WakeInv` has, beside its properties, what a batch took and has still to
come to, and that one batch runs unless a runner was replaced under it. `AgentInv`
ties the dedupe entry, the snapshot and the grace timer to the runs and to what
each waiter was told. `DeliveryInv` is mostly about deliveries that are not
`disturbed`: one actor at most has such a delivery in hand, so its file says what
was done; each of its sends but one is paid for by an error behind it, and once there is one
that is not, only whoever acknowledges it has it (`SendsPaid`); and it counts the sends that
are left (`TriesLeft`). A failed call of the file system disturbs the delivery whose file
it left as it was, except where the call loads files, removes a marker or moves a file to
the failed ones, which costs the invariant nothing. For `OutboxImplemented`
the file system is hidden: a delivery is kept while it has a file, and sends, errors behind
them, failures and excuses are the events an outbox shows. What has to be proved of each step
is that the actor that sends or gives up an undisturbed delivery has it in hand alone,
so that it is kept, and not sent without an error behind it.

*Command lanes.* `LanesInv` says that the phase of a run tells in which queue it is
(`Placed`), that entries of a session are in their order in each queue, hence in no
place twice (`Ordered`), how far the runs behind one can have come (`Turns`), and
whose the slots are (`Slots`): a slot of the main lane is that of a run that
executes, and a run under way has the slot of its session unless a reset has
carried it over. `NoRoom` and `Awake` are `NoLaneSleeps` in two parts, because a step
goes through lanes where one of them does not hold yet: an entry was appended, or a
slot freed, and the lane is still to be pumped. The parts are predicates of a record
of lanes, and there is one lemma for each way the code changes one
(`PumpMainSound`, `PumpSessionSound`, `ResetSound`, ...). `PumpMain` starts as many
entries as there is room for, which is a prefix of the queue (`RoomIsPrefix`).
`SessionTurns` hides the main lane and the queues: a run has its turn from when it gets
the slot of its session until it is over. Beside `LanesInv`, by which such a run is in
the slot unless it was carried over, the proof needs `SlotsFaithful`: whoever is in
the slot has its turn and was not carried over. A step of the code that ends a run pumps its lane
in the same event, so that it is one step of the turns (`PumpSessionPasses`,
`FinishTurns`); a reset pumps every lane (`ResetTurns`).

*Followup queue.* `FollowupInv` has two parts. `Kept` says what the objects of the
session hold: nothing twice, nothing that another object holds, and only messages
whose fate says so (`Holding`, `Apart`); that the objects were made one after the
other, each for a message of its own (`MadeInTurn`), so that there is one left for
a message that finds none registered; that unless a drain that was over has deleted
the queue of another, all queued messages are in the registered object (`Reached`);
and that dropped messages on record have somebody to report them (`Reportable`).
`AllGiven` says that a run under way was given what is still in front of its queue,
unless messages were dropped under it or its queue was cleared: that is why
removing as many items as it was given removes those. The two are apart because a
step goes through objects of which only the first holds: `Kept` is preserved by
each piece a step is made of (`LeaveKeeps`, `ComeKeeps`, `UnregisterKeeps`,
`ScheduledKeeps`, `FinishDrainKeeps`, ...), and the actions compose them as the code does.

The inductive invariants were checked with TLC, in the runs of their properties,
before they were proved.

*Only model-checked.* Liveness, which needs fairness and `ENABLED`:
`ConsumingDrains`, `HandoffArrives`, `DoneIsCleaned`, `PoolConverges`, `StopReturns`,
`ReviewEnds`, `ReviewOutcome`, `RunsSettle`, `ServesAgain`, `QueuedDrains`,
`WakesRun`. Every other property of a passing run is stated by a theorem. Of
`ReviewOutcome` the safety half is proved, that the loop stops nowhere else
(`StopsAsExpected`); that it stops is left to TLC. What a recursive or inductive
definition computes for all inputs is out of the prover's reach; no module here has
one.

## What the code does not keep

Three disagreements between the code and what its documents say are findings,
with a run each: `event_stuck`, `manifest_overwritten`, `feedback_unread`.

The following properties are stated in the modules, but TLC finds each violated
in a run that is like one above, or is one of those. To see the trace, take the
configuration in the second column, change it as the third says, and check that
property alone.

| Property | Start from | Change | What happens |
|---|---|---|---|
| `NoDuplicateOpen` | `handoff_workers` | `RoleOf <- OneWorker`, `Worker = {w1}`, `Operator = {w2, o1}`, `MaxFaults = 0` | A consumer that fetched an event somebody else has consumed since, by reusing a task that is finished by now, finds no open task (`event_consumer.py:285`) and creates one beside that of a newer event. |
| `DoneStaysDone` | `handoff_workers` | `SeedTask = {t1}`, `Bootstrap = {t1}`, `WriteStatuses = {"retry"}` | An operator's retry validates against `in_progress`, the worker writes `done`, the retry overwrites it (`db.py:1610`). `docs/SCIAILAB_RULE_MATRIX.md:57` calls done final. |
| `ConsumingDrains` | `handoff_drain` | `PostTypes = {"agent_blocked"}` | An `agent_blocked` event for a finished task raises in every batch it is in (`event_consumer.py:338`). |
| `PipelineOnce` | `workspace_runs` | `Requests = {"done"}`, `MaxFaults = 0` | done after done is a legal transition and runs the pipeline again (`task_driver.py:31`). |
| `CleanedFinal` | `workspace_runs` | `Requests = {}` | A failure after the cleanup finalizes the removed workspace as blocked (`runner.py:630`). |
| `OutputKept` | `workspace_runs` | `Requests = {"prepare"}`, `MaxFaults = 0` | A prepare that found the folder missing removes the one that was made since (`worktree_manager.py:99`). |
| `RetryIsRun` | `workspace_runs` | `SPECIFICATION BusySpec`, `Requests = {"retry", "blocked"}` | The Python runner selects `todo` tasks only (`runner.py:56`); `docs/SCIAILAB_RULE_MATRIX.md:56` has retry tasks claimed again. |
| `ConcurrencyBound` | `coordination` | none | A pool that shrinks and grows again starts workers beside those still finishing (`coordinator-agent.ts:924`). |
| `RoundsInOrder` | `coordination` | `Runner = {r1, r2}` | Two reviews under way at once count the same reports (`runner.py:454`). |
| `ReviewOutcome` | `coordination` | `Runner = {r1, r2}`, `MaxPosts = 0` | The writer's late `idle` overwrites the `done` of the approval (`runner.py:438`). |
| `AgentAtWork` | `workspace_requests` | none | An operator blocks a task, so that its runner fails, and sets it in progress and done while it does; done cannot become blocked, the runner's report raises (`runner.py:636`), and the agent is left executing. |
| `MovesLegal` | `records` | none | Two moves validated against one state are both written (`db.py:1640`). |
| `OneRunPerSession` | `gateway` | none | A run that outlives the drain keeps running when the lanes are reset (`process/command-queue.ts:251`), and its session admits the next. `openclaw/docs/concepts/queue.md:20` promises "to guarantee only one active run per session". |
| `OneRunPerKey` | `gateway` | none | The entry of a run in flight is dropped after five minutes (`gateway/server-maintenance.ts:82`), or two calls look the key up before either writes it (`gateway/server-methods/agent.ts:231`). The comment at line 593 there says that retries do not spawn a second run. |
| `NoneMute` | `gateway` | none | The summary of what a full queue dropped is run in the place of its first message, which is removed unread (`auto-reply/reply/queue/drain.ts:144`). |
| `NeverRepeated` | `gateway` | none | A delivery is sent in full, the transcript of its session cannot be written (`infra/outbound/deliver.ts:764`), and the error is handled like one of sending: the file stays, and the next recovery sends the message again, with no crash and no overlap. |
| `ReportedKept` | `gateway` | none | A best-effort delivery whose failure its sender was told of is kept for a retry, as the comment at `infra/outbound/deliver.ts:497` has it; the recovery that retries it does not hear of failures and acknowledges it. |

One more difference needs no model: `scripts/verify_coordinator_pipeline.py:122`
expects three package types; the completion hooks add `execution_checkpoint` and
`merge_bundle`.

## Not modelled

- *Provider observability* counts events that only the UI displays. Concurrent
  events are lost (`db.py:2424`), so nothing stronger than the types of the
  counters holds of them, and nothing decides on them.
- *Auth profiles* and the API-key flow are rows, and a key in a foreign store,
  that one operator writes one after the other; writing again repairs a half.
- *Project creation*, agent threads and uploads are sequences of inserts; what
  remains of them that other parts depend on is in initial states and operators'
  actions.
- Of the research runtime's API: a status written without consuming events
  afterwards (`api/app.py`, `POST /v1/tasks/status`), and agent states that operators
  set directly. A worker's approval always names the writer as the agent that is done.
- The first start of the gateway's server: `CommandLanes` begins with one that is up,
  and has the start that follows each restart.
- Workspaces prepared without a task, which share one folder per owner.
- The *OpenClaw synchronisation* parses foreign formats behind a cache. The read
  model, the trace page and the web UI only read. The CLI worker and the
  plugin's tools pass one request on.
- *The rest of OpenClaw*: channels, agents, plugins, memory, configuration, apps.
  It is a program many times the size of the research runtime, which uses of it
  the gateway, its runs and its sessions. What is modelled is what a run of the
  plugin passes through and the queues beside it. Of those, left out are the
  lanes of cron jobs and subagents, which are like the main lane; recognising
  duplicate messages (`queue/enqueue.ts:27`); `chat.send` under the id of an
  agent run; the bound on the size of the dedupe map.

## Plan

Done: the models of `TaskHandoff` with `TaskBoard`, `ExecutionWorkspace`, `WorkerPool`,
`ReviewLoop`, `PackageStore` with `PackageLog`, `ArtifactStore`, `MessageHandoff`,
and of the gateway `CommandLanes` with `SessionTurns`, `AgentRuns`, `FollowupQueue`,
`HeartbeatWake`, `DeliveryQueue` with `Outbox`; the safety proofs of all of these.

Next, extending the model: workspaces prepared without a task; a run of the
plugin from `AgentRuns` through `CommandLanes` as one composition.
