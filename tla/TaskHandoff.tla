---------------------------- MODULE TaskHandoff ----------------------------
(***************************************************************************)
(* The task, event, message and agent_states tables of one project, and    *)
(* the requests that read and write them: claiming a task, writing its     *)
(* status, emitting an event, consuming pending events.  Requests are      *)
(* served by a thread pool, so they interleave.                            *)
(*                                                                         *)
(* Grain of atomicity.  Python's sqlite3 opens a transaction before the    *)
(* first INSERT or UPDATE of a `with connect(...)` block and commits at    *)
(* its end.  A SELECT before that point sees the last commit and protects  *)
(* nothing: it is an action of its own.  A transaction holds the only      *)
(* write lock (`writer') and works on a copy (`work') of the committed     *)
(* rows (`store') until it commits or rolls back.  A request that writes   *)
(* with one statement is a transaction of one action.                      *)
(***************************************************************************)
EXTENDS Naturals, FiniteSets, TaskLifecycle, EventRouting

CONSTANTS
    Worker,       \* coordinator workers of the OpenClaw service (agent mode)
    Operator,     \* every other caller: web UI, tools, gateway, CLI worker
    RoleOf,       \* the role each worker claims tasks for
    SeedTask,     \* tasks made by create_project or POST /v1/tasks
    Bootstrap,    \* the seed tasks that exist initially
    Event,        \* event ids, each drawn once by uuid4
    Ref,          \* package and artifact ids an event payload can carry
    Limit,        \* consume limit, SCIAILAB_EVENT_CONSUME_LIMIT
    PostTypes,    \* event types operators post
    WriteStatuses,\* statuses operators write without an event
    MaxFaults,    \* bound: requests that die half-way
    None          \* absent id

Proc == Worker \cup Operator

\* A downstream task is named after the event that created it.
TaskId == SeedTask \cup Event

ASSUME ConstantsAssumption ==
    /\ RoleOf \in [Worker -> Role]
    /\ Bootstrap \subseteq SeedTask
    /\ Worker \cap Operator = {}
    /\ SeedTask \cap Event = {}
    /\ None \notin TaskId \cup Ref \cup Proc \cup Role
    /\ Limit \in Nat \ {0}
    /\ MaxFaults \in Nat

ASSUME StatusesAssumption == WriteStatuses \subseteq TaskStatus

-----------------------------------------------------------------------------
(* Rows.  A payload keeps the fields the consumer looks at: the package or *)
(* artifact it refers to, the task it is about, the agent it is about.     *)

TaskRow  == [status : TaskStatus \cup {"absent"}, owner : Role, ref : Ref \cup {None}]
Payload  == [type : EventType, ref : Ref \cup {None}, task : TaskId \cup {None},
             agent : Role \cup {None}]
EventRow == [status : {"absent", "pending", "consumed", "ignored"},
             body : Payload, at : Nat]
AgentRow == [state : AgentState, task : TaskId \cup {None}]

\* emitted numbers the events: created_at, ties kept in insertion order.
Database == [task : [TaskId -> TaskRow], event : [Event -> EventRow],
             message : SUBSET Event, agent : [Role -> AgentRow], emitted : Nat]

NoPayload == [type |-> "other", ref |-> None, task |-> None, agent |-> None]
NoTask    == [status |-> "absent", owner |-> "explorer", ref |-> None]
NoEvent   == [status |-> "absent", body |-> NoPayload, at |-> 0]

(* What a process is doing, and the locals of its request.                 *)
Step == {"idle", "claim", "start", "run", "read", "write", "emit", "fetch",
         "peek", "begin", "apply", "settle"}
Call == [step  : Step,
         task  : TaskId \cup {None},       \* the task the request is about
         goal  : {"none", "done", "blocked"},  \* what a worker reports
         next  : TaskStatus,               \* the status to write
         body  : Payload,                  \* the event to emit ...
         emits : BOOLEAN,                  \* ... if there is one
         batch : SUBSET Event,             \* fetched events not yet applied
         first : Event \cup {None},        \* the event peeked at before BEGIN
         open  : BOOLEAN,                  \* what the peek saw: a reusable task,
         seen  : TaskStatus \cup {"absent"}]  \* and the status of the event's task

IdleCall == [step |-> "idle", task |-> None, goal |-> "none", next |-> "todo",
             body |-> NoPayload, emits |-> FALSE, batch |-> {}, first |-> None,
             open |-> FALSE, seen |-> "absent"]

VARIABLES
    store,    \* the committed tables
    work,     \* the tables as the open transaction sees them; else = store
    writer,   \* the process inside a transaction, or None
    call,     \* per process, the request in progress
    holders,  \* history: who claimed a task since it was last opened
    faults    \* history: requests that died half-way

vars == <<store, work, writer, call, holders, faults>>

TypeOK ==
    /\ store \in Database
    /\ work \in Database
    /\ writer \in Proc \cup {None}
    /\ call \in [Proc -> Call]
    /\ holders \in [TaskId -> SUBSET Worker]
    /\ faults \in Nat

-----------------------------------------------------------------------------
(* Statements on a copy of the tables.                                     *)

SetStatus(db, t, status) == [db EXCEPT !.task[t].status = status]

SetAgent(db, agent, state, task) ==
    [db EXCEPT !.agent[agent] = [state |-> state, task |-> task]]

InsertTask(db, t, owner, ref) ==
    [db EXCEPT !.task[t] = [status |-> "todo", owner |-> owner, ref |-> ref]]

InsertEvent(db, e, body) ==
    [db EXCEPT !.event[e] = [status |-> "pending", body |-> body, at |-> db.emitted],
               !.emitted = @ + 1]

\* Mutant: a consumed event is given a status the schema does not have.
MarkedDone(db, e) == [db EXCEPT !.event[e].status = "done"]

Marked(db, e) ==
    [db EXCEPT !.event[e].status =
        IF db.event[e].body.type = "other" THEN "ignored" ELSE "consumed"]

Pending(db) == {e \in Event : db.event[e].status = "pending"}

Before(db, d, e) == db.event[d].at < db.event[e].at

\* SELECT ... WHERE status = 'pending' ORDER BY created_at LIMIT.
Oldest(db) ==
    {e \in Pending(db) : Cardinality({d \in Pending(db) : Before(db, d, e)}) < Limit}

IsFirst(db, e, batch) == e \in batch /\ \A d \in batch : ~Before(db, d, e)

-----------------------------------------------------------------------------
(* The event handlers.  open and seen are what the handler's own SELECTs   *)
(* returned: is there a task to reuse, and the status of the event's task. *)

Reusable(db, e) ==
    LET body == db.event[e].body IN
    /\ body.type \in DownstreamType
    /\ body.ref # None
    /\ \E t \in TaskId : /\ db.task[t].status \in Open
                         /\ db.task[t].owner = DownstreamOwner[body.type]
                         /\ db.task[t].ref = body.ref

StatusSeen(db, e) ==
    LET t == db.event[e].body.task IN IF t = None THEN "absent" ELSE db.task[t].status

\* Mutant: INSERT OR REPLACE, no primary key violation.
RaisesNoKey(db, e, open, seen) ==
    /\ db.event[e].body.type = "agent_blocked"
    /\ db.event[e].body.task # None
    /\ ~ValidTransition(seen, "blocked")

\* Mutant: blocking a task that is already blocked is an error.
RaisesIfBlocked(db, e, open, seen) ==
    \/ db.event[e].body.type = "agent_blocked" /\ seen \in {"blocked", "done", "absent"}
    \/ db.event[e].body.type \in DownstreamType /\ ~open /\ db.task[e].status # "absent"

\* The handler raises: a primary key or foreign key is violated, the
\* transition is not allowed, or the payload names no task.
Raises(db, e, open, seen) ==
    LET body == db.event[e].body IN
    \/ /\ body.type \in DownstreamType
       /\ ~open
       /\ db.task[e].status # "absent"
    \/ /\ body.type = "agent_blocked"
       /\ body.task # None
       /\ ~ValidTransition(seen, "blocked")
    \/ body.type = "task_retry_requested" /\ ~ValidTransition(seen, "retry")
    \/ body.type = "task_requeued" /\ ~ValidTransition(seen, "todo")

\* Mutant: the hand-off message is forgotten.
CreateDownstreamSilently(db, e) ==
    LET owner == DownstreamOwner[db.event[e].body.type]
    IN  SetAgent(InsertTask(db, e, owner, db.event[e].body.ref), owner,
                 DownstreamState(db.event[e].body.type), e)

CreateDownstream(db, e) ==
    LET body  == db.event[e].body
        owner == DownstreamOwner[body.type]
    IN  [SetAgent(InsertTask(db, e, owner, body.ref), owner, DownstreamState(body.type), e)
            EXCEPT !.message = @ \cup {e}]

BlockAgent(db, body, seen) ==
    LET blocked == IF body.task = None \/ seen = "blocked"
                   THEN db ELSE SetStatus(db, body.task, "blocked")
    IN  SetAgent(blocked, body.agent, "blocked", body.task)

Handled(db, e, open, seen) ==
    LET body == db.event[e].body IN
    IF body.type \in DownstreamType THEN
        IF open THEN db ELSE CreateDownstream(db, e)
    ELSE CASE body.type = "agent_blocked"   -> BlockAgent(db, body, seen)
           [] body.type = "agent_recovered" -> SetAgent(db, body.agent, "idle", None)
           [] body.type = "task_retry_requested" ->
                SetAgent(SetStatus(db, body.task, "retry"),
                         db.task[body.task].owner, "planning", None)
           [] body.type = "task_requeued" ->
                SetAgent(SetStatus(db, body.task, "todo"),
                         db.task[body.task].owner, "planning", body.task)
           [] body.type = "review_approved" /\ body.agent # None ->
                SetAgent(db, body.agent, "done", None)
           [] OTHER -> db

\* Mutant: the event is left pending.
AppliedUnmarked(db, e, open, seen) == Handled(db, e, open, seen)

Applied(db, e, open, seen) == Marked(Handled(db, e, open, seen), e)

-----------------------------------------------------------------------------
(* Transactions.                                                           *)

Reopened(db) == {t \in TaskId : /\ db.task[t].status \in Claimable
                                /\ store.task[t].status \notin Claimable}

\* Make db the committed state.  A task that becomes claimable again is held
\* by nobody any more.
Publish(db) ==
    /\ store' = db
    /\ work' = db
    /\ writer' = None
    /\ holders' = [t \in TaskId |-> IF t \in Reopened(db) THEN {} ELSE holders[t]]

\* A transaction of one statement: it waits for the write lock.
Autocommit(db) == writer = None /\ Publish(db)

Rollback(p) ==
    IF writer = p THEN writer' = None /\ work' = store ELSE UNCHANGED <<writer, work>>

\* The request is answered.  Workers go on to set their agent's state.
Returned(p) ==
    IF call[p].goal = "none" THEN IdleCall
    ELSE [IdleCall EXCEPT !.step = "settle", !.task = call[p].task, !.goal = call[p].goal]

\* blockTask: report the task as blocked, with an agent_blocked event.
BlockCall(w, t) ==
    [IdleCall EXCEPT
        !.step = "read", !.task = t, !.goal = "blocked", !.next = "blocked", !.emits = TRUE,
        !.body = [type |-> "agent_blocked", ref |-> None, task |-> t, agent |-> RoleOf[w]]]

\* The request raised.  A worker that was reporting success now reports its
\* task as blocked; an exception while it does so only ends the pass.
Raised(p) == IF call[p].goal = "done" THEN BlockCall(p, call[p].task) ELSE IdleCall

Goto(p, c) == call' = [call EXCEPT ![p] = c]
At(p, step) == [call[p] EXCEPT !.step = step]

-----------------------------------------------------------------------------
Init ==
    /\ store = [task    |-> [t \in TaskId |-> IF t \in Bootstrap
                                             THEN [NoTask EXCEPT !.status = "todo"] ELSE NoTask],
                event   |-> [e \in Event |-> NoEvent],
                message |-> {},
                agent   |-> [a \in Role |->
                               IF a = "explorer" /\ Bootstrap # {}
                               THEN [state |-> "planning", task |-> CHOOSE t \in Bootstrap : TRUE]
                               ELSE [state |-> "absent", task |-> None]],
                emitted |-> 0]
    /\ work = store
    /\ writer = None
    /\ call = [p \in Proc |-> IdleCall]
    /\ holders = [t \in TaskId |-> {}]
    /\ faults = 0

-----------------------------------------------------------------------------
(* A worker's pass: claim a task, run it, report it.                       *)

\* The SELECT of claim_next_task.  The code takes the oldest candidate; the
\* model takes any.
SelectTask(w) ==
    /\ call[w].step = "idle"
    /\ \E t \in TaskId :
          /\ store.task[t].owner = RoleOf[w]
          /\ store.task[t].status \in Claimable
          /\ Goto(w, [IdleCall EXCEPT !.step = "claim", !.task = t])
    /\ UNCHANGED <<store, work, writer, holders, faults>>

\* Mutant: the UPDATE does not test the status again.
ClaimTaskBlindly(w) ==
    /\ call[w].step = "claim"
    /\ writer = None
    /\ store' = SetStatus(store, call[w].task, "in_progress")
    /\ work' = store'
    /\ holders' = [holders EXCEPT ![call[w].task] = @ \cup {w}]
    /\ Goto(w, [At(w, "start") EXCEPT !.goal = "done"])
    /\ UNCHANGED <<writer, faults>>

\* Its UPDATE, which tests the status again.
ClaimTask(w) ==
    LET t == call[w].task IN
    /\ call[w].step = "claim"
    /\ writer = None
    /\ IF store.task[t].status \in Claimable
       THEN /\ store' = SetStatus(store, t, "in_progress")
            /\ work' = store'
            /\ holders' = [holders EXCEPT ![t] = @ \cup {w}]
            /\ Goto(w, [At(w, "start") EXCEPT !.goal = "done"])
       ELSE Goto(w, IdleCall) /\ UNCHANGED <<store, work, holders>>
    /\ UNCHANGED <<writer, faults>>

StartTask(w) ==
    /\ call[w].step = "start"
    /\ Autocommit(SetAgent(store, RoleOf[w],
                           IF RoleOf[w] = "reviewer" THEN "review_pending" ELSE "executing",
                           call[w].task))
    /\ Goto(w, At(w, "run"))
    /\ UNCHANGED faults

\* The subagent finished: report the task as done, with the role's event.
ReportDone(w) ==
    /\ call[w].step = "run"
    /\ \E type \in CompletionTypes(RoleOf[w]), ref \in Ref :
          Goto(w, [At(w, "read") EXCEPT
                     !.next = "done", !.emits = TRUE,
                     !.body = [type |-> type, ref |-> ref, task |-> None,
                               agent |-> IF type = "review_approved" THEN "writer" ELSE None]])
    /\ UNCHANGED <<store, work, writer, holders, faults>>

\* The subagent failed or timed out, or a request before it did.
TaskFails(w) ==
    /\ call[w].step \in {"start", "run"}
    /\ Goto(w, BlockCall(w, call[w].task))
    /\ UNCHANGED <<store, work, writer, holders, faults>>

\* After its report a worker sets its agent's state.
Settle(w) ==
    /\ call[w].step = "settle"
    /\ Autocommit(IF call[w].goal = "done"
                  THEN SetAgent(store, RoleOf[w], "idle", None)
                  ELSE SetAgent(store, RoleOf[w], "blocked", call[w].task))
    /\ Goto(w, IdleCall)
    /\ UNCHANGED faults

-----------------------------------------------------------------------------
(* complete_task_and_emit: write the status, emit the event, consume.  The *)
(* three are separate connections, hence separate transactions.            *)

\* update_task_status: SELECT the task and validate the transition ...
ReadStatus(p) ==
    /\ call[p].step = "read"
    /\ Goto(p, IF ValidTransition(store.task[call[p].task].status, call[p].next)
               THEN At(p, "write") ELSE Raised(p))
    /\ UNCHANGED <<store, work, writer, holders, faults>>

\* Mutant: no event follows the status.
WriteStatusOnly(p) ==
    /\ call[p].step = "write"
    /\ Autocommit(SetStatus(store, call[p].task, call[p].next))
    /\ Goto(p, Returned(p))
    /\ UNCHANGED faults

\* ... then UPDATE it, whatever its status is by now.
WriteStatus(p) ==
    /\ call[p].step = "write"
    /\ Autocommit(SetStatus(store, call[p].task, call[p].next))
    /\ Goto(p, IF call[p].emits THEN At(p, "emit") ELSE Returned(p))
    /\ UNCHANGED faults

EmitEvent(p) ==
    /\ call[p].step = "emit"
    /\ \E e \in Event :
          /\ store.event[e].status = "absent"
          /\ Autocommit(InsertEvent(store, e, call[p].body))
    /\ Goto(p, At(p, "fetch"))
    /\ UNCHANGED faults

\* consume_pending_events reads its whole batch before it holds any lock.
FetchEvents(p) ==
    /\ call[p].step = "fetch"
    /\ Goto(p, IF Oldest(store) = {} THEN Returned(p)
               ELSE [At(p, "peek") EXCEPT !.batch = Oldest(store)])
    /\ UNCHANGED <<store, work, writer, holders, faults>>

\* The SELECTs of the first event's handler come before the first write too.
PeekFirst(p) ==
    /\ call[p].step = "peek"
    /\ \E e \in call[p].batch :
          /\ IsFirst(store, e, call[p].batch)
          /\ Goto(p, [At(p, "begin") EXCEPT !.first = e, !.open = Reusable(store, e),
                                            !.seen = StatusSeen(store, e)])
    /\ UNCHANGED <<store, work, writer, holders, faults>>

\* Its first write opens the transaction.
BeginBatch(p) ==
    LET c == call[p] IN
    /\ c.step = "begin"
    /\ writer = None
    /\ IF Raises(store, c.first, c.open, c.seen)
       THEN Goto(p, Raised(p)) /\ UNCHANGED <<writer, work>>
       ELSE /\ writer' = p
            /\ work' = Applied(store, c.first, c.open, c.seen)
            /\ Goto(p, [At(p, "apply") EXCEPT !.batch = @ \ {c.first}])
    /\ UNCHANGED <<store, holders, faults>>

\* The other events of the batch, one by one, inside the transaction.
ApplyEvent(p) ==
    /\ call[p].step = "apply"
    /\ \E e \in call[p].batch :
          LET open == Reusable(work, e)
              seen == StatusSeen(work, e)
          IN  /\ IsFirst(work, e, call[p].batch)
              /\ IF Raises(work, e, open, seen)
                 THEN Goto(p, Raised(p)) /\ Rollback(p)
                 ELSE /\ work' = Applied(work, e, open, seen)
                      /\ Goto(p, [call[p] EXCEPT !.batch = @ \ {e}])
                      /\ UNCHANGED writer
    /\ UNCHANGED <<store, holders, faults>>

CommitBatch(p) ==
    /\ call[p].step = "apply"
    /\ call[p].batch = {}
    /\ Publish(work)
    /\ Goto(p, Returned(p))
    /\ UNCHANGED faults

-----------------------------------------------------------------------------
(* Requests of everybody else.                                             *)

\* POST /v1/events, which consumes after it emits.  Any caller may name any
\* task: one somebody works on, or one that does not exist (yet).
PostedBody ==
    LET Of(types, refs, tasks, agents) ==
          [type : types \cap PostTypes, ref : refs, task : tasks, agent : agents]
    IN  UNION {Of(DownstreamType, Ref \cup {None}, {None}, {None}),
               Of({"agent_blocked"}, {None}, TaskId \cup {None}, Role),
               Of({"task_retry_requested", "task_requeued"}, {None}, TaskId, {None}),
               Of({"agent_recovered", "review_approved"}, {None}, {None}, Role),
               Of({"other"}, {None}, {None}, {None})}

PostEvent(o) ==
    /\ call[o].step = "idle"
    /\ \E body \in PostedBody :
          Goto(o, [IdleCall EXCEPT !.step = "emit", !.body = body])
    /\ UNCHANGED <<store, work, writer, holders, faults>>

\* POST /v1/events/consume.
PostConsume(o) ==
    /\ call[o].step = "idle"
    /\ Goto(o, [IdleCall EXCEPT !.step = "fetch"])
    /\ UNCHANGED <<store, work, writer, holders, faults>>

\* POST /v1/tasks/status without an event, and the retry and mark_blocked
\* actions of an agent's workspace page.
PostStatus(o) ==
    /\ call[o].step = "idle"
    /\ \E t \in TaskId, status \in WriteStatuses :
          /\ store.task[t].status # "absent"
          /\ Goto(o, [IdleCall EXCEPT !.step = "read", !.task = t, !.next = status])
    /\ UNCHANGED <<store, work, writer, holders, faults>>

\* POST /v1/tasks, with any status.
PostTask(o) ==
    /\ call[o].step = "idle"
    /\ \E t \in SeedTask, owner \in Role, ref \in Ref \cup {None},
          status \in WriteStatuses \cup {"todo"} :
          /\ store.task[t].status = "absent"
          /\ Autocommit(SetStatus(InsertTask(store, t, owner, ref), t, status))
    /\ UNCHANGED <<call, faults>>

-----------------------------------------------------------------------------
(* Failures.  The bound MaxFaults keeps them few.                          *)

\* A request fails for a reason outside the tables: the server stops, the
\* write lock cannot be had in time, the answer is lost.
RequestDies(p) ==
    /\ faults < MaxFaults
    /\ call[p].step \notin {"idle", "run"}
    /\ Rollback(p)
    /\ Goto(p, IF call[p].step = "start" THEN BlockCall(p, call[p].task) ELSE Raised(p))
    /\ faults' = faults + 1
    /\ UNCHANGED <<store, holders>>

\* The worker's process stops between two requests and restarts idle.
WorkerDies(w) ==
    /\ faults < MaxFaults
    /\ call[w].step \in {"start", "run", "settle"}
    /\ Goto(w, IdleCall)
    /\ faults' = faults + 1
    /\ UNCHANGED <<store, work, writer, holders>>

-----------------------------------------------------------------------------
Pass(w) == \/ SelectTask(w) \/ ClaimTask(w) \/ StartTask(w) \/ ReportDone(w)
           \/ TaskFails(w) \/ Settle(w)

Serve(p) == \/ ReadStatus(p) \/ WriteStatus(p) \/ EmitEvent(p) \/ FetchEvents(p)
            \/ PeekFirst(p) \/ BeginBatch(p) \/ ApplyEvent(p) \/ CommitBatch(p)

Post(o) == \/ PostEvent(o) \/ PostConsume(o) \/ PostStatus(o) \/ PostTask(o)

Next ==
    \/ \E p \in Proc : Serve(p)
    \/ \E w \in Worker : Pass(w)
    \/ \E o \in Operator : Post(o)
    \/ \E p \in Proc : RequestDies(p)
    \/ \E w \in Worker : WorkerDies(w)

Spec == Init /\ [][Next]_vars

\* The timer of the service starts pass after pass, and requests are served:
\* nothing else has to happen.
Fairness ==
    /\ \A p \in Proc : WF_vars(Serve(p))
    /\ \A w \in Worker : WF_vars(Pass(w))

FairSpec == Spec /\ Fairness

-----------------------------------------------------------------------------
(* Safety.                                                                 *)

\* Between two openings of a task at most one worker claims it, whatever the
\* claims, status writes and deaths in between (claim_next_task).
OneClaimPerOpening == \A t \in TaskId : \A v, w \in holders[t] : v = w

\* A downstream task exists exactly when its hand-off message does, only for a
\* consumed event, and for the owner and package that event names: no batch
\* leaves half of a hand-off behind, however often its events are applied
\* (consume_pending_events).
HandoffWhole(db) ==
    \A e \in Event :
        /\ db.task[e].status # "absent" <=> e \in db.message
        /\ db.task[e].status # "absent" =>
              /\ db.event[e].status = "consumed"
              /\ db.event[e].body.type \in DownstreamType
              /\ db.task[e].owner = DownstreamOwner[db.event[e].body.type]
              /\ db.task[e].ref = db.event[e].body.ref

DownstreamCommitted == HandoffWhole(store)

\* While a worker runs a task and until its status is written, the task is in
\* progress: nobody else blocks, finishes or reopens it under the worker.
\* (Where operators leave other workers' tasks alone.)
RunnerOwnsTask ==
    \A w \in Worker :
        \/ call[w].step \in {"start", "run"}
        \/ call[w].goal = "done" /\ call[w].step \in {"read", "write"}
        => store.task[call[w].task].status = "in_progress"

\* A hand-off is lost only with a death between the commit of the status and
\* the commit of the event: otherwise every finished task has its completion
\* event (complete_task_and_emit).
CompletionEvent == UNION {CompletionTypes(r) : r \in Role}

HandoffAccounted ==
    LET finished  == {t \in TaskId : store.task[t].status = "done"}
        announced == {e \in Event : /\ store.event[e].status # "absent"
                                    /\ store.event[e].body.type \in CompletionEvent}
        emitting  == {w \in Worker : call[w].step = "emit" /\ call[w].next = "done"}
    IN  Cardinality(finished) <= Cardinality(announced) + Cardinality(emitting) + faults

\* No two open downstream tasks of one owner depend on the same package or
\* artifact (_find_existing_open_task).
\* The code does not keep this; the README has the steps that break it.
NoDuplicateOpen ==
    \A d, e \in Event :
        /\ store.task[d].status \in Open /\ store.task[e].status \in Open
        /\ store.task[d].ref = store.task[e].ref /\ store.task[d].ref # None
        /\ store.task[d].owner = store.task[e].owner
        => d = e

\* A finished task stays finished (state_machine.py: done has no successor).
DoneStaysDone ==
    [][\A t \in TaskId : store.task[t].status = "done" => store'.task[t].status = "done"]_vars

-----------------------------------------------------------------------------
(* The inductive invariant behind TypeOK, OneClaimPerOpening and           *)
(* DownstreamCommitted.                                                    *)

Exists(db, t) == db.task[t].status # "absent"
Posted(db, e) == db.event[e].status # "absent"

\* No row of old is missing from new, and events keep their payload.
Extended(old, new) ==
    /\ \A t \in TaskId : Exists(old, t) => Exists(new, t)
    /\ \A e \in Event : Posted(old, e) => Posted(new, e) /\ new.event[e].body = old.event[e].body

\* A status seen for an event's task was that of a task that exists.
SeenExists(db, e, seen) ==
    seen # "absent" => /\ db.event[e].body.task \in TaskId
                       /\ Exists(db, db.event[e].body.task)

\* What a process remembers of the tables is still there.
CallSound(c) ==
    /\ c.step \in {"claim", "start", "run", "read", "write"} => c.task \in TaskId
    /\ c.step = "write" => Exists(store, c.task)
    /\ c.step \in {"peek", "begin"} => \A e \in c.batch : Posted(store, e)
    /\ c.step = "begin" => /\ c.first \in Event
                           /\ Posted(store, c.first)
                           /\ SeenExists(store, c.first, c.seen)
    /\ c.goal # "none" => c.task \in TaskId

ClaimsSound ==
    /\ \A t \in TaskId : store.task[t].status \in Claimable => holders[t] = {}
    /\ OneClaimPerOpening

IInv ==
    /\ TypeOK
    /\ HandoffWhole(store)
    /\ HandoffWhole(work)
    /\ Extended(store, work)
    /\ \A p \in Proc : CallSound(call[p])
    /\ \A p \in Proc \ Worker : call[p].goal = "none" /\ call[p].step # "start"
    /\ ClaimsSound

-----------------------------------------------------------------------------
(* Liveness, under FairSpec.                                               *)

\* Every event is eventually consumed or ignored (consume_pending_events).
EventsConsumed ==
    \A e \in Event : store.event[e].status = "pending" ~> store.event[e].status # "pending"

\* If consume requests keep coming, every event is eventually consumed or
\* ignored: no event stays in the way for ever (consume_pending_events).
ConsumeAsked == \A o \in Operator : []<>(call[o].step = "fetch")

ConsumingDrains == ConsumeAsked => EventsConsumed

\* And every finished task is followed by its hand-off: in the end only deaths
\* make the hand-off messages fewer than the finished tasks, where no package
\* is handed over twice (complete_task_and_emit).
HandoffArrives ==
    ConsumeAsked =>
        \A n \in 1..Cardinality(TaskId) :
            Cardinality({t \in TaskId : store.task[t].status = "done"}) >= n
                ~> Cardinality(store.message) + faults >= n

-----------------------------------------------------------------------------
(* The abstract specification.                                             *)

Board == INSTANCE TaskBoard WITH
    status    <- [t \in TaskId |-> store.task[t].status],
    posted    <- {e \in Event : store.event[e].status # "absent"},
    delivered <- {e \in Event : store.event[e].status \in {"consumed", "ignored"}}

\* Workers, and consumers that apply an event twice or from stale reads, move
\* the tables only as TaskBoard allows, where nobody but the workers writes
\* statuses (update_task_status, consume_pending_events).
ImplementsBoard == Board!Spec

=============================================================================
