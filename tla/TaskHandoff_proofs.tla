------------------------ MODULE TaskHandoff_proofs ------------------------
(***************************************************************************)
(* Proofs about TaskHandoff, for any number of workers, operators, tasks,  *)
(* events and failures.  IInv is inductive; TypeOK, OneClaimPerOpening and *)
(* DownstreamCommitted are parts of it.  HeldInv adds what a runner knows  *)
(* of the task it holds, where operators leave the tasks of others alone:  *)
(* RunnerOwnsTask, ImplementsBoard and DoneStaysDone follow from it.       *)
(* AccountInv counts the finished tasks against the reports about them.    *)
(***************************************************************************)
EXTENDS TaskHandoff, FiniteSetTheorems, TLAPS

USE ConstantsAssumption DEF TaskId, Proc

-----------------------------------------------------------------------------
(* The statements keep the tables well typed.                              *)

LEMMA SetStatusType ==
    ASSUME NEW db \in Database, NEW t, NEW status \in TaskStatus
    PROVE  SetStatus(db, t, status) \in Database
<1> DEFINE rows == [db.task EXCEPT ![t].status = status]
<1>1. db.task \in [TaskId -> TaskRow]
      BY DEF Database
<1>2. [db.task[t] EXCEPT !.status = status] \in TaskRow \/ t \notin TaskId
      BY <1>1 DEF TaskRow
<1>3. rows \in [TaskId -> TaskRow]
      BY <1>1, <1>2
<1>4. SetStatus(db, t, status) = [db EXCEPT !.task = rows]
      BY DEF SetStatus
<1> HIDE DEF rows
<1> QED BY <1>3, <1>4 DEF Database

LEMMA SetAgentType ==
    ASSUME NEW db \in Database, NEW agent, NEW state \in AgentState,
           NEW task \in TaskId \cup {None}
    PROVE  SetAgent(db, agent, state, task) \in Database
BY DEF SetAgent, Database, AgentRow

LEMMA InsertTaskType ==
    ASSUME NEW db \in Database, NEW t, NEW owner \in Role, NEW ref \in Ref \cup {None}
    PROVE  InsertTask(db, t, owner, ref) \in Database
BY DEF InsertTask, Database, TaskRow, TaskStatus

LEMMA InsertEventType ==
    ASSUME NEW db \in Database, NEW e, NEW body \in Payload
    PROVE  InsertEvent(db, e, body) \in Database
<1> DEFINE row == [status |-> "pending", body |-> body, at |-> db.emitted]
           rows == [db.event EXCEPT ![e] = row]
           next == db.emitted + 1
<1>1. db.event \in [Event -> EventRow] /\ db.emitted \in Nat
      BY DEF Database
<1>2. row \in EventRow
      BY <1>1 DEF EventRow
<1>3. rows \in [Event -> EventRow]
      BY <1>1, <1>2
<1>4. InsertEvent(db, e, body) = [db EXCEPT !.event = rows, !.emitted = next]
      BY DEF InsertEvent
<1>5. next \in Nat
      BY <1>1
<1> HIDE DEF rows, next
<1> QED BY <1>3, <1>4, <1>5 DEF Database

LEMMA MarkedType ==
    ASSUME NEW db \in Database, NEW e \in Event
    PROVE  Marked(db, e) \in Database
<1> DEFINE status == IF db.event[e].body.type = "other" THEN "ignored" ELSE "consumed"
           row == [db.event[e] EXCEPT !.status = status]
           rows == [db.event EXCEPT ![e] = row]
<1>1. db.event \in [Event -> EventRow]
      BY DEF Database
<1>2. status \in {"consumed", "ignored"}
      OBVIOUS
<1> HIDE DEF status
<1>3. row \in EventRow
      BY <1>1, <1>2 DEF EventRow
<1> HIDE DEF row
<1>4. rows \in [Event -> EventRow]
      BY <1>1, <1>3
<1> HIDE DEF rows
<1>5. Marked(db, e) = [db EXCEPT !.event = rows]
      BY DEF Marked, rows, row, status
<1> QED BY <1>4, <1>5 DEF Database

LEMMA BodyType ==
    ASSUME NEW db \in Database, NEW e \in Event
    PROVE  /\ db.event[e].body \in Payload
           /\ db.event[e].body.ref \in Ref \cup {None}
           /\ db.event[e].body.task \in TaskId \cup {None}
BY DEF Database, EventRow, Payload

-----------------------------------------------------------------------------
(* What a handler can do to the tables.                                    *)

LEMMA HandledCases ==
    ASSUME NEW db \in Database, NEW e \in Event, NEW open \in BOOLEAN, NEW seen,
           NEW body, body = db.event[e].body
    PROVE  \/ Handled(db, e, open, seen) = db
           \/ /\ body.type \in DownstreamType /\ ~open
              /\ Handled(db, e, open, seen) = CreateDownstream(db, e)
           \/ /\ body.type = "agent_blocked"
              /\ Handled(db, e, open, seen) = BlockAgent(db, body, seen)
           \/ Handled(db, e, open, seen) = SetAgent(db, body.agent, "idle", None)
           \/ /\ body.type = "task_retry_requested"
              /\ Handled(db, e, open, seen) =
                    SetAgent(SetStatus(db, body.task, "retry"),
                             db.task[body.task].owner, "planning", None)
           \/ /\ body.type = "task_requeued"
              /\ Handled(db, e, open, seen) =
                    SetAgent(SetStatus(db, body.task, "todo"),
                             db.task[body.task].owner, "planning", body.task)
           \/ Handled(db, e, open, seen) = SetAgent(db, body.agent, "done", None)
<1>1. CASE body.type \in DownstreamType
      BY <1>1 DEF Handled
<1>2. CASE body.type \notin DownstreamType
      BY <1>2 DEF Handled
<1> QED BY <1>1, <1>2

LEMMA DownstreamFacts ==
    /\ \A type \in DownstreamType : DownstreamOwner[type] \in Role
    /\ \A type : DownstreamState(type) \in AgentState
    /\ ControlType \cap DownstreamType = {}
    /\ "other" \notin DownstreamType
BY DEF DownstreamType, DownstreamOwner, DownstreamState, AgentState, Role, ControlType

LEMMA CreateDownstreamType ==
    ASSUME NEW db \in Database, NEW e \in Event, db.event[e].body.type \in DownstreamType
    PROVE  CreateDownstream(db, e) \in Database
<1> DEFINE body == db.event[e].body
           owner == DownstreamOwner[body.type]
           made == SetAgent(InsertTask(db, e, owner, body.ref), owner,
                            DownstreamState(body.type), e)
<1>1. owner \in Role /\ DownstreamState(body.type) \in AgentState
      BY DownstreamFacts
<1>2. body.ref \in Ref \cup {None}
      BY BodyType
<1> HIDE DEF owner
<1>3. InsertTask(db, e, owner, body.ref) \in Database
      BY <1>1, <1>2, InsertTaskType
<1>4. made \in Database
      BY <1>1, <1>3, SetAgentType
<1>5. CreateDownstream(db, e) = [made EXCEPT !.message = @ \cup {e}]
      BY DEF CreateDownstream, owner
<1> HIDE DEF made
<1> QED BY <1>4, <1>5 DEF Database

LEMMA BlockAgentType ==
    ASSUME NEW db \in Database, NEW body \in Payload, NEW seen
    PROVE  BlockAgent(db, body, seen) \in Database
<1> DEFINE blocked == IF body.task = None \/ seen = "blocked"
                      THEN db ELSE SetStatus(db, body.task, "blocked")
<1>1. blocked \in Database
      BY SetStatusType DEF TaskStatus
<1>2. body.task \in TaskId \cup {None} /\ "blocked" \in AgentState
      BY DEF Payload, AgentState
<1>3. BlockAgent(db, body, seen) = SetAgent(blocked, body.agent, "blocked", body.task)
      BY DEF BlockAgent
<1> HIDE DEF blocked
<1> QED BY <1>1, <1>2, <1>3, SetAgentType

LEMMA AppliedType ==
    ASSUME NEW db \in Database, NEW e \in Event, NEW open \in BOOLEAN, NEW seen
    PROVE  Applied(db, e, open, seen) \in Database
<1> DEFINE body == db.event[e].body
<1>1. /\ body \in Payload
      /\ body.task \in TaskId \cup {None}
      BY BodyType
<1>2. {"idle", "planning", "done"} \subseteq AgentState /\ {"retry", "todo"} \subseteq TaskStatus
      BY DEF AgentState, TaskStatus
<1>3. /\ SetStatus(db, body.task, "retry") \in Database
      /\ SetStatus(db, body.task, "todo") \in Database
      BY <1>2, SetStatusType
<1>4. Handled(db, e, open, seen) \in Database
      BY <1>1, <1>2, <1>3, HandledCases, CreateDownstreamType, BlockAgentType, SetAgentType
<1> QED BY <1>4, MarkedType DEF Applied

-----------------------------------------------------------------------------
(* Which columns a statement changes.                                      *)

LEMMA SetStatusFields ==
    ASSUME NEW db \in Database, NEW t, NEW status \in TaskStatus
    PROVE  LET new == SetStatus(db, t, status) IN
           /\ new.event = db.event /\ new.message = db.message
           /\ \A u \in TaskId : /\ u # t => new.task[u] = db.task[u]
                                /\ u = t => new.task[u].status = status
                                /\ new.task[u].owner = db.task[u].owner
                                /\ new.task[u].ref = db.task[u].ref
BY DEF SetStatus, Database, TaskRow

LEMMA SetAgentFields ==
    ASSUME NEW db \in Database, NEW agent, NEW state, NEW task
    PROVE  LET new == SetAgent(db, agent, state, task) IN
           new.event = db.event /\ new.message = db.message /\ new.task = db.task
BY DEF SetAgent, Database

LEMMA InsertTaskFields ==
    ASSUME NEW db \in Database, NEW t, NEW owner, NEW ref
    PROVE  LET new == InsertTask(db, t, owner, ref) IN
           /\ new.event = db.event /\ new.message = db.message
           /\ \A u \in TaskId : /\ u # t => new.task[u] = db.task[u]
                                /\ u = t => /\ new.task[u].status = "todo"
                                            /\ new.task[u].owner = owner
                                            /\ new.task[u].ref = ref
BY DEF InsertTask, Database

LEMMA InsertEventFields ==
    ASSUME NEW db \in Database, NEW e, NEW body
    PROVE  LET new == InsertEvent(db, e, body) IN
           /\ new.task = db.task /\ new.message = db.message
           /\ \A d \in Event : /\ d # e => new.event[d] = db.event[d]
                               /\ d = e => /\ new.event[d].status = "pending"
                                           /\ new.event[d].body = body
BY DEF InsertEvent, Database

LEMMA MarkedFields ==
    ASSUME NEW db \in Database, NEW e \in Event
    PROVE  LET new == Marked(db, e) IN
           /\ new.task = db.task /\ new.message = db.message
           /\ \A d \in Event : /\ d # e => new.event[d] = db.event[d]
                               /\ new.event[d].body = db.event[d].body
           /\ new.event[e].status \in {"consumed", "ignored"}
           /\ db.event[e].body.type # "other" => new.event[e].status = "consumed"
BY DEF Marked, Database, EventRow

LEMMA CreateDownstreamFields ==
    ASSUME NEW db \in Database, NEW e \in Event, db.event[e].body.type \in DownstreamType
    PROVE  LET new == CreateDownstream(db, e) IN
           /\ new.event = db.event /\ new.message = db.message \cup {e}
           /\ \A u \in TaskId : u # e => new.task[u] = db.task[u]
           /\ new.task[e].status = "todo"
           /\ new.task[e].owner = DownstreamOwner[db.event[e].body.type]
           /\ new.task[e].ref = db.event[e].body.ref
<1> DEFINE body == db.event[e].body
           owner == DownstreamOwner[body.type]
           state == DownstreamState(body.type)
           row == InsertTask(db, e, owner, body.ref)
           made == SetAgent(row, owner, state, e)
<1>1. owner \in Role /\ state \in AgentState /\ body.ref \in Ref \cup {None}
      BY DownstreamFacts, BodyType
<1>2. CreateDownstream(db, e) = [made EXCEPT !.message = @ \cup {e}]
      BY DEF CreateDownstream
<1> HIDE DEF owner, state, body
<1>3. row \in Database
      BY <1>1, InsertTaskType
<1>4. /\ row.event = db.event /\ row.message = db.message
      /\ \A u \in TaskId : u # e => row.task[u] = db.task[u]
      /\ row.task[e].status = "todo" /\ row.task[e].owner = owner /\ row.task[e].ref = body.ref
      BY InsertTaskFields
<1> HIDE DEF row
<1>5. made \in Database /\ made.event = row.event /\ made.message = row.message /\ made.task = row.task
      BY <1>1, <1>3, SetAgentType, SetAgentFields
<1> HIDE DEF made
<1>6. LET new == [made EXCEPT !.message = @ \cup {e}] IN
         new.event = made.event /\ new.task = made.task /\ new.message = made.message \cup {e}
      BY <1>5 DEF Database
<1> QED BY <1>2, <1>4, <1>5, <1>6 DEF owner, body

-----------------------------------------------------------------------------
(* No statement loses a row.                                               *)

LEMMA ExtendedReflexive ==
    ASSUME NEW db PROVE Extended(db, db)
BY DEF Extended

LEMMA ExtendedTransitive ==
    ASSUME NEW a, NEW b, NEW c, Extended(a, b), Extended(b, c)
    PROVE  Extended(a, c)
BY DEF Extended

LEMMA SetStatusExtends ==
    ASSUME NEW db \in Database, NEW t, NEW status \in TaskStatus
    PROVE  Extended(db, SetStatus(db, t, status))
BY SetStatusFields DEF Extended, Exists, Posted, TaskStatus

LEMMA SetAgentExtends ==
    ASSUME NEW db \in Database, NEW agent, NEW state, NEW task
    PROVE  Extended(db, SetAgent(db, agent, state, task))
BY SetAgentFields DEF Extended, Exists, Posted

LEMMA InsertTaskExtends ==
    ASSUME NEW db \in Database, NEW t, NEW owner, NEW ref
    PROVE  Extended(db, InsertTask(db, t, owner, ref))
BY InsertTaskFields DEF Extended, Exists, Posted

LEMMA InsertEventExtends ==
    ASSUME NEW db \in Database, NEW e, NEW body, e \in Event => ~Posted(db, e)
    PROVE  Extended(db, InsertEvent(db, e, body))
BY InsertEventFields DEF Extended, Exists, Posted

LEMMA MarkedExtends ==
    ASSUME NEW db \in Database, NEW e \in Event
    PROVE  Extended(db, Marked(db, e))
BY MarkedFields DEF Extended, Exists, Posted

LEMMA CreateDownstreamExtends ==
    ASSUME NEW db \in Database, NEW e \in Event, db.event[e].body.type \in DownstreamType
    PROVE  Extended(db, CreateDownstream(db, e))
BY CreateDownstreamFields DEF Extended, Exists, Posted

LEMMA HandledExtends ==
    ASSUME NEW db \in Database, NEW e \in Event, NEW open \in BOOLEAN, NEW seen
    PROVE  Handled(db, e, open, seen) \in Database /\ Extended(db, Handled(db, e, open, seen))
<1> DEFINE body == db.event[e].body
           new == Handled(db, e, open, seen)
<1>1. body \in Payload /\ body.task \in TaskId \cup {None}
      BY BodyType
<1>2. /\ {"idle", "planning", "done", "blocked"} \subseteq AgentState
      /\ {"retry", "todo", "blocked"} \subseteq TaskStatus
      BY DEF AgentState, TaskStatus
<1>3. ASSUME NEW status \in {"retry", "todo", "blocked"}, NEW agent, NEW state \in AgentState,
             NEW task \in TaskId \cup {None}
      PROVE  LET made == SetAgent(SetStatus(db, body.task, status), agent, state, task) IN
             made \in Database /\ Extended(db, made)
      <2>1. SetStatus(db, body.task, status) \in Database
            BY <1>2, SetStatusType
      <2>2. Extended(db, SetStatus(db, body.task, status))
            BY <1>2, SetStatusExtends
      <2> QED BY <2>1, <2>2, SetAgentType, SetAgentExtends, ExtendedTransitive
<1>4. ASSUME NEW agent, NEW state \in AgentState, NEW task \in TaskId \cup {None}
      PROVE  LET made == SetAgent(db, agent, state, task) IN
             made \in Database /\ Extended(db, made)
      BY SetAgentType, SetAgentExtends
<1>5. LET made == BlockAgent(db, body, seen) IN made \in Database /\ Extended(db, made)
      BY <1>1, <1>2, <1>3, <1>4 DEF BlockAgent
<1>6. CASE new = db
      BY <1>6, ExtendedReflexive
<1>7. CASE body.type \in DownstreamType /\ new = CreateDownstream(db, e)
      BY <1>7, CreateDownstreamType, CreateDownstreamExtends
<1>8. CASE new = BlockAgent(db, body, seen)
      BY <1>5, <1>8
<1>9. CASE \/ new = SetAgent(db, body.agent, "idle", None)
           \/ new = SetAgent(db, body.agent, "done", None)
      BY <1>2, <1>4, <1>9
<1>10. CASE \/ new = SetAgent(SetStatus(db, body.task, "retry"),
                              db.task[body.task].owner, "planning", None)
            \/ new = SetAgent(SetStatus(db, body.task, "todo"),
                              db.task[body.task].owner, "planning", body.task)
       BY <1>1, <1>2, <1>3, <1>10
<1> QED BY <1>6, <1>7, <1>8, <1>9, <1>10, HandledCases

LEMMA AppliedExtends ==
    ASSUME NEW db \in Database, NEW e \in Event, NEW open \in BOOLEAN, NEW seen
    PROVE  Extended(db, Applied(db, e, open, seen))
BY HandledExtends, MarkedExtends, ExtendedTransitive DEF Applied

-----------------------------------------------------------------------------
(* No statement leaves half of a hand-off.                                 *)

LEMMA SetStatusWhole ==
    ASSUME NEW db \in Database, HandoffWhole(db), NEW t, NEW status \in TaskStatus,
           t \in Event => Exists(db, t)
    PROVE  HandoffWhole(SetStatus(db, t, status))
<1> DEFINE new == SetStatus(db, t, status)
<1>1. /\ new.event = db.event /\ new.message = db.message
      /\ \A u \in TaskId : /\ u # t => new.task[u] = db.task[u]
                           /\ u = t => new.task[u].status = status
                           /\ new.task[u].owner = db.task[u].owner
                           /\ new.task[u].ref = db.task[u].ref
      BY SetStatusFields
<1>2. "absent" # status
      BY DEF TaskStatus
<1> HIDE DEF new
<1>3. ASSUME NEW e \in Event
      PROVE  /\ new.task[e].status # "absent" <=> db.task[e].status # "absent"
             /\ new.task[e].owner = db.task[e].owner
             /\ new.task[e].ref = db.task[e].ref
      BY <1>1, <1>2 DEF Exists
<1>4. HandoffWhole(new)
      BY <1>1, <1>3 DEF HandoffWhole
<1> QED BY <1>4 DEF new

LEMMA SetAgentWhole ==
    ASSUME NEW db \in Database, HandoffWhole(db), NEW agent, NEW state, NEW task
    PROVE  HandoffWhole(SetAgent(db, agent, state, task))
BY SetAgentFields DEF HandoffWhole

LEMMA InsertTaskWhole ==
    ASSUME NEW db \in Database, HandoffWhole(db), NEW t \in SeedTask, NEW owner, NEW ref
    PROVE  HandoffWhole(InsertTask(db, t, owner, ref))
BY InsertTaskFields DEF HandoffWhole

LEMMA InsertEventWhole ==
    ASSUME NEW db \in Database, HandoffWhole(db), NEW e \in Event, ~Posted(db, e), NEW body
    PROVE  HandoffWhole(InsertEvent(db, e, body))
BY InsertEventFields DEF HandoffWhole, Posted

LEMMA MarkedWhole ==
    ASSUME NEW db \in Database, HandoffWhole(db), NEW e \in Event
    PROVE  HandoffWhole(Marked(db, e))
BY MarkedFields, DownstreamFacts DEF HandoffWhole

\* The task and the message of an event are made together, and the event is
\* marked before anybody sees them.
LEMMA CreateDownstreamWhole ==
    ASSUME NEW db \in Database, HandoffWhole(db), NEW e \in Event,
           db.event[e].body.type \in DownstreamType
    PROVE  HandoffWhole(Marked(CreateDownstream(db, e), e))
<1> DEFINE made == CreateDownstream(db, e)
<1>1. made \in Database
      BY CreateDownstreamType
<1>2. /\ made.event = db.event /\ made.message = db.message \cup {e}
      /\ \A u \in TaskId : u # e => made.task[u] = db.task[u]
      /\ made.task[e].status = "todo"
      /\ made.task[e].owner = DownstreamOwner[db.event[e].body.type]
      /\ made.task[e].ref = db.event[e].body.ref
      BY CreateDownstreamFields
<1> HIDE DEF made
<1> DEFINE new == Marked(made, e)
<1>3. /\ new.task = made.task /\ new.message = made.message
      /\ \A d \in Event : /\ d # e => new.event[d] = made.event[d]
                          /\ new.event[d].body = made.event[d].body
      /\ new.event[e].status = "consumed"
      BY <1>1, <1>2, MarkedFields, DownstreamFacts
<1> HIDE DEF new
<1>4. ASSUME NEW d \in Event
      PROVE  /\ new.task[d].status # "absent" <=> d \in new.message
             /\ new.task[d].status # "absent" =>
                   /\ new.event[d].status = "consumed"
                   /\ new.event[d].body.type \in DownstreamType
                   /\ new.task[d].owner = DownstreamOwner[new.event[d].body.type]
                   /\ new.task[d].ref = new.event[d].body.ref
      <2>1. CASE d = e
            BY <1>2, <1>3, <2>1
      <2>2. CASE d # e
            BY <1>2, <1>3, <2>2 DEF HandoffWhole
      <2> QED BY <2>1, <2>2
<1>5. HandoffWhole(new)
      BY <1>4 DEF HandoffWhole
<1> QED BY <1>5 DEF new, made

LEMMA AppliedWhole ==
    ASSUME NEW db \in Database, HandoffWhole(db), NEW e \in Event, NEW open \in BOOLEAN,
           NEW seen, SeenExists(db, e, seen), ~Raises(db, e, open, seen)
    PROVE  HandoffWhole(Applied(db, e, open, seen))
<1> DEFINE body == db.event[e].body
           new == Handled(db, e, open, seen)
<1>1. body \in Payload /\ body.task \in TaskId \cup {None}
      BY BodyType
<1>2. {"retry", "todo", "blocked"} \subseteq TaskStatus /\ "absent" \notin TaskStatus
      BY DEF TaskStatus
<1>3. new \in Database
      BY HandledExtends
<1>4. ASSUME NEW status \in {"retry", "todo", "blocked"}, NEW agent, NEW state, NEW task,
             body.task \in Event => Exists(db, body.task)
      PROVE  HandoffWhole(SetAgent(SetStatus(db, body.task, status), agent, state, task))
      BY <1>2, <1>4, SetStatusType, SetStatusWhole, SetAgentWhole
<1>5. CASE new = db
      BY <1>5, MarkedWhole DEF Applied
<1>6. CASE body.type \in DownstreamType /\ new = CreateDownstream(db, e)
      BY <1>6, CreateDownstreamWhole DEF Applied
<1>7. CASE body.type = "agent_blocked" /\ new = BlockAgent(db, body, seen)
      <2>1. body.task # None => seen # "absent"
            BY <1>2, <1>7 DEF Raises, ValidTransition
      <2>2. body.task # None => Exists(db, body.task)
            BY <2>1 DEF SeenExists
      <2>3. HandoffWhole(BlockAgent(db, body, seen))
            BY <1>4, <2>2, SetAgentWhole DEF BlockAgent
      <2> QED BY <1>3, <1>7, <2>3, MarkedWhole DEF Applied
<1>8. CASE \/ new = SetAgent(db, body.agent, "idle", None)
           \/ new = SetAgent(db, body.agent, "done", None)
      BY <1>3, <1>8, SetAgentWhole, MarkedWhole DEF Applied
<1>9. CASE /\ body.type = "task_retry_requested"
           /\ new = SetAgent(SetStatus(db, body.task, "retry"),
                             db.task[body.task].owner, "planning", None)
      <2>1. Exists(db, body.task)
            BY <1>2, <1>9 DEF Raises, ValidTransition, SeenExists
      <2> QED BY <1>3, <1>4, <1>9, <2>1, MarkedWhole DEF Applied
<1>10. CASE /\ body.type = "task_requeued"
            /\ new = SetAgent(SetStatus(db, body.task, "todo"),
                              db.task[body.task].owner, "planning", body.task)
      <2>1. Exists(db, body.task)
            BY <1>2, <1>10 DEF Raises, ValidTransition, SeenExists
      <2> QED BY <1>3, <1>4, <1>10, <2>1, MarkedWhole DEF Applied
<1> QED BY <1>5, <1>6, <1>7, <1>8, <1>9, <1>10, HandledCases

-----------------------------------------------------------------------------
(* Calls.                                                                  *)

Sound(p, c, db) ==
    /\ c \in Call
    /\ c.step \in {"claim", "start", "run", "read", "write"} => c.task \in TaskId
    /\ c.step = "write" => Exists(db, c.task)
    /\ c.step \in {"peek", "begin"} => \A e \in c.batch : Posted(db, e)
    /\ c.step = "begin" => /\ c.first \in Event
                           /\ Posted(db, c.first)
                           /\ SeenExists(db, c.first, c.seen)
    /\ c.goal # "none" => c.task \in TaskId
    /\ p \in Proc \ Worker => c.goal = "none" /\ c.step # "start"

LEMMA IInvSound ==
    ASSUME IInv, NEW p \in Proc
    PROVE  Sound(p, call[p], store)
BY DEF IInv, TypeOK, CallSound, Sound

\* A sound call stays sound when the tables grow.
LEMMA SoundExtends ==
    ASSUME NEW p, NEW c, NEW old, NEW new, Sound(p, c, old), Extended(old, new)
    PROVE  Sound(p, c, new)
<1>1. c.batch \subseteq Event
      BY DEF Sound, Call
<1> QED BY <1>1 DEF Sound, Extended, SeenExists

LEMMA IdleCallSound ==
    ASSUME NEW p PROVE Sound(p, IdleCall, store)
BY DEF Sound, IdleCall, Call, NoPayload, Payload, Step, TaskStatus, EventType

LEMMA BlockCallSound ==
    ASSUME NEW w \in Worker, NEW t \in TaskId
    PROVE  Sound(w, BlockCall(w, t), store)
BY DEF Sound, BlockCall, IdleCall, Call, NoPayload, Payload, Step, TaskStatus, EventType, ControlType

LEMMA RaisedSound ==
    ASSUME NEW p \in Proc, Sound(p, call[p], store)
    PROVE  Sound(p, Raised(p), store)
BY IdleCallSound, BlockCallSound DEF Raised, Sound

LEMMA ReturnedSound ==
    ASSUME NEW p \in Proc, Sound(p, call[p], store)
    PROVE  Sound(p, Returned(p), store)
BY IdleCallSound DEF Returned, Sound, IdleCall, Call, Step

-----------------------------------------------------------------------------
(* The three kinds of step.                                                *)

LEMMA CallStep ==
    ASSUME IInv, NEW p \in Proc, NEW c, Goto(p, c),
           Sound(p, c, store'), Extended(store, store')
    PROVE  /\ call' \in [Proc -> Call]
           /\ \A q \in Proc : CallSound(call[q])'
           /\ \A q \in Proc \ Worker : call'[q].goal = "none" /\ call'[q].step # "start"
<1>1. call \in [Proc -> Call]
      BY DEF IInv, TypeOK
<1>2. \A q \in Proc : Sound(q, call[q], store')
      BY IInvSound, SoundExtends
<1>3. \A q \in Proc : call'[q] = IF q = p THEN c ELSE call[q]
      BY <1>1 DEF Goto
<1>4. \A q \in Proc : Sound(q, call'[q], store')
      BY <1>2, <1>3
<1>5. call' \in [Proc -> Call]
      BY <1>1 DEF Goto, Sound
<1> QED BY <1>4, <1>5 DEF Sound, CallSound

\* Inside a transaction, or outside of any.
LEMMA TransactionStep ==
    ASSUME IInv, NEW p \in Proc, NEW c, Goto(p, c), Sound(p, c, store),
           UNCHANGED <<store, holders>>, faults' \in Nat, writer' \in Proc \cup {None},
           work' \in Database, HandoffWhole(work'), Extended(store, work')
    PROVE  IInv'
<1>1. /\ call' \in [Proc -> Call]
      /\ \A q \in Proc : CallSound(call[q])'
      /\ \A q \in Proc \ Worker : call'[q].goal = "none" /\ call'[q].step # "start"
      BY CallStep, ExtendedReflexive
<1>2. TypeOK'
      BY <1>1 DEF IInv, TypeOK
<1>3. ClaimsSound'
      BY DEF IInv, ClaimsSound, OneClaimPerOpening
<1>4. HandoffWhole(store)' /\ HandoffWhole(work)' /\ Extended(store, work)'
      BY DEF IInv, HandoffWhole, Extended, Exists, Posted
<1> QED BY <1>1, <1>2, <1>3, <1>4 DEF IInv

LEMMA QuietStep ==
    ASSUME IInv, NEW p \in Proc, NEW c, Goto(p, c), Sound(p, c, store),
           UNCHANGED <<store, work, writer, holders>>, faults' \in Nat
    PROVE  IInv'
<1>1. /\ work' \in Database /\ writer' \in Proc \cup {None}
      /\ HandoffWhole(work') /\ Extended(store, work')
      BY DEF IInv, TypeOK
<1> QED BY <1>1, TransactionStep

LEMMA PublishStep ==
    ASSUME IInv, NEW p \in Proc, NEW c, Goto(p, c), NEW db \in Database, Publish(db),
           HandoffWhole(db), Extended(store, db), Sound(p, c, db), faults' \in Nat
    PROVE  IInv'
<1>1. store' = db /\ work' = db /\ writer' = None
      BY DEF Publish
<1>2. /\ call' \in [Proc -> Call]
      /\ \A q \in Proc : CallSound(call[q])'
      /\ \A q \in Proc \ Worker : call'[q].goal = "none" /\ call'[q].step # "start"
      BY <1>1, CallStep
<1>3. holders \in [TaskId -> SUBSET Worker]
      BY DEF IInv, TypeOK
<1>4. /\ holders' \in [TaskId -> SUBSET Worker]
      /\ \A t \in TaskId : holders'[t] = IF t \in Reopened(db) THEN {} ELSE holders[t]
      BY <1>3 DEF Publish
<1>5. TypeOK'
      BY <1>1, <1>2, <1>4 DEF TypeOK
<1>6. ClaimsSound'
      BY <1>1, <1>4 DEF IInv, ClaimsSound, OneClaimPerOpening, Reopened
<1>7. HandoffWhole(store') /\ HandoffWhole(work') /\ Extended(store', work')
      BY <1>1, ExtendedReflexive
<1>8. HandoffWhole(store)' /\ HandoffWhole(work)' /\ Extended(store, work)'
      BY <1>7 DEF HandoffWhole, Extended, Exists, Posted
<1> QED BY <1>2, <1>5, <1>6, <1>8 DEF IInv

-----------------------------------------------------------------------------
(* Every action keeps IInv.                                                *)

LEMMA CallFacts ==
    ASSUME IInv, NEW p \in Proc
    PROVE  /\ Sound(p, call[p], store)
           /\ call[p] \in Call
           /\ store \in Database /\ work \in Database /\ faults \in Nat
           /\ HandoffWhole(store) /\ HandoffWhole(work) /\ Extended(store, work)
           /\ writer \in Proc \cup {None}
BY IInvSound DEF IInv, TypeOK

LEMMA SelectTaskStep ==
    ASSUME IInv, NEW w \in Worker, SelectTask(w)
    PROVE  IInv'
<1>1. PICK t \in TaskId : Goto(w, [IdleCall EXCEPT !.step = "claim", !.task = t])
      BY DEF SelectTask
<1>2. Sound(w, [IdleCall EXCEPT !.step = "claim", !.task = t], store)
      BY IdleCallSound DEF Sound, Call, IdleCall, Step
<1> QED BY <1>1, <1>2, QuietStep, CallFacts DEF SelectTask

LEMMA ClaimTaskStep ==
    ASSUME IInv, NEW w \in Worker, ClaimTask(w)
    PROVE  IInv'
<1> DEFINE t == call[w].task
           c == [At(w, "start") EXCEPT !.goal = "done"]
<1>1. Sound(w, call[w], store) /\ store \in Database /\ work \in Database /\ faults \in Nat
      BY CallFacts
<1>2. t \in TaskId
      BY <1>1 DEF ClaimTask, Sound
<1>3. CASE store.task[t].status \notin Claimable
      BY <1>1, <1>3, IdleCallSound, QuietStep DEF ClaimTask
<1>4. CASE store.task[t].status \in Claimable
      <2> DEFINE new == SetStatus(store, t, "in_progress")
      <2>1. /\ store' = new /\ work' = new /\ Goto(w, c) /\ UNCHANGED <<writer, faults>>
            /\ holders' = [holders EXCEPT ![t] = @ \cup {w}]
            BY <1>4 DEF ClaimTask
      <2>2. "in_progress" \in TaskStatus \ Claimable /\ "absent" \notin Claimable
            BY DEF TaskStatus, Claimable
      <2>3. new \in Database /\ Extended(store, new) /\ HandoffWhole(new)
            BY <1>1, <1>4, <2>2, SetStatusType, SetStatusExtends, SetStatusWhole, CallFacts
               DEF Exists
      <2>4. Sound(w, c, store) /\ Sound(w, c, new)
            BY <1>1, <1>2, <2>3, SoundExtends DEF Sound, At, Call, Step
      <2>5. /\ call' \in [Proc -> Call]
            /\ \A q \in Proc : CallSound(call[q])'
            /\ \A q \in Proc \ Worker : call'[q].goal = "none" /\ call'[q].step # "start"
            BY <2>1, <2>3, <2>4, CallStep
      <2>6. /\ holders \in [TaskId -> SUBSET Worker] /\ holders[t] = {}
            /\ \A u \in TaskId : store.task[u].status \in Claimable => holders[u] = {}
            /\ OneClaimPerOpening
            BY <1>2, <1>4 DEF IInv, TypeOK, ClaimsSound
      <2>7. /\ holders' \in [TaskId -> SUBSET Worker] /\ holders'[t] = {w}
            /\ \A u \in TaskId : u # t => holders'[u] = holders[u]
            BY <1>2, <2>1, <2>6
      <2>8. /\ new.task[t].status = "in_progress"
            /\ \A u \in TaskId : u # t => new.task[u] = store.task[u]
            BY <1>1, <1>2, <2>2, SetStatusFields
      <2>9. TypeOK'
            BY <2>1, <2>3, <2>5, <2>7 DEF IInv, TypeOK
      <2> HIDE DEF new, t
      <2>10. ClaimsSound'
            BY <1>2, <2>1, <2>2, <2>6, <2>7, <2>8 DEF ClaimsSound, OneClaimPerOpening
      <2>11. HandoffWhole(store') /\ HandoffWhole(work') /\ Extended(store', work')
            BY <2>1, <2>3, ExtendedReflexive
      <2>12. HandoffWhole(store)' /\ HandoffWhole(work)' /\ Extended(store, work)'
            BY <2>11 DEF HandoffWhole, Extended, Exists, Posted
      <2> QED BY <2>5, <2>9, <2>10, <2>12 DEF IInv
<1> QED BY <1>3, <1>4

LEMMA StartTaskStep ==
    ASSUME IInv, NEW w \in Worker, StartTask(w)
    PROVE  IInv'
<1> DEFINE state == IF RoleOf[w] = "reviewer" THEN "review_pending" ELSE "executing"
           db == SetAgent(store, RoleOf[w], state, call[w].task)
<1>1. Sound(w, call[w], store) /\ store \in Database /\ faults \in Nat /\ HandoffWhole(store)
      BY CallFacts
<1>2. state \in AgentState /\ call[w].task \in TaskId \cup {None}
      BY <1>1 DEF AgentState, Sound, Call
<1>3. Publish(db) /\ Goto(w, At(w, "run")) /\ faults' = faults
      BY DEF StartTask, Autocommit
<1> HIDE DEF state
<1>4. db \in Database /\ HandoffWhole(db) /\ Extended(store, db)
      BY <1>1, <1>2, SetAgentType, SetAgentWhole, SetAgentExtends
<1>5. Sound(w, At(w, "run"), store)
      BY <1>1 DEF StartTask, Sound, At, Call, Step
<1>6. Sound(w, At(w, "run"), db)
      BY <1>4, <1>5, SoundExtends
<1> HIDE DEF db
<1> QED BY <1>1, <1>3, <1>4, <1>6, PublishStep

LEMMA ReportDoneStep ==
    ASSUME IInv, NEW w \in Worker, ReportDone(w)
    PROVE  IInv'
<1>1. Sound(w, call[w], store) /\ call[w] \in Call /\ faults \in Nat
      BY CallFacts
<1>2. PICK type \in CompletionTypes(RoleOf[w]), ref \in Ref :
         Goto(w, [At(w, "read") EXCEPT
                    !.next = "done", !.emits = TRUE,
                    !.body = [type |-> type, ref |-> ref, task |-> None,
                              agent |-> IF type = "review_approved" THEN "writer" ELSE None]])
      BY DEF ReportDone
<1> DEFINE body == [type |-> type, ref |-> ref, task |-> None,
                    agent |-> IF type = "review_approved" THEN "writer" ELSE None]
           c == [At(w, "read") EXCEPT !.next = "done", !.emits = TRUE, !.body = body]
<1>3. type \in EventType
      <2>1. RoleOf[w] \in Role
            OBVIOUS
      <2> QED BY <2>1 DEF CompletionTypes, Role, EventType, DownstreamType, DownstreamOwner,
                          ControlType
<1>4. body \in Payload
      BY <1>3 DEF Payload, Role
<1> HIDE DEF body
<1>5. Sound(w, c, store)
      BY <1>1, <1>4 DEF ReportDone, Sound, At, Call, Step, TaskStatus
<1>6. Goto(w, c) /\ UNCHANGED <<store, work, writer, holders, faults>>
      BY <1>2 DEF ReportDone, body
<1> HIDE DEF c
<1> QED BY <1>1, <1>5, <1>6, QuietStep

LEMMA TaskFailsStep ==
    ASSUME IInv, NEW w \in Worker, TaskFails(w)
    PROVE  IInv'
<1>1. Sound(w, call[w], store) /\ faults \in Nat
      BY CallFacts
<1>2. Sound(w, BlockCall(w, call[w].task), store)
      BY <1>1, BlockCallSound DEF TaskFails, Sound
<1> QED BY <1>1, <1>2, QuietStep DEF TaskFails

LEMMA SettleStep ==
    ASSUME IInv, NEW w \in Worker, Settle(w)
    PROVE  IInv'
<1> DEFINE db == IF call[w].goal = "done"
                 THEN SetAgent(store, RoleOf[w], "idle", None)
                 ELSE SetAgent(store, RoleOf[w], "blocked", call[w].task)
<1>1. call[w] \in Call /\ store \in Database /\ faults \in Nat /\ HandoffWhole(store)
      BY CallFacts
<1>2. {"idle", "blocked"} \subseteq AgentState /\ call[w].task \in TaskId \cup {None}
      BY <1>1 DEF AgentState, Call
<1>3. Publish(db) /\ Goto(w, IdleCall) /\ faults' = faults
      BY DEF Settle, Autocommit
<1>4. db \in Database /\ HandoffWhole(db) /\ Extended(store, db)
      BY <1>1, <1>2, SetAgentType, SetAgentWhole, SetAgentExtends
<1>5. Sound(w, IdleCall, db)
      BY <1>4, IdleCallSound, SoundExtends
<1> HIDE DEF db
<1> QED BY <1>1, <1>3, <1>4, <1>5, PublishStep

LEMMA ReadStatusStep ==
    ASSUME IInv, NEW p \in Proc, ReadStatus(p)
    PROVE  IInv'
<1>1. Sound(p, call[p], store) /\ faults \in Nat
      BY CallFacts
<1>2. CASE ValidTransition(store.task[call[p].task].status, call[p].next)
      <2>1. "absent" \notin TaskStatus
            BY DEF TaskStatus
      <2>2. Sound(p, At(p, "write"), store)
            BY <1>1, <1>2, <2>1 DEF ReadStatus, ValidTransition, Sound, At, Call, Step, Exists
      <2> QED BY <1>1, <1>2, <2>2, QuietStep DEF ReadStatus
<1>3. CASE ~ValidTransition(store.task[call[p].task].status, call[p].next)
      BY <1>1, <1>3, RaisedSound, QuietStep DEF ReadStatus
<1> QED BY <1>2, <1>3

LEMMA WriteStatusStep ==
    ASSUME IInv, NEW p \in Proc, WriteStatus(p)
    PROVE  IInv'
<1> DEFINE db == SetStatus(store, call[p].task, call[p].next)
           c == IF call[p].emits THEN At(p, "emit") ELSE Returned(p)
<1>1. Sound(p, call[p], store) /\ store \in Database /\ faults \in Nat /\ HandoffWhole(store)
      BY CallFacts
<1>2. call[p].next \in TaskStatus /\ Exists(store, call[p].task)
      BY <1>1 DEF WriteStatus, Sound, Call
<1>3. Publish(db) /\ Goto(p, c) /\ faults' = faults
      BY DEF WriteStatus, Autocommit
<1>4. db \in Database /\ HandoffWhole(db) /\ Extended(store, db)
      BY <1>1, <1>2, SetStatusType, SetStatusWhole, SetStatusExtends
<1>5. Sound(p, At(p, "emit"), store)
      BY <1>1 DEF WriteStatus, Sound, At, Call, Step
<1>6. Sound(p, c, db)
      BY <1>1, <1>4, <1>5, ReturnedSound, SoundExtends
<1> HIDE DEF db, c
<1> QED BY <1>1, <1>3, <1>4, <1>6, PublishStep

LEMMA EmitEventStep ==
    ASSUME IInv, NEW p \in Proc, EmitEvent(p)
    PROVE  IInv'
<1>1. Sound(p, call[p], store) /\ store \in Database /\ faults \in Nat /\ HandoffWhole(store)
      BY CallFacts
<1>2. PICK e \in Event : /\ store.event[e].status = "absent"
                         /\ Publish(InsertEvent(store, e, call[p].body))
      BY DEF EmitEvent, Autocommit
<1> DEFINE db == InsertEvent(store, e, call[p].body)
<1>3. Goto(p, At(p, "fetch")) /\ faults' = faults
      BY DEF EmitEvent
<1>4. call[p].body \in Payload
      BY <1>1 DEF Sound, Call
<1>5. db \in Database /\ HandoffWhole(db) /\ Extended(store, db)
      BY <1>1, <1>2, <1>4, InsertEventType, InsertEventWhole, InsertEventExtends DEF Posted
<1>6. Sound(p, At(p, "fetch"), store)
      BY <1>1 DEF EmitEvent, Sound, At, Call, Step
<1>7. Sound(p, At(p, "fetch"), db)
      BY <1>5, <1>6, SoundExtends
<1> HIDE DEF db
<1>8. Publish(db)
      BY <1>2 DEF db
<1> QED BY <1>1, <1>3, <1>5, <1>7, <1>8, PublishStep

LEMMA FetchEventsStep ==
    ASSUME IInv, NEW p \in Proc, FetchEvents(p)
    PROVE  IInv'
<1>1. Sound(p, call[p], store) /\ faults \in Nat
      BY CallFacts
<1>2. CASE Oldest(store) = {}
      BY <1>1, <1>2, ReturnedSound, QuietStep DEF FetchEvents
<1>3. CASE Oldest(store) # {}
      <2> DEFINE batch == Oldest(store)
      <2>1. batch \subseteq Event /\ \A e \in batch : Posted(store, e)
            BY DEF Oldest, Pending, Posted
      <2> HIDE DEF batch
      <2>2. Sound(p, [At(p, "peek") EXCEPT !.batch = batch], store)
            BY <1>1, <2>1 DEF FetchEvents, Sound, At, Call, Step
      <2> QED BY <1>1, <1>3, <2>2, QuietStep DEF FetchEvents, batch
<1> QED BY <1>2, <1>3

LEMMA StatusSeenExists ==
    ASSUME NEW db \in Database, NEW e \in Event
    PROVE  /\ StatusSeen(db, e) \in TaskStatus \cup {"absent"}
           /\ SeenExists(db, e, StatusSeen(db, e))
<1>1. db.event[e].body.task \in TaskId \cup {None}
      BY BodyType
<1> QED BY <1>1 DEF StatusSeen, SeenExists, Exists, Database, TaskRow

LEMMA PeekFirstStep ==
    ASSUME IInv, NEW p \in Proc, PeekFirst(p)
    PROVE  IInv'
<1>1. Sound(p, call[p], store) /\ store \in Database /\ faults \in Nat
      BY CallFacts
<1>2. PICK e \in call[p].batch :
         Goto(p, [At(p, "begin") EXCEPT !.first = e, !.open = Reusable(store, e),
                                       !.seen = StatusSeen(store, e)])
      BY DEF PeekFirst
<1> DEFINE open == Reusable(store, e)
           seen == StatusSeen(store, e)
           c == [At(p, "begin") EXCEPT !.first = e, !.open = open, !.seen = seen]
<1>3. e \in Event /\ \A d \in call[p].batch : Posted(store, d)
      BY <1>1 DEF PeekFirst, Sound, Call
<1>4. open \in BOOLEAN
      BY DEF Reusable
<1>5. seen \in TaskStatus \cup {"absent"} /\ SeenExists(store, e, seen)
      BY <1>1, <1>3, StatusSeenExists
<1>6. Goto(p, c)
      BY <1>2
<1> HIDE DEF open, seen
<1>7. Sound(p, c, store)
      BY <1>1, <1>3, <1>4, <1>5 DEF PeekFirst, Sound, At, Call, Step
<1> HIDE DEF c
<1> QED BY <1>1, <1>6, <1>7, QuietStep DEF PeekFirst

\* What the first handler read may be stale: IInv only knows that the rows it
\* saw still exist.  That is enough.
LEMMA BeginBatchStep ==
    ASSUME IInv, NEW p \in Proc, BeginBatch(p)
    PROVE  IInv'
<1> DEFINE e == call[p].first
           open == call[p].open
           seen == call[p].seen
           db == Applied(store, e, open, seen)
           c == [At(p, "apply") EXCEPT !.batch = @ \ {e}]
<1>1. /\ Sound(p, call[p], store) /\ store \in Database /\ faults \in Nat
      /\ HandoffWhole(store)
      BY CallFacts
<1>2. /\ e \in Event /\ open \in BOOLEAN /\ SeenExists(store, e, seen)
      BY <1>1 DEF BeginBatch, Sound, Call
<1>3. CASE Raises(store, e, open, seen)
      BY <1>1, <1>3, RaisedSound, QuietStep DEF BeginBatch
<1>4. CASE ~Raises(store, e, open, seen)
      <2>1. db \in Database /\ HandoffWhole(db) /\ Extended(store, db)
            BY <1>1, <1>2, <1>4, AppliedType, AppliedWhole, AppliedExtends
      <2>2. writer' = p /\ work' = db /\ Goto(p, c) /\ UNCHANGED <<store, holders, faults>>
            BY <1>4 DEF BeginBatch
      <2>3. Sound(p, c, store)
            BY <1>1 DEF BeginBatch, Sound, At, Call, Step
      <2> HIDE DEF db, c, e
      <2> QED BY <1>1, <2>1, <2>2, <2>3, TransactionStep
<1> QED BY <1>3, <1>4

LEMMA RollbackFacts ==
    ASSUME IInv, NEW p, Rollback(p)
    PROVE  /\ work' \in Database /\ HandoffWhole(work') /\ Extended(store, work')
           /\ writer' \in Proc \cup {None}
<1>1. (work' = store \/ work' = work) /\ (writer' = None \/ writer' = writer)
      BY DEF Rollback
<1> QED BY <1>1, ExtendedReflexive DEF IInv, TypeOK

LEMMA ApplyEventStep ==
    ASSUME IInv, NEW p \in Proc, ApplyEvent(p)
    PROVE  IInv'
<1>1. /\ Sound(p, call[p], store) /\ work \in Database /\ faults \in Nat
      /\ HandoffWhole(work) /\ Extended(store, work) /\ writer \in Proc \cup {None}
      BY CallFacts
<1>2. PICK e \in call[p].batch :
         LET open == Reusable(work, e)
             seen == StatusSeen(work, e)
         IN  IF Raises(work, e, open, seen)
             THEN Goto(p, Raised(p)) /\ Rollback(p)
             ELSE /\ work' = Applied(work, e, open, seen)
                  /\ Goto(p, [call[p] EXCEPT !.batch = @ \ {e}])
                  /\ UNCHANGED writer
      BY DEF ApplyEvent
<1> DEFINE open == Reusable(work, e)
           seen == StatusSeen(work, e)
           db == Applied(work, e, open, seen)
           c == [call[p] EXCEPT !.batch = @ \ {e}]
<1>3. e \in Event /\ open \in BOOLEAN /\ SeenExists(work, e, seen)
      BY <1>1, StatusSeenExists DEF Sound, Call, Reusable
<1>4. UNCHANGED <<store, holders, faults>>
      BY DEF ApplyEvent
<1>5. CASE Raises(work, e, open, seen)
      BY <1>1, <1>2, <1>4, <1>5, RaisedSound, RollbackFacts, TransactionStep
<1>6. CASE ~Raises(work, e, open, seen)
      <2>1. work' = db /\ Goto(p, c) /\ writer' = writer
            BY <1>2, <1>6
      <2>2. db \in Database /\ HandoffWhole(db) /\ Extended(work, db)
            BY <1>1, <1>3, <1>6, AppliedType, AppliedWhole, AppliedExtends
      <2>3. Extended(store, db)
            BY <1>1, <2>2, ExtendedTransitive
      <2>4. Sound(p, c, store)
            BY <1>1 DEF ApplyEvent, Sound, Call
      <2> HIDE DEF db, c
      <2> QED BY <1>1, <1>4, <2>1, <2>2, <2>3, <2>4, TransactionStep
<1> QED BY <1>5, <1>6

LEMMA CommitBatchStep ==
    ASSUME IInv, NEW p \in Proc, CommitBatch(p)
    PROVE  IInv'
<1>1. /\ Sound(p, call[p], store) /\ work \in Database /\ faults \in Nat
      /\ HandoffWhole(work) /\ Extended(store, work)
      BY CallFacts
<1>2. Sound(p, Returned(p), work)
      BY <1>1, ReturnedSound, SoundExtends
<1> QED BY <1>1, <1>2, PublishStep DEF CommitBatch

LEMMA PostEventStep ==
    ASSUME IInv, NEW o \in Operator, PostEvent(o)
    PROVE  IInv'
<1>1. PICK body \in PostedBody : Goto(o, [IdleCall EXCEPT !.step = "emit", !.body = body])
      BY DEF PostEvent
<1>2. body \in Payload
      BY <1>1 DEF PostedBody, Payload, EventType, ControlType
<1>3. Sound(o, [IdleCall EXCEPT !.step = "emit", !.body = body], store)
      BY <1>2, IdleCallSound DEF Sound, Call, IdleCall, Step
<1> QED BY <1>1, <1>3, QuietStep, CallFacts DEF PostEvent

LEMMA PostConsumeStep ==
    ASSUME IInv, NEW o \in Operator, PostConsume(o)
    PROVE  IInv'
<1>1. Sound(o, [IdleCall EXCEPT !.step = "fetch"], store)
      BY IdleCallSound DEF Sound, Call, IdleCall, Step
<1> QED BY <1>1, QuietStep, CallFacts DEF PostConsume

LEMMA PostStatusStep ==
    ASSUME IInv, NEW o \in Operator, PostStatus(o)
    PROVE  IInv'
<1>1. PICK t \in TaskId, status \in WriteStatuses :
         Goto(o, [IdleCall EXCEPT !.step = "read", !.task = t, !.next = status])
      BY DEF PostStatus
<1>2. Sound(o, [IdleCall EXCEPT !.step = "read", !.task = t, !.next = status], store)
      BY IdleCallSound, StatusesAssumption DEF Sound, Call, IdleCall, Step
<1> QED BY <1>1, <1>2, QuietStep, CallFacts DEF PostStatus

LEMMA PostTaskStep ==
    ASSUME IInv, NEW o \in Operator, PostTask(o)
    PROVE  IInv'
<1>1. /\ Sound(o, call[o], store) /\ store \in Database /\ faults \in Nat
      /\ HandoffWhole(store)
      BY CallFacts
<1>2. PICK t \in SeedTask, owner \in Role, ref \in Ref \cup {None},
           status \in WriteStatuses \cup {"todo"} :
         Publish(SetStatus(InsertTask(store, t, owner, ref), t, status))
      BY DEF PostTask, Autocommit
<1> DEFINE row == InsertTask(store, t, owner, ref)
           db == SetStatus(row, t, status)
<1>3. status \in TaskStatus /\ t \notin Event
      BY StatusesAssumption DEF TaskStatus
<1>4. row \in Database /\ HandoffWhole(row) /\ Extended(store, row)
      BY <1>1, InsertTaskType, InsertTaskWhole, InsertTaskExtends
<1> HIDE DEF row
<1>5. db \in Database /\ HandoffWhole(db) /\ Extended(row, db)
      BY <1>3, <1>4, SetStatusType, SetStatusWhole, SetStatusExtends
<1>6. Publish(db)
      BY <1>2 DEF row
<1> HIDE DEF db
<1>7. Extended(store, db)
      BY <1>4, <1>5, ExtendedTransitive
<1>8. Sound(o, call[o], db)
      BY <1>1, <1>7, SoundExtends
<1>9. Goto(o, call[o]) /\ faults' = faults
      BY DEF PostTask, Goto, IInv, TypeOK
<1> QED BY <1>1, <1>5, <1>6, <1>7, <1>8, <1>9, PublishStep

LEMMA RequestDiesStep ==
    ASSUME IInv, NEW p \in Proc, RequestDies(p)
    PROVE  IInv'
<1> DEFINE c == IF call[p].step = "start" THEN BlockCall(p, call[p].task) ELSE Raised(p)
<1>1. Sound(p, call[p], store) /\ faults \in Nat
      BY CallFacts
<1>2. CASE call[p].step = "start" /\ p \in Worker
      <2>1. Sound(p, c, store)
            BY <1>1, <1>2, BlockCallSound DEF Sound
      <2> QED BY <1>1, <2>1, RollbackFacts, TransactionStep DEF RequestDies
<1>3. CASE call[p].step # "start"
      <2>1. Sound(p, c, store)
            BY <1>1, <1>3, RaisedSound
      <2> QED BY <1>1, <2>1, RollbackFacts, TransactionStep DEF RequestDies
<1> QED BY <1>1, <1>2, <1>3 DEF Sound

LEMMA WorkerDiesStep ==
    ASSUME IInv, NEW w \in Worker, WorkerDies(w)
    PROVE  IInv'
BY IdleCallSound, QuietStep, CallFacts DEF WorkerDies

-----------------------------------------------------------------------------
LEMMA InitIInv ==
    ASSUME Init PROVE IInv
<1> DEFINE task == [t \in TaskId |-> IF t \in Bootstrap
                                     THEN [NoTask EXCEPT !.status = "todo"] ELSE NoTask]
           agent == [a \in Role |->
                       IF a = "explorer" /\ Bootstrap # {}
                       THEN [state |-> "planning", task |-> CHOOSE t \in Bootstrap : TRUE]
                       ELSE [state |-> "absent", task |-> None]]
           event == [e \in Event |-> NoEvent]
<1>1. store = [task |-> task, event |-> event, message |-> {}, agent |-> agent, emitted |-> 0]
      BY DEF Init
<1>2. task \in [TaskId -> TaskRow]
      BY DEF NoTask, TaskRow, TaskStatus, Role
<1>3. event \in [Event -> EventRow]
      BY DEF NoEvent, NoPayload, EventRow, Payload, EventType
<1>4. agent \in [Role -> AgentRow]
      <2>1. Bootstrap # {} => (CHOOSE t \in Bootstrap : TRUE) \in TaskId
            OBVIOUS
      <2> QED BY <2>1 DEF AgentRow, AgentState
<1>5. \A e \in Event : task[e].status = "absent"
      BY DEF NoTask
<1> HIDE DEF task, event, agent
<1>6. store \in Database
      BY <1>1, <1>2, <1>3, <1>4 DEF Database
<1>7. HandoffWhole(store)
      BY <1>1, <1>5 DEF HandoffWhole
<1>8. \A p \in Proc : call[p] = IdleCall
      BY DEF Init
<1>9. \A p \in Proc : Sound(p, IdleCall, store)
      BY IdleCallSound
<1>10. /\ \A p \in Proc : CallSound(call[p])
       /\ \A p \in Proc \ Worker : call[p].goal = "none" /\ call[p].step # "start"
       BY <1>8, <1>9 DEF Sound, CallSound
<1>11. call \in [Proc -> Call]
       BY <1>9 DEF Init, Sound
<1>12. TypeOK
       BY <1>6, <1>11 DEF Init, TypeOK
<1>13. ClaimsSound
       BY DEF Init, ClaimsSound, OneClaimPerOpening
<1>14. work = store
       BY DEF Init
<1> QED BY <1>7, <1>10, <1>12, <1>13, <1>14, ExtendedReflexive DEF IInv

LEMMA NextIInv ==
    ASSUME IInv, [Next]_vars PROVE IInv'
<1>1. ASSUME NEW p \in Proc, Serve(p)
      PROVE  IInv'
      BY <1>1, ReadStatusStep, WriteStatusStep, EmitEventStep, FetchEventsStep, PeekFirstStep,
         BeginBatchStep, ApplyEventStep, CommitBatchStep DEF Serve
<1>2. ASSUME NEW w \in Worker, Pass(w)
      PROVE  IInv'
      BY <1>2, SelectTaskStep, ClaimTaskStep, StartTaskStep, ReportDoneStep, TaskFailsStep,
         SettleStep DEF Pass
<1>3. ASSUME NEW o \in Operator, Post(o)
      PROVE  IInv'
      BY <1>3, PostEventStep, PostConsumeStep, PostStatusStep, PostTaskStep DEF Post
<1>4. CASE UNCHANGED vars
      <2>1. TypeOK'
            BY <1>4 DEF vars, IInv, TypeOK
      <2>2. HandoffWhole(store)' /\ HandoffWhole(work)'
            BY <1>4 DEF vars, IInv, HandoffWhole
      <2>3. Extended(store, work)'
            BY <1>4 DEF vars, IInv, Extended, Exists, Posted
      <2>4. /\ \A p \in Proc : CallSound(call[p])'
            /\ \A p \in Proc \ Worker : call'[p].goal = "none" /\ call'[p].step # "start"
            BY <1>4 DEF vars, IInv, CallSound, Exists, Posted, SeenExists
      <2>5. ClaimsSound'
            BY <1>4 DEF vars, IInv, ClaimsSound, OneClaimPerOpening
      <2> QED BY <2>1, <2>2, <2>3, <2>4, <2>5 DEF IInv
<1> QED BY <1>1, <1>2, <1>3, <1>4, RequestDiesStep, WorkerDiesStep DEF Next

\* IInv holds in every state of every instance.
THEOREM Inductive == Spec => []IInv
<1>1. Init => IInv
      BY InitIInv
<1>2. IInv /\ [Next]_vars => IInv'
      BY NextIInv
<1> QED BY <1>1, <1>2, PTL DEF Spec

\* Tables, calls and history keep their types (the schema's CHECKs and enums).
THEOREM TypeCorrect == Spec => []TypeOK
<1>1. IInv => TypeOK
      BY DEF IInv
<1> QED BY <1>1, Inductive, PTL

\* However many workers race for a task, at most one claims it between two
\* openings (claim_next_task's guarded UPDATE).
THEOREM ClaimsExclusive == Spec => []OneClaimPerOpening
<1>1. IInv => OneClaimPerOpening
      BY DEF IInv, ClaimsSound
<1> QED BY <1>1, Inductive, PTL

\* No commit shows half of a hand-off, with any number of overlapping consumers,
\* stale reads and deaths (consume_pending_events).
THEOREM HandoffsWhole == Spec => []DownstreamCommitted
<1>1. IInv => DownstreamCommitted
      BY DEF IInv, DownstreamCommitted
<1> QED BY <1>1, Inductive, PTL

-----------------------------------------------------------------------------
(* Where operators leave the tasks of others alone: they ask for no status *)
(* and post no event that writes one.  They still create tasks, hand work  *)
(* over and ask for consumption.                                           *)

LeftAlone ==
    /\ WriteStatuses = {}
    /\ PostTypes \cap {"agent_blocked", "task_retry_requested", "task_requeued"} = {}

Delivered == {"consumed", "ignored"}

\* A batch creates tasks, of events it delivers, and changes no other status.
Advanced(old, new) ==
    /\ \A t \in TaskId :
          \/ new.task[t].status = old.task[t].status
          \/ /\ old.task[t].status = "absent" /\ new.task[t].status = "todo"
             /\ t \in Event /\ new.event[t].status \in Delivered
    /\ \A e \in Event :
          /\ Posted(new, e) <=> Posted(old, e)
          /\ old.event[e].status \in Delivered => new.event[e].status \in Delivered

\* An event that blocks a task comes after its status, and none reopens one.
BlocksTold(db) ==
    \A e \in Event :
        Posted(db, e) =>
            /\ db.event[e].body.type \notin {"task_retry_requested", "task_requeued"}
            /\ db.event[e].body.type = "agent_blocked" =>
                  /\ db.event[e].body.task \in TaskId
                  /\ db.task[db.event[e].body.task].status = "blocked"

\* The request c of p is about a task that p holds, and whose status is what p
\* takes it for; what is to be emitted says no more.
Holds(p, c, db, claims) ==
    /\ c.step \in {"read", "write"} => c.goal # "none" /\ c.next = c.goal
    /\ c.step \in {"start", "run"} => c.goal = "done"
    /\ c.goal # "none" =>
          /\ p \in claims[c.task]
          /\ db.task[c.task].status \notin Claimable \cup {"absent"}
    /\ c.goal = "done" /\ c.step \in {"start", "run", "read", "write"} =>
          db.task[c.task].status = "in_progress"
    /\ c.goal = "blocked" /\ c.step = "write" =>
          db.task[c.task].status \in {"in_progress", "blocked"}
    /\ c.body.type \notin {"task_retry_requested", "task_requeued"}
    /\ c.body.type = "agent_blocked" =>
          /\ c.goal = "blocked" /\ c.body.task = c.task
          /\ c.step = "emit" => db.task[c.task].status = "blocked"

BatchesPosted ==
    \A p \in Proc :
        call[p].step \in {"peek", "begin", "apply"} => \A e \in call[p].batch : Posted(store, e)

HeldInv ==
    /\ IInv
    /\ BlocksTold(store)
    /\ Advanced(store, work)
    /\ BatchesPosted
    /\ \A p \in Proc : Holds(p, call[p], store, holders)

-----------------------------------------------------------------------------
(* What a batch does to the statuses.                                      *)

LEMMA AdvancedReflexive ==
    ASSUME NEW db PROVE Advanced(db, db)
BY DEF Advanced

LEMMA AdvancedTransitive ==
    ASSUME NEW a, NEW b, NEW c, Advanced(a, b), Advanced(b, c)
    PROVE  Advanced(a, c)
<1>1. ASSUME NEW t \in TaskId
      PROVE  \/ c.task[t].status = a.task[t].status
             \/ /\ a.task[t].status = "absent" /\ c.task[t].status = "todo"
                /\ t \in Event /\ c.event[t].status \in Delivered
      BY DEF Advanced
<1>2. ASSUME NEW e \in Event
      PROVE  /\ Posted(c, e) <=> Posted(a, e)
             /\ a.event[e].status \in Delivered => c.event[e].status \in Delivered
      BY DEF Advanced
<1> QED BY <1>1, <1>2 DEF Advanced

\* What is told of the tables is told of what a batch makes of them.
LEMMA BlocksToldAdvances ==
    ASSUME NEW old, NEW new, BlocksTold(old), Extended(old, new), Advanced(old, new)
    PROVE  BlocksTold(new)
<1>1. ASSUME NEW e \in Event, Posted(new, e)
      PROVE  /\ new.event[e].body.type \notin {"task_retry_requested", "task_requeued"}
             /\ new.event[e].body.type = "agent_blocked" =>
                   /\ new.event[e].body.task \in TaskId
                   /\ new.task[new.event[e].body.task].status = "blocked"
      <2>1. Posted(old, e) /\ new.event[e].body = old.event[e].body
            BY <1>1 DEF Advanced, Extended
      <2>2. old.event[e].body.type \notin {"task_retry_requested", "task_requeued"}
            BY <2>1 DEF BlocksTold
      <2>3. ASSUME old.event[e].body.type = "agent_blocked"
            PROVE  /\ old.event[e].body.task \in TaskId
                   /\ new.task[old.event[e].body.task].status = "blocked"
            BY <2>1, <2>3 DEF BlocksTold, Advanced
      <2> QED BY <2>1, <2>2, <2>3
<1> QED BY <1>1 DEF BlocksTold

LEMMA HandledAdvances ==
    ASSUME NEW db \in Database, NEW e \in Event, NEW open \in BOOLEAN, NEW seen,
           Posted(db, e), BlocksTold(db), ~Raises(db, e, open, seen)
    PROVE  LET new == Handled(db, e, open, seen) IN
           /\ new.event = db.event
           /\ \A t \in TaskId : \/ new.task[t].status = db.task[t].status
                                \/ /\ t = e
                                   /\ db.task[t].status = "absent" /\ new.task[t].status = "todo"
<1> DEFINE body == db.event[e].body
           new == Handled(db, e, open, seen)
<1>1. /\ body.type \notin {"task_retry_requested", "task_requeued"}
      /\ body.type = "agent_blocked" =>
            body.task \in TaskId /\ db.task[body.task].status = "blocked"
      BY DEF BlocksTold
<1>2. CASE new = db
      BY <1>2
<1>3. CASE body.type \in DownstreamType /\ ~open /\ new = CreateDownstream(db, e)
      <2>1. db.task[e].status = "absent"
            BY <1>3 DEF Raises
      <2> QED BY <1>3, <2>1, CreateDownstreamFields
<1>4. CASE body.type = "agent_blocked" /\ new = BlockAgent(db, body, seen)
      <2> DEFINE row == SetStatus(db, body.task, "blocked")
      <2>1. "blocked" \in TaskStatus
            BY DEF TaskStatus
      <2>2. /\ row \in Database /\ row.event = db.event
            /\ \A t \in TaskId : row.task[t].status = db.task[t].status
            BY <1>1, <1>4, <2>1, SetStatusType, SetStatusFields
      <2> HIDE DEF row
      <2>3. new = SetAgent(db, body.agent, "blocked", body.task) \/
            new = SetAgent(row, body.agent, "blocked", body.task)
            BY <1>4 DEF BlockAgent, row
      <2> HIDE DEF new, body
      <2>4. new.event = db.event /\ \A t \in TaskId : new.task[t].status = db.task[t].status
            BY <2>2, <2>3, SetAgentFields
      <2> QED BY <2>4 DEF new
<1>5. CASE new = SetAgent(db, body.agent, "idle", None) \/ new = SetAgent(db, body.agent, "done", None)
      BY <1>5, SetAgentFields
<1> QED BY <1>1, <1>2, <1>3, <1>4, <1>5, HandledCases

LEMMA AppliedAdvances ==
    ASSUME NEW db \in Database, NEW e \in Event, NEW open \in BOOLEAN, NEW seen,
           Posted(db, e), BlocksTold(db), ~Raises(db, e, open, seen)
    PROVE  Advanced(db, Applied(db, e, open, seen))
<1> DEFINE made == Handled(db, e, open, seen)
           new == Applied(db, e, open, seen)
<1>1. /\ made \in Database /\ made.event = db.event
      /\ \A t \in TaskId : \/ made.task[t].status = db.task[t].status
                           \/ /\ t = e
                              /\ db.task[t].status = "absent" /\ made.task[t].status = "todo"
      BY HandledAdvances, HandledExtends
<1>2. new = Marked(made, e)
      BY DEF Applied
<1> HIDE DEF made, new
<1>3. /\ new.task = made.task
      /\ \A d \in Event : d # e => new.event[d] = made.event[d]
      /\ new.event[e].status \in Delivered
      BY <1>1, <1>2, MarkedFields DEF Delivered
<1>4. ASSUME NEW d \in Event
      PROVE  /\ Posted(new, d) <=> Posted(db, d)
             /\ db.event[d].status \in Delivered => new.event[d].status \in Delivered
      BY <1>1, <1>3 DEF Posted, Delivered
<1>5. ASSUME NEW t \in TaskId
      PROVE  \/ new.task[t].status = db.task[t].status
             \/ /\ db.task[t].status = "absent" /\ new.task[t].status = "todo"
                /\ t \in Event /\ new.event[t].status \in Delivered
      BY <1>1, <1>3
<1>6. Advanced(db, new)
      BY <1>4, <1>5 DEF Advanced
<1> QED BY <1>6 DEF new

-----------------------------------------------------------------------------
(* What a step does to the requests of the others.                         *)

LEMMA OthersHold ==
    ASSUME HeldInv, NEW p \in Proc, NEW c, Goto(p, c), NEW db, NEW claims,
           \A t \in TaskId :
              store.task[t].status \notin Claimable \cup {"absent"} /\ p \notin holders[t] =>
                 db.task[t].status = store.task[t].status /\ holders[t] \subseteq claims[t],
           Holds(p, c, db, claims)
    PROVE  \A q \in Proc : Holds(q, call'[q], db, claims)
<1> SUFFICES ASSUME NEW q \in Proc PROVE Holds(q, call'[q], db, claims)
    OBVIOUS
<1>1. call \in [Proc -> Call]
      BY DEF HeldInv, IInv, TypeOK
<1>2. CASE q = p
      BY <1>1, <1>2 DEF Goto
<1>3. CASE q # p
      <2>1. call'[q] = call[q]
            BY <1>1, <1>3 DEF Goto
      <2> DEFINE d == call[q]
      <2>2. Holds(q, d, store, holders)
            BY DEF HeldInv
      <2>3. ASSUME d.goal # "none"
            PROVE  /\ db.task[d.task].status = store.task[d.task].status
                   /\ q \in claims[d.task]
            <3>1. d.task \in TaskId
                  BY <2>3 DEF HeldInv, IInv, CallSound
            <3>2. /\ q \in holders[d.task]
                  /\ store.task[d.task].status \notin Claimable \cup {"absent"}
                  BY <2>2, <2>3 DEF Holds
            <3>3. p \notin holders[d.task]
                  BY <1>3, <3>1, <3>2 DEF HeldInv, IInv, ClaimsSound, OneClaimPerOpening
            <3> QED BY <3>1, <3>2, <3>3
      <2> HIDE DEF d
      <2>4. Holds(q, d, db, claims)
            BY <2>2, <2>3 DEF Holds
      <2> QED BY <2>1, <2>4 DEF d
<1> QED BY <1>2, <1>3

\* A step that leaves the committed tables alone.
LEMMA QuietHeld ==
    ASSUME HeldInv, IInv', NEW p \in Proc, NEW c, Goto(p, c), UNCHANGED <<store, holders>>,
           Advanced(store, work'), Holds(p, c, store, holders),
           c.step \in {"peek", "begin", "apply"} => \A e \in c.batch : Posted(store, e)
    PROVE  HeldInv'
<1>1. \A q \in Proc : Holds(q, call'[q], store, holders)
      BY OthersHold
<1>2. call \in [Proc -> Call]
      BY DEF HeldInv, IInv, TypeOK
<1>3. BatchesPosted'
      BY <1>2 DEF HeldInv, BatchesPosted, Goto, Posted
<1>4. BlocksTold(store)'
      BY DEF HeldInv, BlocksTold, Posted
<1>5. Advanced(store, work)'
      BY DEF Advanced, Posted
<1>6. \A q \in Proc : Holds(q, call[q], store, holders)'
      BY <1>1 DEF Holds
<1> QED BY <1>3, <1>4, <1>5, <1>6 DEF HeldInv

\* A step that commits db.
LEMMA PublishHeld ==
    ASSUME HeldInv, IInv', NEW p \in Proc, NEW c, Goto(p, c), NEW db \in Database, Publish(db),
           Extended(store, db), BlocksTold(db), Holds(p, c, db, holders),
           c.step \notin {"peek", "begin", "apply"},
           \A t \in TaskId :
              store.task[t].status \notin Claimable \cup {"absent"} /\ p \notin holders[t] =>
                 db.task[t].status = store.task[t].status
    PROVE  HeldInv'
<1>1. /\ store' = db /\ work' = db
      /\ \A t \in TaskId : holders'[t] = IF t \in Reopened(db) THEN {} ELSE holders[t]
      BY DEF Publish
<1>2. call \in [Proc -> Call]
      BY DEF HeldInv, IInv, TypeOK
<1>3. Holds(p, c, db, holders')
      <2>1. CASE c.goal = "none"
            BY <2>1 DEF Holds
      <2>2. CASE c.goal # "none"
            <3>1. call'[p] = c
                  BY <1>2 DEF Goto
            <3>2. c.task \in TaskId
                  BY <2>2, <3>1 DEF IInv, CallSound
            <3>3. holders'[c.task] = holders[c.task]
                  BY <1>1, <2>2, <3>2 DEF Holds, Reopened
            <3> QED BY <2>2, <3>3 DEF Holds
      <2> QED BY <2>1, <2>2
<1>4. \A t \in TaskId :
         store.task[t].status \notin Claimable \cup {"absent"} /\ p \notin holders[t] =>
            db.task[t].status = store.task[t].status /\ holders[t] \subseteq holders'[t]
      BY <1>1 DEF Reopened
<1>5. \A q \in Proc : Holds(q, call'[q], store', holders')
      BY <1>1, <1>3, <1>4, OthersHold
<1>6. BatchesPosted'
      <2> SUFFICES ASSUME NEW q \in Proc, call'[q].step \in {"peek", "begin", "apply"},
                          NEW e \in call'[q].batch
                   PROVE  store'.event[e].status # "absent"
          BY DEF BatchesPosted, Posted
      <2>1. q # p /\ call'[q] = call[q]
            BY <1>2 DEF Goto
      <2>2. Posted(store, e)
            BY <2>1 DEF HeldInv, BatchesPosted
      <2>3. e \in Event
            BY <1>2, <2>1 DEF Call
      <2> QED BY <1>1, <2>2, <2>3 DEF Extended, Posted
<1>7. BlocksTold(store)'
      BY <1>1 DEF BlocksTold, Posted
<1>8. Advanced(store, work)'
      BY <1>1, AdvancedReflexive DEF Advanced, Posted
<1>9. \A q \in Proc : Holds(q, call[q], store, holders)'
      BY <1>5 DEF Holds
<1> QED BY <1>6, <1>7, <1>8, <1>9 DEF HeldInv

-----------------------------------------------------------------------------
(* The requests that a step goes on with.                                  *)

LEMMA HeldFacts ==
    ASSUME HeldInv, NEW p \in Proc
    PROVE  /\ IInv
           /\ Holds(p, call[p], store, holders)
           /\ BlocksTold(store) /\ BlocksTold(work)
           /\ Advanced(store, work) /\ Extended(store, work)
           /\ store \in Database /\ work \in Database
           /\ call[p] \in Call
           /\ call[p].goal # "none" => call[p].task \in TaskId
           /\ call[p].step \in {"claim", "start", "run", "read", "write"} => call[p].task \in TaskId
BY BlocksToldAdvances DEF HeldInv, IInv, TypeOK, CallSound

\* A request without a goal that writes no status.
LEMMA FreeHolds ==
    ASSUME NEW p, NEW c, NEW db, NEW claims,
           c.goal = "none", c.step \notin {"read", "write", "start", "run"},
           c.body.type \notin {"agent_blocked", "task_retry_requested", "task_requeued"}
    PROVE  Holds(p, c, db, claims)
BY DEF Holds

LEMMA IdleHolds ==
    ASSUME NEW p, NEW db, NEW claims
    PROVE  Holds(p, IdleCall, db, claims)
BY FreeHolds DEF IdleCall, NoPayload

LEMMA BlockHolds ==
    ASSUME NEW p, NEW t, NEW db, NEW claims, p \in claims[t],
           db.task[t].status \notin Claimable \cup {"absent"}
    PROVE  Holds(p, BlockCall(p, t), db, claims)
BY DEF Holds, BlockCall, IdleCall

LEMMA RaisedHolds ==
    ASSUME NEW p \in Proc, NEW db, NEW claims, Holds(p, call[p], db, claims)
    PROVE  Holds(p, Raised(p), db, claims)
<1>1. call[p].goal = "done" =>
         /\ p \in claims[call[p].task]
         /\ db.task[call[p].task].status \notin Claimable \cup {"absent"}
      BY DEF Holds
<1> QED BY <1>1, IdleHolds, BlockHolds DEF Raised

LEMMA ReturnedHolds ==
    ASSUME NEW p \in Proc, NEW db, NEW claims, Holds(p, call[p], db, claims)
    PROVE  Holds(p, Returned(p), db, claims)
<1>1. CASE call[p].goal = "none"
      BY <1>1, IdleHolds DEF Returned
<1>2. CASE call[p].goal # "none"
      BY <1>2 DEF Returned, IdleCall, NoPayload, Holds
<1> QED BY <1>1, <1>2

\* The next step of a request that consumes, whose statuses are all behind it.
LEMMA ConsumingHolds ==
    ASSUME NEW p \in Proc, NEW c, NEW db, NEW claims, Holds(p, call[p], db, claims),
           c.step \in {"fetch", "peek", "begin", "apply"},
           c.goal = call[p].goal, c.task = call[p].task, c.body = call[p].body
    PROVE  Holds(p, c, db, claims)
BY DEF Holds

-----------------------------------------------------------------------------
(* Every action keeps HeldInv.                                             *)

LEMMA SelectTaskHeld ==
    ASSUME HeldInv, IInv', NEW w \in Worker, SelectTask(w)
    PROVE  HeldInv'
<1>1. PICK t \in TaskId : Goto(w, [IdleCall EXCEPT !.step = "claim", !.task = t])
      BY DEF SelectTask
<1> DEFINE c == [IdleCall EXCEPT !.step = "claim", !.task = t]
<1>2. c.step = "claim" /\ Holds(w, c, store, holders)
      BY FreeHolds DEF IdleCall, NoPayload
<1> HIDE DEF c
<1>3. Goto(w, c)
      BY <1>1 DEF c
<1> QED BY <1>2, <1>3, HeldFacts, QuietHeld DEF SelectTask

LEMMA ClaimTaskHeld ==
    ASSUME HeldInv, IInv', NEW w \in Worker, ClaimTask(w)
    PROVE  HeldInv'
<1> DEFINE t == call[w].task
           c == [At(w, "start") EXCEPT !.goal = "done"]
           new == SetStatus(store, t, "in_progress")
<1>1. /\ Holds(w, call[w], store, holders) /\ store \in Database /\ call[w] \in Call
      /\ t \in TaskId /\ Advanced(store, work) /\ BlocksTold(store)
      BY HeldFacts DEF ClaimTask
<1>2. CASE store.task[t].status \notin Claimable
      <2>1. Goto(w, IdleCall) /\ UNCHANGED <<store, work, holders>>
            BY <1>2 DEF ClaimTask
      <2>2. IdleCall.step = "idle"
            BY DEF IdleCall
      <2> QED BY <1>1, <2>1, <2>2, IdleHolds, QuietHeld
<1>3. CASE store.task[t].status \in Claimable
      <2>1. /\ store' = new /\ work' = new /\ Goto(w, c)
            /\ holders' = [holders EXCEPT ![t] = @ \cup {w}]
            BY <1>3 DEF ClaimTask
      <2>2. /\ holders \in [TaskId -> SUBSET Worker] /\ call \in [Proc -> Call]
            BY DEF HeldInv, IInv, TypeOK
      <2>3. "in_progress" \in TaskStatus \ Claimable /\ "absent" \notin Claimable
            BY DEF TaskStatus, Claimable
      <2>4. /\ new.event = store.event
            /\ \A u \in TaskId : /\ u # t => new.task[u] = store.task[u]
                                 /\ u = t => new.task[u].status = "in_progress"
            BY <1>1, <2>3, SetStatusFields
      <2>5. /\ holders'[t] = holders[t] \cup {w}
            /\ \A u \in TaskId : u # t => holders'[u] = holders[u]
            BY <1>1, <2>1, <2>2
      <2>6. c.step = "start" /\ c.goal = "done" /\ c.task = t /\ c.body = call[w].body
            BY <1>1 DEF At, Call
      <2>7. call[w].body.type \notin {"task_retry_requested", "task_requeued", "agent_blocked"}
            <3>1. call[w].step = "claim"
                  BY DEF ClaimTask
            <3>2. call[w].goal = "none" \/ store.task[t].status \notin Claimable
                  BY <1>1 DEF Holds
            <3> QED BY <1>1, <1>3, <3>1, <3>2 DEF Holds
      <2> HIDE DEF new, c, t
      <2>8. Holds(w, c, new, holders')
            BY <1>1, <2>3, <2>4, <2>5, <2>6, <2>7 DEF Holds, Claimable
      <2>9. \A u \in TaskId :
               store.task[u].status \notin Claimable \cup {"absent"} /\ w \notin holders[u] =>
                  new.task[u].status = store.task[u].status /\ holders[u] \subseteq holders'[u]
            BY <1>3, <2>4, <2>5
      <2>10. \A q \in Proc : Holds(q, call'[q], store', holders')
            BY <2>1, <2>8, <2>9, OthersHold
      <2>11. \A q \in Proc : Holds(q, call[q], store, holders)'
            BY <2>10 DEF Holds
      <2>12. \A q \in Proc : q # w => call'[q] = call[q]
            BY <2>1, <2>2 DEF Goto
      <2>13. call'[w] = c
            BY <2>1, <2>2 DEF Goto
      <2>14. BatchesPosted'
            BY <2>1, <2>4, <2>6, <2>12, <2>13 DEF HeldInv, BatchesPosted, Posted
      <2>15. BlocksTold(store)'
            BY <1>1, <1>3, <2>1, <2>4 DEF BlocksTold, Posted, Claimable
      <2>16. Advanced(store, work)'
            BY <2>1, AdvancedReflexive DEF Advanced, Posted
      <2> QED BY <2>11, <2>14, <2>15, <2>16 DEF HeldInv
<1> QED BY <1>2, <1>3

\* A step that commits another state of an agent.
LEMMA AgentHeld ==
    ASSUME HeldInv, IInv', NEW p \in Proc, NEW c, Goto(p, c), NEW agent, NEW state \in AgentState,
           NEW task \in TaskId \cup {None}, Publish(SetAgent(store, agent, state, task)),
           Holds(p, c, store, holders), c.step \notin {"peek", "begin", "apply"}
    PROVE  HeldInv'
<1> DEFINE db == SetAgent(store, agent, state, task)
<1>1. store \in Database /\ BlocksTold(store)
      BY HeldFacts
<1>2. db \in Database /\ db.event = store.event /\ db.task = store.task /\ Extended(store, db)
      BY <1>1, SetAgentType, SetAgentFields, SetAgentExtends
<1>3. Publish(db)
      OBVIOUS
<1> HIDE DEF db
<1>4. BlocksTold(db) /\ Holds(p, c, db, holders)
      BY <1>1, <1>2 DEF BlocksTold, Posted, Holds
<1> QED BY <1>2, <1>3, <1>4, PublishHeld

LEMMA StartTaskHeld ==
    ASSUME HeldInv, IInv', NEW w \in Worker, StartTask(w)
    PROVE  HeldInv'
<1> DEFINE state == IF RoleOf[w] = "reviewer" THEN "review_pending" ELSE "executing"
<1>1. Holds(w, call[w], store, holders) /\ call[w] \in Call
      BY HeldFacts
<1>2. state \in AgentState /\ call[w].task \in TaskId \cup {None}
      BY <1>1 DEF AgentState, Call
<1>3. Publish(SetAgent(store, RoleOf[w], state, call[w].task)) /\ Goto(w, At(w, "run"))
      BY DEF StartTask, Autocommit
<1>4. Holds(w, At(w, "run"), store, holders) /\ At(w, "run").step = "run"
      BY <1>1 DEF StartTask, Holds, At, Call
<1> HIDE DEF state
<1> QED BY <1>2, <1>3, <1>4, AgentHeld

LEMMA SettleHeld ==
    ASSUME HeldInv, IInv', NEW w \in Worker, Settle(w)
    PROVE  HeldInv'
<1>1. call[w] \in Call
      BY HeldFacts
<1>2. {"idle", "blocked"} \subseteq AgentState /\ call[w].task \in TaskId \cup {None}
      BY <1>1 DEF AgentState, Call
<1>3. /\ \/ Publish(SetAgent(store, RoleOf[w], "idle", None))
         \/ Publish(SetAgent(store, RoleOf[w], "blocked", call[w].task))
      /\ Goto(w, IdleCall)
      BY DEF Settle, Autocommit
<1>4. IdleCall.step = "idle" /\ Holds(w, IdleCall, store, holders)
      BY IdleHolds DEF IdleCall
<1> QED BY <1>2, <1>3, <1>4, AgentHeld

LEMMA ReportDoneHeld ==
    ASSUME HeldInv, IInv', NEW w \in Worker, ReportDone(w)
    PROVE  HeldInv'
<1>1. /\ Holds(w, call[w], store, holders) /\ call[w] \in Call /\ Advanced(store, work)
      /\ call[w].step = "run"
      BY HeldFacts DEF ReportDone
<1>2. PICK type \in CompletionTypes(RoleOf[w]), ref \in Ref :
         Goto(w, [At(w, "read") EXCEPT
                    !.next = "done", !.emits = TRUE,
                    !.body = [type |-> type, ref |-> ref, task |-> None,
                              agent |-> IF type = "review_approved" THEN "writer" ELSE None]])
      BY DEF ReportDone
<1> DEFINE body == [type |-> type, ref |-> ref, task |-> None,
                    agent |-> IF type = "review_approved" THEN "writer" ELSE None]
           c == [At(w, "read") EXCEPT !.next = "done", !.emits = TRUE, !.body = body]
<1>3. RoleOf[w] \in Role
      OBVIOUS
<1>4. body.type \notin {"agent_blocked", "task_retry_requested", "task_requeued"}
      BY <1>3 DEF CompletionTypes, Role
<1>5. Goto(w, c)
      BY <1>2
<1> HIDE DEF body
<1>6. /\ c.step = "read" /\ c.next = "done" /\ c.body = body
      /\ c.goal = call[w].goal /\ c.task = call[w].task
      BY <1>1 DEF At, Call
<1> HIDE DEF c
<1>7. Holds(w, c, store, holders)
      BY <1>1, <1>4, <1>6 DEF Holds
<1> QED BY <1>1, <1>5, <1>6, <1>7, QuietHeld DEF ReportDone

LEMMA TaskFailsHeld ==
    ASSUME HeldInv, IInv', NEW w \in Worker, TaskFails(w)
    PROVE  HeldInv'
<1>1. Holds(w, call[w], store, holders) /\ Advanced(store, work)
      BY HeldFacts
<1>2. /\ w \in holders[call[w].task]
      /\ store.task[call[w].task].status \notin Claimable \cup {"absent"}
      BY <1>1 DEF TaskFails, Holds
<1>3. Holds(w, BlockCall(w, call[w].task), store, holders)
      BY <1>2, BlockHolds
<1>4. BlockCall(w, call[w].task).step = "read"
      BY DEF BlockCall, IdleCall
<1> QED BY <1>1, <1>3, <1>4, QuietHeld DEF TaskFails

LEMMA ReadStatusHeld ==
    ASSUME HeldInv, IInv', NEW p \in Proc, ReadStatus(p)
    PROVE  HeldInv'
<1> DEFINE t == call[p].task
<1>1. /\ Holds(p, call[p], store, holders) /\ Advanced(store, work) /\ call[p] \in Call
      /\ store \in Database /\ t \in TaskId
      BY HeldFacts DEF ReadStatus
<1>2. CASE ValidTransition(store.task[t].status, call[p].next)
      <2>1. store.task[t].status \in TaskStatus \cup {"absent"}
            BY <1>1 DEF Database, TaskRow
      <2>2. /\ call[p].goal \in {"done", "blocked"} /\ call[p].next = call[p].goal
            /\ store.task[t].status \notin Claimable \cup {"absent"}
            BY <1>1 DEF ReadStatus, Holds, Call
      <2>3. call[p].goal = "blocked" => store.task[t].status \in {"in_progress", "blocked"}
            BY <1>2, <2>1, <2>2 DEF ValidTransition, TaskStatus, Claimable, TaskTransitions
      <2> DEFINE c == At(p, "write")
      <2>4. /\ c.step = "write" /\ c.goal = call[p].goal /\ c.task = t /\ c.next = call[p].next
            /\ c.body = call[p].body
            BY <1>1 DEF At, Call
      <2>5. Goto(p, c)
            BY <1>2 DEF ReadStatus
      <2> HIDE DEF c, t
      <2>6. Holds(p, c, store, holders)
            BY <1>1, <2>2, <2>3, <2>4 DEF Holds, ReadStatus, t
      <2> QED BY <1>1, <2>4, <2>5, <2>6, QuietHeld DEF ReadStatus
<1>3. CASE ~ValidTransition(store.task[t].status, call[p].next)
      <2>1. Raised(p).step \in {"idle", "read"}
            BY DEF Raised, BlockCall, IdleCall
      <2> QED BY <1>1, <1>3, <2>1, RaisedHolds, QuietHeld DEF ReadStatus
<1> QED BY <1>2, <1>3

LEMMA WriteStatusHeld ==
    ASSUME HeldInv, IInv', NEW p \in Proc, WriteStatus(p)
    PROVE  HeldInv'
<1> DEFINE t == call[p].task
           db == SetStatus(store, t, call[p].next)
           c == IF call[p].emits THEN At(p, "emit") ELSE Returned(p)
<1>1. /\ Holds(p, call[p], store, holders) /\ call[p] \in Call /\ store \in Database
      /\ t \in TaskId /\ BlocksTold(store)
      BY HeldFacts DEF WriteStatus
<1>2. /\ call[p].step = "write" /\ Publish(db) /\ Goto(p, c)
      BY DEF WriteStatus, Autocommit
<1>3. /\ call[p].goal \in {"done", "blocked"} /\ call[p].next = call[p].goal
      /\ p \in holders[t]
      /\ store.task[t].status \notin Claimable \cup {"absent"}
      /\ store.task[t].status = "blocked" => call[p].goal = "blocked"
      BY <1>1, <1>2 DEF Holds, Call
<1>4. call[p].next \in TaskStatus \ (Claimable \cup {"absent"})
      BY <1>3 DEF TaskStatus, Claimable
<1>5. /\ db \in Database /\ Extended(store, db) /\ db.event = store.event
      /\ \A u \in TaskId : /\ u # t => db.task[u] = store.task[u]
                           /\ u = t => db.task[u].status = call[p].next
      BY <1>1, <1>4, SetStatusType, SetStatusExtends, SetStatusFields
<1>6. BlocksTold(db)
      <2> SUFFICES ASSUME NEW e \in Event, Posted(store, e)
                   PROVE  /\ store.event[e].body.type
                                 \notin {"task_retry_requested", "task_requeued"}
                          /\ store.event[e].body.type = "agent_blocked" =>
                                /\ store.event[e].body.task \in TaskId
                                /\ db.task[store.event[e].body.task].status = "blocked"
          BY <1>5 DEF BlocksTold, Posted
      <2> DEFINE u == store.event[e].body.task
      <2>1. store.event[e].body.type \notin {"task_retry_requested", "task_requeued"}
            BY <1>1 DEF BlocksTold
      <2>2. store.event[e].body.type = "agent_blocked" =>
                u \in TaskId /\ store.task[u].status = "blocked"
            BY <1>1 DEF BlocksTold
      <2> QED BY <1>3, <1>5, <2>1, <2>2
<1>7. Holds(p, c, db, holders) /\ c.step \notin {"peek", "begin", "apply"}
      <2>1. CASE call[p].emits
            <3> DEFINE d == At(p, "emit")
            <3>1. /\ d.step = "emit" /\ d.goal = call[p].goal /\ d.task = t
                  /\ d.body = call[p].body
                  BY <1>1 DEF At, Call
            <3>2. c = d
                  BY <2>1
            <3> HIDE DEF d, c, db, t
            <3>3. Holds(p, d, db, holders)
                  BY <1>1, <1>3, <1>4, <1>5, <3>1 DEF Holds, t
            <3> QED BY <3>1, <3>2, <3>3
      <2>2. CASE ~call[p].emits
            <3>1. c = Returned(p) /\ c.step \in {"idle", "settle"}
                  BY <2>2 DEF Returned, IdleCall
            <3> HIDE DEF c, db
            <3>2. c.goal = call[p].goal /\ c.task = t /\ c.body.type = "other"
                  BY <1>3, <3>1 DEF Returned, IdleCall, NoPayload
            <3> HIDE DEF t
            <3>3. Holds(p, c, db, holders)
                  BY <1>1, <1>3, <1>4, <1>5, <3>1, <3>2 DEF Holds
            <3> QED BY <3>1, <3>3
      <2> QED BY <2>1, <2>2
<1>8. \A u \in TaskId : p \notin holders[u] => db.task[u].status = store.task[u].status
      BY <1>3, <1>5
<1> HIDE DEF db, c
<1> QED BY <1>2, <1>5, <1>6, <1>7, <1>8, PublishHeld

LEMMA EmitEventHeld ==
    ASSUME HeldInv, IInv', NEW p \in Proc, EmitEvent(p)
    PROVE  HeldInv'
<1> DEFINE body == call[p].body
<1>1. /\ Holds(p, call[p], store, holders) /\ call[p] \in Call /\ store \in Database
      /\ BlocksTold(store) /\ call[p].step = "emit"
      /\ call[p].goal # "none" => call[p].task \in TaskId
      BY HeldFacts DEF EmitEvent
<1>2. PICK e \in Event : /\ store.event[e].status = "absent"
                         /\ Publish(InsertEvent(store, e, body))
      BY DEF EmitEvent, Autocommit
<1> DEFINE db == InsertEvent(store, e, body)
           c == At(p, "fetch")
<1>3. Publish(db) /\ Goto(p, c)
      BY <1>2 DEF EmitEvent
<1>4. body \in Payload
      BY <1>1 DEF Call
<1>5. /\ db \in Database /\ Extended(store, db) /\ db.task = store.task
      /\ \A d \in Event : /\ d # e => db.event[d] = store.event[d]
                          /\ d = e => db.event[d].body = body
      BY <1>1, <1>2, <1>4, InsertEventType, InsertEventExtends, InsertEventFields DEF Posted
<1>6. c.step = "fetch" /\ c.goal = call[p].goal /\ c.task = call[p].task /\ c.body = body
      BY <1>1 DEF At, Call
<1> HIDE DEF db, c
<1>7. Holds(p, c, store, holders)
      BY <1>1, <1>6, ConsumingHolds
<1>8. Holds(p, c, db, holders)
      BY <1>5, <1>7 DEF Holds
<1>9. BlocksTold(db)
      <2> SUFFICES ASSUME NEW d \in Event, Posted(db, d)
                   PROVE  /\ db.event[d].body.type
                                 \notin {"task_retry_requested", "task_requeued"}
                          /\ db.event[d].body.type = "agent_blocked" =>
                                /\ db.event[d].body.task \in TaskId
                                /\ db.task[db.event[d].body.task].status = "blocked"
          BY DEF BlocksTold
      <2>1. CASE d = e
            BY <1>1, <1>5, <2>1 DEF Holds
      <2>2. CASE d # e
            BY <1>1, <1>5, <2>2 DEF BlocksTold, Posted
      <2> QED BY <2>1, <2>2
<1> QED BY <1>3, <1>5, <1>6, <1>8, <1>9, PublishHeld

LEMMA FetchEventsHeld ==
    ASSUME HeldInv, IInv', NEW p \in Proc, FetchEvents(p)
    PROVE  HeldInv'
<1>1. /\ Holds(p, call[p], store, holders) /\ Advanced(store, work) /\ call[p] \in Call
      BY HeldFacts
<1>2. CASE Oldest(store) = {}
      <2>1. Returned(p).step \in {"idle", "settle"}
            BY DEF Returned, IdleCall
      <2> QED BY <1>1, <1>2, <2>1, ReturnedHolds, QuietHeld DEF FetchEvents
<1>3. CASE Oldest(store) # {}
      <2> DEFINE batch == Oldest(store)
                 c == [At(p, "peek") EXCEPT !.batch = batch]
      <2>1. \A e \in batch : Posted(store, e)
            BY DEF Oldest, Pending, Posted
      <2>2. Goto(p, c)
            BY <1>3 DEF FetchEvents
      <2> HIDE DEF batch
      <2>3. /\ c.step = "peek" /\ c.batch = batch
            /\ c.goal = call[p].goal /\ c.task = call[p].task /\ c.body = call[p].body
            BY <1>1 DEF At, Call
      <2> HIDE DEF c
      <2>4. Holds(p, c, store, holders)
            BY <1>1, <2>3, ConsumingHolds
      <2> QED BY <1>1, <2>1, <2>2, <2>3, <2>4, QuietHeld DEF FetchEvents
<1> QED BY <1>2, <1>3

LEMMA PeekFirstHeld ==
    ASSUME HeldInv, IInv', NEW p \in Proc, PeekFirst(p)
    PROVE  HeldInv'
<1>1. /\ Holds(p, call[p], store, holders) /\ Advanced(store, work) /\ call[p] \in Call
      /\ \A e \in call[p].batch : Posted(store, e)
      BY HeldFacts DEF PeekFirst, HeldInv, BatchesPosted
<1>2. PICK e \in call[p].batch :
         Goto(p, [At(p, "begin") EXCEPT !.first = e, !.open = Reusable(store, e),
                                        !.seen = StatusSeen(store, e)])
      BY DEF PeekFirst
<1> DEFINE c == [At(p, "begin") EXCEPT !.first = e, !.open = Reusable(store, e),
                                       !.seen = StatusSeen(store, e)]
<1>3. Goto(p, c)
      BY <1>2
<1>4. /\ c.step = "begin" /\ c.batch = call[p].batch
      /\ c.goal = call[p].goal /\ c.task = call[p].task /\ c.body = call[p].body
      BY <1>1 DEF At, Call
<1> HIDE DEF c
<1>5. Holds(p, c, store, holders)
      BY <1>1, <1>4, ConsumingHolds
<1> QED BY <1>1, <1>3, <1>4, <1>5, QuietHeld DEF PeekFirst

LEMMA BeginBatchHeld ==
    ASSUME HeldInv, IInv', NEW p \in Proc, BeginBatch(p)
    PROVE  HeldInv'
<1> DEFINE e == call[p].first
           open == call[p].open
           seen == call[p].seen
           db == Applied(store, e, open, seen)
           c == [At(p, "apply") EXCEPT !.batch = @ \ {e}]
<1>1. /\ Holds(p, call[p], store, holders) /\ Advanced(store, work) /\ call[p] \in Call
      /\ store \in Database /\ BlocksTold(store)
      /\ \A d \in call[p].batch : Posted(store, d)
      BY HeldFacts DEF BeginBatch, HeldInv, BatchesPosted
<1>2. e \in Event /\ open \in BOOLEAN /\ Posted(store, e)
      BY <1>1 DEF BeginBatch, HeldInv, IInv, CallSound, Call
<1>3. CASE Raises(store, e, open, seen)
      <2>1. Goto(p, Raised(p)) /\ UNCHANGED <<store, work, holders>>
            BY <1>3 DEF BeginBatch
      <2>2. Raised(p).step \in {"idle", "read"}
            BY DEF Raised, BlockCall, IdleCall
      <2> QED BY <1>1, <2>1, <2>2, RaisedHolds, QuietHeld
<1>4. CASE ~Raises(store, e, open, seen)
      <2>1. Advanced(store, db)
            BY <1>1, <1>2, <1>4, AppliedAdvances
      <2>2. work' = db /\ Goto(p, c) /\ UNCHANGED <<store, holders>>
            BY <1>4 DEF BeginBatch
      <2>3. /\ c.step = "apply" /\ c.batch = call[p].batch \ {e}
            /\ c.goal = call[p].goal /\ c.task = call[p].task /\ c.body = call[p].body
            BY <1>1 DEF At, Call
      <2> HIDE DEF c, db, e
      <2>4. Holds(p, c, store, holders)
            BY <1>1, <2>3, ConsumingHolds
      <2> QED BY <1>1, <2>1, <2>2, <2>3, <2>4, QuietHeld
<1> QED BY <1>3, <1>4

LEMMA ApplyEventHeld ==
    ASSUME HeldInv, IInv', NEW p \in Proc, ApplyEvent(p)
    PROVE  HeldInv'
<1>1. /\ Holds(p, call[p], store, holders) /\ Advanced(store, work) /\ call[p] \in Call
      /\ work \in Database /\ BlocksTold(work)
      /\ \A d \in call[p].batch : Posted(store, d)
      /\ call[p].step = "apply"
      BY HeldFacts DEF ApplyEvent, HeldInv, BatchesPosted
<1>2. PICK e \in call[p].batch :
         LET open == Reusable(work, e)
             seen == StatusSeen(work, e)
         IN  IF Raises(work, e, open, seen)
             THEN Goto(p, Raised(p)) /\ Rollback(p)
             ELSE /\ work' = Applied(work, e, open, seen)
                  /\ Goto(p, [call[p] EXCEPT !.batch = @ \ {e}])
                  /\ UNCHANGED writer
      BY DEF ApplyEvent
<1> DEFINE open == Reusable(work, e)
           seen == StatusSeen(work, e)
           db == Applied(work, e, open, seen)
           c == [call[p] EXCEPT !.batch = @ \ {e}]
<1>3. e \in Event /\ open \in BOOLEAN /\ Posted(work, e)
      BY <1>1 DEF Call, Reusable, Advanced
<1>4. UNCHANGED <<store, holders>>
      BY DEF ApplyEvent
<1>5. CASE Raises(work, e, open, seen)
      <2>1. Goto(p, Raised(p)) /\ (work' = store \/ work' = work)
            BY <1>2, <1>5 DEF Rollback
      <2>2. Raised(p).step \in {"idle", "read"}
            BY DEF Raised, BlockCall, IdleCall
      <2>3. Advanced(store, work')
            BY <1>1, <2>1, AdvancedReflexive
      <2> QED BY <1>1, <1>4, <2>1, <2>2, <2>3, RaisedHolds, QuietHeld
<1>6. CASE ~Raises(work, e, open, seen)
      <2>1. Advanced(work, db)
            BY <1>1, <1>3, <1>6, AppliedAdvances
      <2>2. work' = db /\ Goto(p, c)
            BY <1>2, <1>6
      <2>3. Advanced(store, db)
            BY <1>1, <2>1, AdvancedTransitive
      <2>4. /\ c.step = "apply" /\ c.batch = call[p].batch \ {e}
            /\ c.goal = call[p].goal /\ c.task = call[p].task /\ c.body = call[p].body
            BY <1>1 DEF Call
      <2> HIDE DEF c, db
      <2>5. Holds(p, c, store, holders)
            BY <1>1, <2>4, ConsumingHolds
      <2> QED BY <1>1, <1>4, <2>2, <2>3, <2>4, <2>5, QuietHeld
<1> QED BY <1>5, <1>6

LEMMA CommitBatchHeld ==
    ASSUME HeldInv, IInv', NEW p \in Proc, CommitBatch(p)
    PROVE  HeldInv'
<1>1. /\ Holds(p, call[p], store, holders) /\ call[p] \in Call /\ Advanced(store, work)
      /\ work \in Database /\ BlocksTold(work) /\ Extended(store, work)
      /\ call[p].goal # "none" => call[p].task \in TaskId
      BY HeldFacts
<1>2. Publish(work) /\ Goto(p, Returned(p))
      BY DEF CommitBatch
<1>3. \A t \in TaskId : store.task[t].status # "absent" =>
                           work.task[t].status = store.task[t].status
      BY <1>1 DEF Advanced
<1>4. Holds(p, Returned(p), store, holders) /\ Returned(p).step \in {"idle", "settle"}
      BY <1>1, ReturnedHolds DEF Returned, IdleCall
<1> DEFINE c == Returned(p)
<1>5. /\ c.goal # "none" => c.task \in TaskId
      /\ c.body.type = "other"
      BY <1>1 DEF Returned, IdleCall, NoPayload
<1> HIDE DEF c
<1>6. Holds(p, c, work, holders)
      <2>1. Holds(p, c, store, holders) /\ c.step \in {"idle", "settle"}
            BY <1>4 DEF c
      <2> QED BY <1>3, <1>5, <2>1 DEF Holds
<1> QED BY <1>1, <1>2, <1>3, <1>4, <1>6, PublishHeld DEF c

LEMMA PostEventHeld ==
    ASSUME HeldInv, LeftAlone, IInv', NEW o \in Operator, PostEvent(o)
    PROVE  HeldInv'
<1>1. PICK body \in PostedBody : Goto(o, [IdleCall EXCEPT !.step = "emit", !.body = body])
      BY DEF PostEvent
<1> DEFINE c == [IdleCall EXCEPT !.step = "emit", !.body = body]
<1>2. body.type \notin {"agent_blocked", "task_retry_requested", "task_requeued"}
      BY <1>1 DEF PostedBody, LeftAlone, DownstreamType, DownstreamOwner
<1>3. Goto(o, c)
      BY <1>1
<1>4. c.step = "emit" /\ c.goal = "none" /\ c.body = body
      BY DEF IdleCall
<1> HIDE DEF c
<1>5. Holds(o, c, store, holders)
      BY <1>2, <1>4, FreeHolds
<1> QED BY <1>3, <1>4, <1>5, HeldFacts, QuietHeld DEF PostEvent

LEMMA PostConsumeHeld ==
    ASSUME HeldInv, IInv', NEW o \in Operator, PostConsume(o)
    PROVE  HeldInv'
<1> DEFINE c == [IdleCall EXCEPT !.step = "fetch"]
<1>1. c.step = "fetch" /\ c.goal = "none" /\ c.body.type = "other" /\ Goto(o, c)
      BY DEF PostConsume, IdleCall, NoPayload
<1> HIDE DEF c
<1>2. Holds(o, c, store, holders)
      BY <1>1, FreeHolds
<1> QED BY <1>1, <1>2, HeldFacts, QuietHeld DEF PostConsume

LEMMA PostTaskHeld ==
    ASSUME HeldInv, LeftAlone, IInv', NEW o \in Operator, PostTask(o)
    PROVE  HeldInv'
<1>1. /\ Holds(o, call[o], store, holders) /\ store \in Database /\ BlocksTold(store)
      /\ call[o].goal # "none" => call[o].task \in TaskId
      BY HeldFacts
<1>2. PICK t \in SeedTask, owner \in Role, ref \in Ref \cup {None} :
         /\ store.task[t].status = "absent"
         /\ Publish(SetStatus(InsertTask(store, t, owner, ref), t, "todo"))
      BY DEF PostTask, Autocommit, LeftAlone
<1> DEFINE row == InsertTask(store, t, owner, ref)
           db == SetStatus(row, t, "todo")
<1>3. "todo" \in TaskStatus
      BY DEF TaskStatus
<1>4. /\ row \in Database /\ Extended(store, row) /\ row.event = store.event
      /\ \A u \in TaskId : u # t => row.task[u] = store.task[u]
      BY <1>1, InsertTaskType, InsertTaskExtends, InsertTaskFields
<1> HIDE DEF row
<1>5. /\ db \in Database /\ Extended(row, db) /\ db.event = row.event
      /\ \A u \in TaskId : u # t => db.task[u] = row.task[u]
      BY <1>3, <1>4, SetStatusType, SetStatusExtends, SetStatusFields
<1>6. Publish(db)
      BY <1>2 DEF row
<1> HIDE DEF db
<1>7. Extended(store, db)
      BY <1>4, <1>5, ExtendedTransitive
<1>8. \A u \in TaskId : store.task[u].status # "absent" =>
                           db.task[u].status = store.task[u].status
      BY <1>2, <1>4, <1>5
<1>9. /\ Goto(o, call[o]) /\ call[o].step = "idle"
      BY DEF PostTask, Goto, HeldInv, IInv, TypeOK
<1>10. Holds(o, call[o], db, holders)
      BY <1>1, <1>8, <1>9 DEF Holds
<1>11. BlocksTold(db)
      BY <1>1, <1>4, <1>5, <1>8 DEF BlocksTold, Posted
<1> QED BY <1>5, <1>6, <1>7, <1>8, <1>9, <1>10, <1>11, PublishHeld

LEMMA RequestDiesHeld ==
    ASSUME HeldInv, IInv', NEW p \in Proc, RequestDies(p)
    PROVE  HeldInv'
<1> DEFINE c == IF call[p].step = "start" THEN BlockCall(p, call[p].task) ELSE Raised(p)
<1>1. Holds(p, call[p], store, holders) /\ Advanced(store, work)
      BY HeldFacts
<1>2. /\ Goto(p, c) /\ (work' = store \/ work' = work) /\ UNCHANGED <<store, holders>>
      BY DEF RequestDies, Rollback
<1>3. Advanced(store, work')
      BY <1>1, <1>2, AdvancedReflexive
<1>4. call[p].step = "start" => /\ p \in holders[call[p].task]
                                /\ store.task[call[p].task].status \notin Claimable \cup {"absent"}
      BY <1>1 DEF Holds
<1>5. Holds(p, c, store, holders)
      BY <1>1, <1>4, BlockHolds, RaisedHolds
<1>6. c.step \in {"idle", "read"}
      BY DEF Raised, BlockCall, IdleCall
<1> HIDE DEF c
<1> QED BY <1>2, <1>3, <1>5, <1>6, QuietHeld

LEMMA WorkerDiesHeld ==
    ASSUME HeldInv, IInv', NEW w \in Worker, WorkerDies(w)
    PROVE  HeldInv'
<1>1. IdleCall.step = "idle" /\ Holds(w, IdleCall, store, holders)
      BY IdleHolds DEF IdleCall
<1> QED BY <1>1, HeldFacts, QuietHeld DEF WorkerDies

LEMMA InitHeld ==
    ASSUME Init PROVE HeldInv
<1>1. IInv
      BY InitIInv
<1>2. \A e \in Event : ~Posted(store, e)
      BY DEF Init, NoEvent, Posted
<1>3. BlocksTold(store)
      BY <1>2 DEF BlocksTold
<1>4. work = store /\ \A p \in Proc : call[p] = IdleCall
      BY DEF Init
<1>5. Advanced(store, work)
      BY <1>4, AdvancedReflexive
<1>6. BatchesPosted
      BY <1>4 DEF BatchesPosted, IdleCall
<1>7. \A p \in Proc : Holds(p, call[p], store, holders)
      BY <1>4, IdleHolds
<1> QED BY <1>1, <1>3, <1>5, <1>6, <1>7 DEF HeldInv

LEMMA NextHeld ==
    ASSUME HeldInv, LeftAlone, [Next]_vars PROVE HeldInv'
<1>1. IInv'
      BY NextIInv DEF HeldInv
<1>2. ASSUME NEW p \in Proc, Serve(p)
      PROVE  HeldInv'
      BY <1>1, <1>2, ReadStatusHeld, WriteStatusHeld, EmitEventHeld, FetchEventsHeld,
         PeekFirstHeld, BeginBatchHeld, ApplyEventHeld, CommitBatchHeld DEF Serve
<1>3. ASSUME NEW w \in Worker, Pass(w)
      PROVE  HeldInv'
      BY <1>1, <1>3, SelectTaskHeld, ClaimTaskHeld, StartTaskHeld, ReportDoneHeld,
         TaskFailsHeld, SettleHeld DEF Pass
<1>4. ASSUME NEW o \in Operator, Post(o)
      PROVE  HeldInv'
      <2>1. ~PostStatus(o)
            BY DEF PostStatus, LeftAlone
      <2> QED BY <1>1, <1>4, <2>1, PostEventHeld, PostConsumeHeld, PostTaskHeld DEF Post
<1>5. CASE UNCHANGED vars
      BY <1>1, <1>5 DEF vars, HeldInv, BlocksTold, Advanced, BatchesPosted, Posted, Holds
<1> QED BY <1>1, <1>2, <1>3, <1>4, <1>5, RequestDiesHeld, WorkerDiesHeld DEF Next

\* HeldInv holds in every state where operators leave the tasks of others alone.
THEOREM HeldInductive == ASSUME LeftAlone PROVE Spec => []HeldInv
<1>1. Init => HeldInv
      BY InitHeld
<1>2. HeldInv /\ [Next]_vars => HeldInv'
      BY NextHeld
<1> QED BY <1>1, <1>2, PTL DEF Spec

\* From the claim until the report is written, a task is its worker's own,
\* whatever hand-offs are posted twice and whoever dies (claim_next_task,
\* update_task_status).
THEOREM RunnersOwnTasks == ASSUME LeftAlone PROVE Spec => []RunnerOwnsTask
<1>1. HeldInv => RunnerOwnsTask
      BY DEF HeldInv, Holds, RunnerOwnsTask
<1> QED BY <1>1, HeldInductive, PTL

-----------------------------------------------------------------------------
(* TaskHandoff implements TaskBoard: every step is one of the board's, or  *)
(* none of its business.                                                   *)

LEMMA BoardUnmoved ==
    ASSUME \A t \in TaskId : store'.task[t].status = store.task[t].status,
           \A e \in Event : store'.event[e].status = store.event[e].status
    PROVE  UNCHANGED Board!board
BY DEF Board!board

\* A task moves along the table of state_machine.py.
LEMMA BoardMoves ==
    ASSUME NEW t \in TaskId, NEW next \in TaskStatus,
           ValidTransition(store.task[t].status, next), store'.task[t].status = next,
           \A u \in TaskId : u # t => store'.task[u].status = store.task[u].status,
           \A e \in Event : store'.event[e].status = store.event[e].status
    PROVE  Board!Next
<1>1. Board!Move(t, next)
      BY DEF Board!Move, Board!ValidTransition, Board!TaskStatus, Board!TaskTransitions,
             ValidTransition, TaskStatus, TaskTransitions, Board!TaskId
<1>2. t \in Board!TaskId /\ next \in Board!TaskStatus
      BY DEF Board!TaskId, Board!TaskStatus, TaskStatus
<1> QED BY <1>1, <1>2 DEF Board!Next

LEMMA ClaimTaskBoard ==
    ASSUME HeldInv, NEW w \in Worker, ClaimTask(w)
    PROVE  [Board!Next]_Board!board
<1> DEFINE t == call[w].task
           new == SetStatus(store, t, "in_progress")
<1>1. store \in Database /\ t \in TaskId
      BY HeldFacts DEF ClaimTask
<1>2. CASE store.task[t].status \notin Claimable
      BY <1>2, BoardUnmoved DEF ClaimTask
<1>3. CASE store.task[t].status \in Claimable
      <2>1. store' = new
            BY <1>3 DEF ClaimTask
      <2>2. "in_progress" \in TaskStatus
            BY DEF TaskStatus
      <2>3. /\ new.event = store.event
            /\ \A u \in TaskId : /\ u # t => new.task[u] = store.task[u]
                                 /\ u = t => new.task[u].status = "in_progress"
            BY <1>1, <2>2, SetStatusFields
      <2>4. ValidTransition(store.task[t].status, "in_progress")
            BY <1>3 DEF Claimable, ValidTransition, TaskStatus, TaskTransitions
      <2> HIDE DEF t, new
      <2> QED BY <1>1, <2>1, <2>2, <2>3, <2>4, BoardMoves
<1> QED BY <1>2, <1>3

LEMMA WriteStatusBoard ==
    ASSUME HeldInv, NEW p \in Proc, WriteStatus(p)
    PROVE  [Board!Next]_Board!board
<1> DEFINE t == call[p].task
           next == call[p].next
           new == SetStatus(store, t, next)
<1>1. /\ Holds(p, call[p], store, holders) /\ call[p] \in Call /\ store \in Database
      /\ t \in TaskId /\ call[p].step = "write"
      BY HeldFacts DEF WriteStatus
<1>2. store' = new
      BY DEF WriteStatus, Autocommit, Publish
<1>3. next \in TaskStatus
      BY <1>1 DEF Call
<1>4. /\ new.event = store.event
      /\ \A u \in TaskId : /\ u # t => new.task[u] = store.task[u]
                           /\ u = t => new.task[u].status = next
      BY <1>1, <1>3, SetStatusFields
<1>5. \/ next = "done" /\ store.task[t].status = "in_progress"
      \/ next = "blocked" /\ store.task[t].status \in {"in_progress", "blocked"}
      BY <1>1 DEF Holds, Call
<1>6. ValidTransition(store.task[t].status, next)
      BY <1>5 DEF ValidTransition, TaskStatus, TaskTransitions
<1> HIDE DEF t, new, next
<1> QED BY <1>1, <1>2, <1>3, <1>4, <1>6, BoardMoves

LEMMA EmitEventBoard ==
    ASSUME HeldInv, NEW p \in Proc, EmitEvent(p)
    PROVE  [Board!Next]_Board!board
<1>1. PICK e \in Event : /\ store.event[e].status = "absent"
                         /\ store' = InsertEvent(store, e, call[p].body)
      BY DEF EmitEvent, Autocommit, Publish
<1>2. store \in Database
      BY HeldFacts
<1>3. /\ store'.task = store.task
      /\ \A d \in Event : /\ d # e => store'.event[d] = store.event[d]
                          /\ d = e => store'.event[d].status = "pending"
      BY <1>1, <1>2, InsertEventFields
<1>4. Board!Post(e)
      BY <1>1, <1>3 DEF Board!Post
<1> QED BY <1>4 DEF Board!Next

LEMMA CommitBatchBoard ==
    ASSUME HeldInv, NEW p \in Proc, CommitBatch(p)
    PROVE  [Board!Next]_Board!board
<1>1. store' = work
      BY DEF CommitBatch, Publish
<1>2. Advanced(store, work)
      BY HeldFacts
<1> PICK batch : batch = {e \in Event : work.event[e].status \in Delivered}
    OBVIOUS
<1>3. batch \in SUBSET {e \in Event : store.event[e].status # "absent"}
      BY <1>2 DEF Advanced, Posted, Delivered
<1>4. Board!Deliver(batch)
      <2>1. {e \in Event : store'.event[e].status \in {"consumed", "ignored"}} =
               {e \in Event : store.event[e].status \in {"consumed", "ignored"}} \cup batch
            BY <1>1, <1>2 DEF Advanced, Delivered
      <2>2. {e \in Event : store'.event[e].status # "absent"} =
               {e \in Event : store.event[e].status # "absent"}
            BY <1>1, <1>2 DEF Advanced, Posted
      <2>3. \A t \in TaskId : \/ store'.task[t].status = store.task[t].status
                              \/ /\ store.task[t].status = "absent" /\ t \in batch
                                 /\ store'.task[t].status = "todo"
            BY <1>1, <1>2 DEF Advanced
      <2> QED BY <2>1, <2>2, <2>3 DEF Board!Deliver, Board!TaskId
<1> QED BY <1>3, <1>4 DEF Board!Next

LEMMA PostTaskBoard ==
    ASSUME HeldInv, LeftAlone, NEW o \in Operator, PostTask(o)
    PROVE  [Board!Next]_Board!board
<1>1. PICK t \in SeedTask, owner \in Role, ref \in Ref \cup {None} :
         /\ store.task[t].status = "absent"
         /\ store' = SetStatus(InsertTask(store, t, owner, ref), t, "todo")
      BY DEF PostTask, Autocommit, Publish, LeftAlone
<1> DEFINE row == InsertTask(store, t, owner, ref)
<1>2. store \in Database /\ "todo" \in TaskStatus
      BY HeldFacts DEF TaskStatus
<1>3. /\ row \in Database /\ row.event = store.event
      /\ \A u \in TaskId : u # t => row.task[u] = store.task[u]
      BY <1>2, InsertTaskType, InsertTaskFields
<1>4. store' = SetStatus(row, t, "todo")
      BY <1>1
<1> HIDE DEF row
<1>5. /\ store'.event = store.event
      /\ \A u \in TaskId : /\ u # t => store'.task[u] = store.task[u]
                           /\ u = t => store'.task[u].status = "todo"
      BY <1>2, <1>3, <1>4, SetStatusFields
<1>6. Board!Create(t, "todo")
      BY <1>1, <1>5 DEF Board!Create, Board!TaskId
<1> QED BY <1>6 DEF Board!Next, Board!TaskStatus

LEMMA BoardStep ==
    ASSUME HeldInv, LeftAlone, [Next]_vars
    PROVE  [Board!Next]_Board!board
<1>1. CASE UNCHANGED store
      BY <1>1, BoardUnmoved
<1>2. ASSUME NEW w \in Worker, StartTask(w) \/ Settle(w)
      PROVE  [Board!Next]_Board!board
      <2>1. PICK agent, state, task : store' = SetAgent(store, agent, state, task)
            BY <1>2 DEF StartTask, Settle, Autocommit, Publish
      <2>2. store'.task = store.task /\ store'.event = store.event
            BY <2>1, SetAgentFields, HeldFacts
      <2> QED BY <2>2, BoardUnmoved
<1>3. ASSUME NEW p \in Proc, Serve(p), store' # store
      PROVE  [Board!Next]_Board!board
      BY <1>3, WriteStatusBoard, EmitEventBoard, CommitBatchBoard
         DEF Serve, ReadStatus, FetchEvents, PeekFirst, BeginBatch, ApplyEvent
<1>4. ASSUME NEW w \in Worker, Pass(w), store' # store
      PROVE  [Board!Next]_Board!board
      BY <1>2, <1>4, ClaimTaskBoard DEF Pass, SelectTask, ReportDone, TaskFails
<1>5. ASSUME NEW o \in Operator, Post(o), store' # store
      PROVE  [Board!Next]_Board!board
      BY <1>5, PostTaskBoard DEF Post, PostEvent, PostConsume, PostStatus
<1> QED BY <1>1, <1>3, <1>4, <1>5 DEF Next, RequestDies, WorkerDies, vars

\* Where operators leave the tasks of others alone, the tables move as TaskBoard
\* allows: no stale read, repeated event or death moves a task against the table
\* or creates one without its event (update_task_status, consume_pending_events).
THEOREM BoardImplemented == ASSUME LeftAlone PROVE Spec => ImplementsBoard
<1>1. Init => Board!Init
      <2> SUFFICES ASSUME Init PROVE Board!Init
          OBVIOUS
      <2>1. /\ \A t \in TaskId : store.task[t].status =
                                    IF t \in Bootstrap THEN "todo" ELSE "absent"
            /\ \A e \in Event : store.event[e].status = "absent"
            BY DEF Init, NoTask, NoEvent
      <2> QED BY <2>1 DEF Board!Init, Board!TaskId
<1>2. HeldInv /\ [Next]_vars => [Board!Next]_Board!board
      BY BoardStep
<1> QED BY <1>1, <1>2, HeldInductive, PTL DEF Spec, ImplementsBoard, Board!Spec

\* A finished task stays finished, as TaskBoard has it of its tasks, where
\* operators leave it alone (state_machine.py: done has no successor).
THEOREM DoneIsFinal == ASSUME LeftAlone PROVE Spec => DoneStaysDone
<1>1. HeldInv /\ [Next]_vars =>
         [\A t \in TaskId : store.task[t].status = "done" => store'.task[t].status = "done"]_vars
      <2> SUFFICES ASSUME HeldInv, [Next]_vars, NEW t \in TaskId, store.task[t].status = "done"
                   PROVE  store'.task[t].status = "done"
          OBVIOUS
      <2> DEFINE old == [u \in TaskId |-> store.task[u].status]
                 new == [u \in TaskId |-> store'.task[u].status]
      <2>1. CASE UNCHANGED Board!board
            <3>1. new = old
                  BY <2>1 DEF Board!board
            <3> QED BY <3>1
      <2>2. ASSUME NEW u \in SeedTask, NEW first, Board!Create(u, first)
            PROVE  new[t] = "done"
            BY <2>2 DEF Board!Create
      <2>3. ASSUME NEW u \in TaskId, NEW next, Board!Move(u, next)
            PROVE  new[t] = "done"
            <3>1. ~(old[u] = "done" /\ next # "done")
                  BY <2>3 DEF Board!Move, Board!ValidTransition, Board!TaskTransitions
            <3>2. new = [old EXCEPT ![u] = next]
                  BY <2>3 DEF Board!Move
            <3> QED BY <3>1, <3>2
      <2>4. ASSUME NEW e \in Event, Board!Post(e)
            PROVE  new[t] = "done"
            <3>1. new = old
                  BY <2>4 DEF Board!Post
            <3> QED BY <3>1
      <2>5. ASSUME NEW batch, Board!Deliver(batch)
            PROVE  new[t] = "done"
            BY <2>5 DEF Board!Deliver, Board!Open, Board!TaskId
      <2>6. CASE Board!Next
            BY <2>2, <2>3, <2>4, <2>5, <2>6 DEF Board!Next, Board!TaskId
      <2> QED BY <2>1, <2>6, BoardStep
<1> QED BY <1>1, HeldInductive, PTL DEF Spec, DoneStaysDone

-----------------------------------------------------------------------------
(* Where nobody writes the status done by hand, every finished task is the *)
(* work of one report, which is announced, still on its way or died.       *)

OnlyReportsFinish == "done" \notin WriteStatuses

Finished(db) == {t \in TaskId : db.task[t].status = "done"}

Announced(db) ==
    {e \in Event : db.event[e].status # "absent" /\ db.event[e].body.type \in CompletionEvent}

Emits(c) == c.step = "emit" /\ c.next = "done"

Emitting(calls) == {w \in Worker : Emits(calls[w])}

\* Only a worker reports a task as done, with a completion event.
Reports(p, c) ==
    c.step \in {"read", "write", "emit"} /\ c.next = "done" =>
        p \in Worker /\ c.emits /\ c.body.type \in CompletionEvent

AccountInv ==
    /\ IInv
    /\ HandoffAccounted
    /\ Finished(work) \subseteq Finished(store)
    /\ IsFiniteSet(Finished(store)) /\ IsFiniteSet(Emitting(call))
    /\ IsFiniteSet(Announced(store)) /\ IsFiniteSet(Announced(work))
    /\ \A p \in Proc : Reports(p, call[p])

LEMMA CountKept ==
    ASSUME NEW F, IsFiniteSet(F), NEW A, NEW B, IsFiniteSet(B), NEW M, IsFiniteSet(M),
           NEW G \in SUBSET F, A \in SUBSET B, NEW m \in Nat, NEW n \in Nat, m <= n,
           Cardinality(F) <= Cardinality(A) + Cardinality(M) + m
    PROVE  IsFiniteSet(G) /\ Cardinality(G) <= Cardinality(B) + Cardinality(M) + n
<1>1. IsFiniteSet(G) /\ Cardinality(G) <= Cardinality(F)
      BY FS_Subset
<1>2. IsFiniteSet(A) /\ Cardinality(A) <= Cardinality(B)
      BY FS_Subset
<1>3. /\ Cardinality(F) \in Nat /\ Cardinality(G) \in Nat /\ Cardinality(A) \in Nat
      /\ Cardinality(B) \in Nat /\ Cardinality(M) \in Nat
      BY <1>1, <1>2, FS_CardinalityType
<1> QED BY <1>1, <1>2, <1>3

LEMMA CountFinished ==
    ASSUME NEW F, IsFiniteSet(F), NEW A, IsFiniteSet(A), NEW M, IsFiniteSet(M), NEW t, NEW p,
           p \notin M, NEW G \in SUBSET (F \cup {t}), NEW n \in Nat,
           Cardinality(F) <= Cardinality(A) + Cardinality(M) + n
    PROVE  /\ IsFiniteSet(G) /\ IsFiniteSet(M \cup {p})
           /\ Cardinality(G) <= Cardinality(A) + Cardinality(M \cup {p}) + n
<1>1. /\ IsFiniteSet(F \cup {t})
      /\ Cardinality(F \cup {t}) = IF t \in F THEN Cardinality(F) ELSE Cardinality(F) + 1
      BY FS_AddElement
<1>2. IsFiniteSet(G) /\ Cardinality(G) <= Cardinality(F \cup {t})
      BY <1>1, FS_Subset
<1>3. IsFiniteSet(M \cup {p}) /\ Cardinality(M \cup {p}) = Cardinality(M) + 1
      BY FS_AddElement
<1>4. /\ Cardinality(F) \in Nat /\ Cardinality(G) \in Nat /\ Cardinality(A) \in Nat
      /\ Cardinality(M) \in Nat
      BY <1>2, FS_CardinalityType
<1> QED BY <1>1, <1>2, <1>3, <1>4

LEMMA CountAnnounced ==
    ASSUME NEW F, IsFiniteSet(F), NEW A, IsFiniteSet(A), NEW M, IsFiniteSet(M), NEW e, NEW p,
           e \notin A, NEW n \in Nat,
           Cardinality(F) <= Cardinality(A) + Cardinality(M) + n
    PROVE  /\ IsFiniteSet(A \cup {e}) /\ IsFiniteSet(M \ {p})
           /\ Cardinality(F) <= Cardinality(A \cup {e}) + Cardinality(M \ {p}) + n
<1>1. IsFiniteSet(A \cup {e}) /\ Cardinality(A \cup {e}) = Cardinality(A) + 1
      BY FS_AddElement
<1>2. /\ IsFiniteSet(M \ {p})
      /\ Cardinality(M \ {p}) = IF p \in M THEN Cardinality(M) - 1 ELSE Cardinality(M)
      BY FS_RemoveElement
<1>3. Cardinality(F) \in Nat /\ Cardinality(A) \in Nat /\ Cardinality(M) \in Nat
      BY FS_CardinalityType
<1> QED BY <1>1, <1>2, <1>3

LEMMA CountDied ==
    ASSUME NEW F, IsFiniteSet(F), NEW A, IsFiniteSet(A), NEW M, IsFiniteSet(M), NEW p, NEW n \in Nat,
           Cardinality(F) <= Cardinality(A) + Cardinality(M) + n
    PROVE  /\ IsFiniteSet(M \ {p})
           /\ Cardinality(F) <= Cardinality(A) + Cardinality(M \ {p}) + (n + 1)
<1>1. /\ IsFiniteSet(M \ {p})
      /\ Cardinality(M \ {p}) = IF p \in M THEN Cardinality(M) - 1 ELSE Cardinality(M)
      BY FS_RemoveElement
<1>2. Cardinality(F) \in Nat /\ Cardinality(A) \in Nat /\ Cardinality(M) \in Nat
      BY FS_CardinalityType
<1> QED BY <1>1, <1>2

-----------------------------------------------------------------------------
(* What the statements finish and announce.                                *)

\* A handler finishes nothing.
LEMMA AppliedFinishes ==
    ASSUME NEW db \in Database, NEW e \in Event, NEW open \in BOOLEAN, NEW seen
    PROVE  /\ Finished(Applied(db, e, open, seen)) \subseteq Finished(db)
           /\ Announced(Applied(db, e, open, seen)) \subseteq Announced(db) \cup {e}
<1> DEFINE body == db.event[e].body
           made == Handled(db, e, open, seen)
           new == Marked(made, e)
<1>1. made \in Database
      BY HandledExtends
<1>2. /\ new.task = made.task
      /\ \A d \in Event : d # e => new.event[d] = made.event[d]
      BY <1>1, MarkedFields
<1>3. Applied(db, e, open, seen) = new
      BY DEF Applied
<1>4. ASSUME NEW status \in {"retry", "todo", "blocked"}, NEW agent, NEW state, NEW task
      PROVE  LET row == SetAgent(SetStatus(db, body.task, status), agent, state, task) IN
             /\ row.event = db.event
             /\ \A u \in TaskId : row.task[u].status = "done" => db.task[u].status = "done"
      <2>1. status \in TaskStatus /\ status # "done"
            BY DEF TaskStatus
      <2> DEFINE set == SetStatus(db, body.task, status)
      <2>2. /\ set \in Database /\ set.event = db.event
            /\ \A u \in TaskId : set.task[u].status = "done" => db.task[u].status = "done"
            BY <2>1, SetStatusType, SetStatusFields
      <2> HIDE DEF set
      <2>3. LET row == SetAgent(set, agent, state, task) IN
               row.event = set.event /\ row.task = set.task
            BY <2>2, SetAgentFields
      <2> QED BY <2>2, <2>3 DEF set
<1>5. ASSUME NEW agent, NEW state, NEW task
      PROVE  LET row == SetAgent(db, agent, state, task) IN
             row.event = db.event /\ row.task = db.task
      BY SetAgentFields
<1>6. LET row == BlockAgent(db, body, seen) IN
         /\ row.event = db.event
         /\ \A u \in TaskId : row.task[u].status = "done" => db.task[u].status = "done"
      BY <1>4, <1>5 DEF BlockAgent
<1>7. body.type \in DownstreamType =>
         LET row == CreateDownstream(db, e) IN
         /\ row.event = db.event
         /\ \A u \in TaskId : row.task[u].status = "done" => db.task[u].status = "done"
      BY CreateDownstreamFields
<1>8. /\ made.event = db.event
      /\ \A u \in TaskId : made.task[u].status = "done" => db.task[u].status = "done"
      <2>1. CASE made = db
            BY <2>1
      <2>2. CASE body.type \in DownstreamType /\ made = CreateDownstream(db, e)
            BY <1>7, <2>2
      <2>3. CASE made = BlockAgent(db, body, seen)
            BY <1>6, <2>3
      <2>4. CASE \/ made = SetAgent(db, body.agent, "idle", None)
                 \/ made = SetAgent(db, body.agent, "done", None)
            BY <1>5, <2>4
      <2>5. CASE \/ made = SetAgent(SetStatus(db, body.task, "retry"),
                                    db.task[body.task].owner, "planning", None)
                 \/ made = SetAgent(SetStatus(db, body.task, "todo"),
                                    db.task[body.task].owner, "planning", body.task)
            BY <1>4, <2>5
      <2> QED BY <2>1, <2>2, <2>3, <2>4, <2>5, HandledCases
<1> HIDE DEF made, new
<1> QED BY <1>2, <1>3, <1>8 DEF Finished, Announced

LEMMA SetStatusFinishes ==
    ASSUME NEW db \in Database, NEW t, NEW status \in TaskStatus
    PROVE  /\ Announced(SetStatus(db, t, status)) = Announced(db)
           /\ Finished(SetStatus(db, t, status)) \subseteq Finished(db) \cup {t}
           /\ status # "done" => Finished(SetStatus(db, t, status)) \subseteq Finished(db)
BY SetStatusFields DEF Finished, Announced

LEMMA SetAgentFinishes ==
    ASSUME NEW db \in Database, NEW agent, NEW state, NEW task
    PROVE  /\ Announced(SetAgent(db, agent, state, task)) = Announced(db)
           /\ Finished(SetAgent(db, agent, state, task)) = Finished(db)
BY SetAgentFields DEF Finished, Announced

LEMMA InsertTaskFinishes ==
    ASSUME NEW db \in Database, NEW t, NEW owner, NEW ref
    PROVE  /\ Announced(InsertTask(db, t, owner, ref)) = Announced(db)
           /\ Finished(InsertTask(db, t, owner, ref)) \subseteq Finished(db)
BY InsertTaskFields DEF Finished, Announced

LEMMA InsertEventFinishes ==
    ASSUME NEW db \in Database, NEW e \in Event, ~Posted(db, e), NEW body
    PROVE  /\ e \notin Announced(db)
           /\ Finished(InsertEvent(db, e, body)) = Finished(db)
           /\ Announced(InsertEvent(db, e, body)) =
                 IF body.type \in CompletionEvent THEN Announced(db) \cup {e} ELSE Announced(db)
<1>1. e \notin Announced(db)
      BY DEF Announced, Posted
<1>2. Finished(InsertEvent(db, e, body)) = Finished(db)
      BY InsertEventFields DEF Finished
<1> DEFINE new == InsertEvent(db, e, body)
<1>3. \A d \in Event : /\ d # e => new.event[d] = db.event[d]
                       /\ d = e => new.event[d].status = "pending" /\ new.event[d].body = body
      BY InsertEventFields
<1> HIDE DEF new
<1>4. Announced(new) = IF body.type \in CompletionEvent THEN Announced(db) \cup {e}
                                                        ELSE Announced(db)
      <2>1. \A d \in Event : d # e => (d \in Announced(new) <=> d \in Announced(db))
            BY <1>3 DEF Announced
      <2>2. e \in Announced(new) <=> body.type \in CompletionEvent
            BY <1>3 DEF Announced
      <2>3. Announced(new) \subseteq Event /\ Announced(db) \subseteq Event
            BY DEF Announced
      <2> QED BY <1>1, <2>1, <2>2, <2>3
<1> QED BY <1>1, <1>2, <1>4 DEF new

-----------------------------------------------------------------------------
(* The steps.                                                              *)

LEMMA AccountFacts ==
    ASSUME AccountInv
    PROVE  /\ store \in Database /\ work \in Database /\ faults \in Nat
           /\ call \in [Proc -> Call] /\ Extended(store, work)
           /\ \A p \in Proc : CallSound(call[p]) /\ Reports(p, call[p])
           /\ Finished(work) \subseteq Finished(store)
           /\ IsFiniteSet(Finished(store)) /\ IsFiniteSet(Emitting(call))
           /\ IsFiniteSet(Announced(store)) /\ IsFiniteSet(Announced(work))
           /\ Cardinality(Finished(store)) <=
                 Cardinality(Announced(store)) + Cardinality(Emitting(call)) + faults
BY DEF AccountInv, IInv, TypeOK, HandoffAccounted, Finished, Announced, Emitting, Emits

LEMMA ExtendedAnnounces ==
    ASSUME NEW old, NEW new, Extended(old, new)
    PROVE  Announced(old) \subseteq Announced(new)
BY DEF Extended, Announced, Posted

\* What is left to show of a step of p that puts it at c.
LEMMA CallAccount ==
    ASSUME AccountInv, IInv', NEW p \in Proc, NEW c, call' = [call EXCEPT ![p] = c],
           Reports(p, c),
           Finished(work') \subseteq Finished(store'),
           IsFiniteSet(Finished(store')), IsFiniteSet(Emitting(call')),
           IsFiniteSet(Announced(store')), IsFiniteSet(Announced(work')),
           Cardinality(Finished(store')) <=
              Cardinality(Announced(store')) + Cardinality(Emitting(call')) + faults'
    PROVE  AccountInv'
<1>1. HandoffAccounted'
      BY DEF HandoffAccounted, Finished, Announced, Emitting, Emits
<1>2. \A q \in Proc : Reports(q, call'[q])
      BY AccountFacts
<1>3. (\A q \in Proc : Reports(q, call[q]))'
      BY <1>2 DEF Reports
<1>4. /\ (Finished(work) \subseteq Finished(store))'
      /\ IsFiniteSet(Finished(store))' /\ IsFiniteSet(Emitting(call))'
      /\ IsFiniteSet(Announced(store))' /\ IsFiniteSet(Announced(work))'
      BY DEF Finished, Announced, Emitting, Emits
<1> QED BY <1>1, <1>3, <1>4 DEF AccountInv

LEMMA EmittingSame ==
    ASSUME AccountInv, NEW p \in Proc, NEW c, call' = [call EXCEPT ![p] = c],
           ~Emits(call[p]), ~Emits(c)
    PROVE  Emitting(call') = Emitting(call)
BY AccountFacts DEF Emitting

\* A step that neither starts nor ends a report, and finishes nothing.
LEMMA QuietAccount ==
    ASSUME AccountInv, IInv', NEW p \in Proc, NEW c, call' = [call EXCEPT ![p] = c],
           Reports(p, c), ~Emits(call[p]), ~Emits(c),
           Finished(store') \subseteq Finished(store), Finished(work') \subseteq Finished(store'),
           Announced(store) \subseteq Announced(store'),
           IsFiniteSet(Announced(store')), IsFiniteSet(Announced(work')),
           faults' \in {faults, faults + 1}
    PROVE  AccountInv'
<1>1. Emitting(call') = Emitting(call)
      BY EmittingSame
<1>2. faults' \in Nat /\ faults <= faults'
      BY AccountFacts
<1>3. /\ IsFiniteSet(Finished(store'))
      /\ Cardinality(Finished(store')) <=
            Cardinality(Announced(store')) + Cardinality(Emitting(call)) + faults'
      BY <1>2, AccountFacts, CountKept
<1> QED BY <1>1, <1>3, AccountFacts, CallAccount

\* A step that leaves the tables alone.
LEMMA ReadAccount ==
    ASSUME AccountInv, IInv', NEW p \in Proc, NEW c, call' = [call EXCEPT ![p] = c],
           Reports(p, c), ~Emits(call[p]), ~Emits(c), UNCHANGED <<store, work>>,
           faults' \in {faults, faults + 1}
    PROVE  AccountInv'
BY AccountFacts, QuietAccount

LEMMA CallForms ==
    /\ \A p : Reports(p, IdleCall) /\ ~Emits(IdleCall)
    /\ \A p, w, t : Reports(p, BlockCall(w, t)) /\ ~Emits(BlockCall(w, t))
    /\ \A p : Reports(p, Raised(p)) /\ ~Emits(Raised(p))
    /\ \A p : Reports(p, Returned(p)) /\ ~Emits(Returned(p))
<1>1. /\ \A p : Reports(p, IdleCall) /\ ~Emits(IdleCall)
      /\ \A p, w, t : Reports(p, BlockCall(w, t)) /\ ~Emits(BlockCall(w, t))
      BY DEF IdleCall, BlockCall, Reports, Emits
<1>2. \A p : Reports(p, Raised(p)) /\ ~Emits(Raised(p))
      BY <1>1 DEF Raised
<1>3. \A p : Reports(p, Returned(p)) /\ ~Emits(Returned(p))
      BY <1>1 DEF IdleCall, Returned, Reports, Emits
<1> QED BY <1>1, <1>2, <1>3

LEMMA CallAt ==
    ASSUME AccountInv, NEW p \in Proc, NEW step \in Step \ {"read", "write", "emit"}
    PROVE  Reports(p, At(p, step)) /\ ~Emits(At(p, step))
BY AccountFacts DEF At, Reports, Emits, Call

LEMMA SelectTaskAccount ==
    ASSUME AccountInv, IInv', NEW w \in Worker, SelectTask(w)
    PROVE  AccountInv'
<1>1. PICK t \in TaskId : call' = [call EXCEPT ![w] = [IdleCall EXCEPT !.step = "claim", !.task = t]]
      BY DEF SelectTask, Goto
<1> DEFINE c == [IdleCall EXCEPT !.step = "claim", !.task = t]
<1>2. Reports(w, c) /\ ~Emits(c) /\ ~Emits(call[w])
      BY DEF IdleCall, Reports, Emits, SelectTask
<1> HIDE DEF c
<1> QED BY <1>1, <1>2, ReadAccount DEF SelectTask, c

\* A step that commits db, where db finishes nothing and loses no event.
LEMMA PublishAccount ==
    ASSUME AccountInv, IInv', NEW p \in Proc, NEW c, call' = [call EXCEPT ![p] = c],
           Reports(p, c), ~Emits(call[p]), ~Emits(c), NEW db, store' = db, work' = db,
           Finished(db) \subseteq Finished(store), Announced(store) \subseteq Announced(db),
           IsFiniteSet(Announced(db)), UNCHANGED faults
    PROVE  AccountInv'
BY QuietAccount

LEMMA ClaimTaskAccount ==
    ASSUME AccountInv, IInv', NEW w \in Worker, ClaimTask(w)
    PROVE  AccountInv'
<1>1. ~Emits(call[w])
      BY DEF ClaimTask, Emits
<1> DEFINE t == call[w].task
           c == [At(w, "start") EXCEPT !.goal = "done"]
           db == SetStatus(store, t, "in_progress")
<1>2. CASE store.task[t].status \in Claimable
      <2>1. call' = [call EXCEPT ![w] = c] /\ store' = db /\ work' = db
            BY <1>2 DEF ClaimTask, Goto
      <2>2. Reports(w, c) /\ ~Emits(c)
            BY AccountFacts DEF At, Reports, Emits, Call
      <2>3. Announced(db) = Announced(store) /\ Finished(db) \subseteq Finished(store)
            BY AccountFacts, SetStatusFinishes DEF TaskStatus
      <2> HIDE DEF c, db
      <2> QED BY <1>1, <2>1, <2>2, <2>3, AccountFacts, PublishAccount DEF ClaimTask
<1>3. CASE store.task[t].status \notin Claimable
      BY <1>1, <1>3, CallForms, ReadAccount DEF ClaimTask, Goto
<1> QED BY <1>2, <1>3

LEMMA AgentAccount ==
    ASSUME AccountInv, IInv', NEW p \in Proc, NEW c, call' = [call EXCEPT ![p] = c],
           Reports(p, c), ~Emits(call[p]), ~Emits(c), NEW agent, NEW state, NEW task,
           Publish(SetAgent(store, agent, state, task)), UNCHANGED faults
    PROVE  AccountInv'
<1> DEFINE db == SetAgent(store, agent, state, task)
<1>1. Announced(db) = Announced(store) /\ Finished(db) = Finished(store)
      BY AccountFacts, SetAgentFinishes
<1>2. store' = db /\ work' = db
      BY DEF Publish
<1> HIDE DEF db
<1> QED BY <1>1, <1>2, AccountFacts, PublishAccount

LEMMA StartTaskAccount ==
    ASSUME AccountInv, IInv', NEW w \in Worker, StartTask(w)
    PROVE  AccountInv'
<1>1. PICK state : Publish(SetAgent(store, RoleOf[w], state, call[w].task))
      BY DEF StartTask, Autocommit
<1>2. ~Emits(call[w]) /\ call' = [call EXCEPT ![w] = At(w, "run")] /\ UNCHANGED faults
      BY DEF StartTask, Emits, Goto
<1>3. Reports(w, At(w, "run")) /\ ~Emits(At(w, "run"))
      BY CallAt DEF Step
<1> QED BY <1>1, <1>2, <1>3, AgentAccount

LEMMA SettleAccount ==
    ASSUME AccountInv, IInv', NEW w \in Worker, Settle(w)
    PROVE  AccountInv'
<1>1. PICK state, task : Publish(SetAgent(store, RoleOf[w], state, task))
      BY DEF Settle, Autocommit
<1>2. ~Emits(call[w]) /\ call' = [call EXCEPT ![w] = IdleCall] /\ UNCHANGED faults
      BY DEF Settle, Emits, Goto
<1> QED BY <1>1, <1>2, CallForms, AgentAccount

\* A report of a finished task names one of the completion events.
LEMMA ReportDoneAccount ==
    ASSUME AccountInv, IInv', NEW w \in Worker, ReportDone(w)
    PROVE  AccountInv'
<1>1. PICK type \in CompletionTypes(RoleOf[w]), ref \in Ref :
         call' = [call EXCEPT ![w] =
                    [At(w, "read") EXCEPT
                       !.next = "done", !.emits = TRUE,
                       !.body = [type |-> type, ref |-> ref, task |-> None,
                                 agent |-> IF type = "review_approved" THEN "writer" ELSE None]]]
      BY DEF ReportDone, Goto
<1> DEFINE c == [At(w, "read") EXCEPT
                   !.next = "done", !.emits = TRUE,
                   !.body = [type |-> type, ref |-> ref, task |-> None,
                             agent |-> IF type = "review_approved" THEN "writer" ELSE None]]
<1>2. type \in CompletionEvent
      BY DEF CompletionEvent
<1>3. Reports(w, c) /\ ~Emits(c) /\ ~Emits(call[w])
      BY <1>2, AccountFacts DEF At, Reports, Emits, Call, ReportDone
<1> HIDE DEF c
<1> QED BY <1>1, <1>3, ReadAccount DEF ReportDone, c

LEMMA TaskFailsAccount ==
    ASSUME AccountInv, IInv', NEW w \in Worker, TaskFails(w)
    PROVE  AccountInv'
<1>1. ~Emits(call[w])
      BY DEF TaskFails, Emits
<1> QED BY <1>1, CallForms, ReadAccount DEF TaskFails, Goto

LEMMA ReadStatusAccount ==
    ASSUME AccountInv, IInv', NEW p \in Proc, ReadStatus(p)
    PROVE  AccountInv'
<1>1. ~Emits(call[p]) /\ call[p].step = "read"
      BY DEF ReadStatus, Emits
<1>2. Reports(p, At(p, "write")) /\ ~Emits(At(p, "write"))
      BY <1>1, AccountFacts DEF At, Reports, Emits, Call
<1>3. PICK c : c \in {At(p, "write"), Raised(p)} /\ call' = [call EXCEPT ![p] = c]
      BY DEF ReadStatus, Goto
<1> QED BY <1>1, <1>2, <1>3, CallForms, ReadAccount DEF ReadStatus

\* The status done is written by a worker that has the event still to emit.
LEMMA WriteStatusAccount ==
    ASSUME AccountInv, IInv', NEW p \in Proc, WriteStatus(p)
    PROVE  AccountInv'
<1> DEFINE t == call[p].task
           next == call[p].next
           db == SetStatus(store, t, next)
<1>1. /\ call[p].step = "write" /\ ~Emits(call[p])
      /\ store' = db /\ work' = db /\ UNCHANGED faults
      BY DEF WriteStatus, Autocommit, Publish, Emits
<1>2. next \in TaskStatus
      BY AccountFacts DEF Call
<1>3. /\ Announced(db) = Announced(store)
      /\ Finished(db) \subseteq Finished(store) \cup {t}
      /\ next # "done" => Finished(db) \subseteq Finished(store)
      BY <1>2, AccountFacts, SetStatusFinishes
<1>4. PICK c : /\ call' = [call EXCEPT ![p] = c]
               /\ c = IF call[p].emits THEN At(p, "emit") ELSE Returned(p)
      BY DEF WriteStatus, Goto
<1> HIDE DEF db
<1>5. CASE next # "done"
      <2>1. Reports(p, c) /\ ~Emits(c)
            BY <1>4, <1>5, CallForms, AccountFacts DEF At, Reports, Emits, Call
      <2> QED BY <1>1, <1>3, <1>4, <1>5, <2>1, AccountFacts, PublishAccount
<1>6. CASE next = "done"
      <2>1. p \in Worker /\ call[p].emits /\ call[p].body.type \in CompletionEvent
            BY <1>1, <1>6, AccountFacts DEF Reports
      <2>2. Reports(p, c) /\ Emits(c)
            BY <1>4, <1>6, <2>1, AccountFacts DEF At, Reports, Emits, Call
      <2>3. Emitting(call') = Emitting(call) \cup {p} /\ p \notin Emitting(call)
            BY <1>1, <1>4, <2>1, <2>2, AccountFacts DEF Emitting
      <2>4. /\ IsFiniteSet(Finished(db)) /\ IsFiniteSet(Emitting(call'))
            /\ Cardinality(Finished(db)) <=
                  Cardinality(Announced(store)) + Cardinality(Emitting(call')) + faults
            <3> DEFINE F == Finished(store)
                       A == Announced(store)
                       M == Emitting(call)
            <3>1. /\ IsFiniteSet(F) /\ IsFiniteSet(A) /\ IsFiniteSet(M) /\ faults \in Nat
                  /\ Cardinality(F) <= Cardinality(A) + Cardinality(M) + faults
                  BY AccountFacts
            <3>2. Finished(db) \in SUBSET (F \cup {t}) /\ p \notin M
                  BY <1>3, <2>3
            <3> HIDE DEF F, A, M
            <3>3. /\ IsFiniteSet(Finished(db)) /\ IsFiniteSet(M \cup {p})
                  /\ Cardinality(Finished(db)) <= Cardinality(A) + Cardinality(M \cup {p}) + faults
                  BY <3>1, <3>2, CountFinished
            <3> QED BY <2>3, <3>3 DEF A, M
      <2> QED BY <1>1, <1>3, <1>4, <2>2, <2>4, AccountFacts, CallAccount
<1> QED BY <1>5, <1>6

\* The event of a report is announced as the report ends.
LEMMA EmitEventAccount ==
    ASSUME AccountInv, IInv', NEW p \in Proc, EmitEvent(p)
    PROVE  AccountInv'
<1> DEFINE body == call[p].body
           c == At(p, "fetch")
<1>1. PICK e \in Event : ~Posted(store, e) /\ Publish(InsertEvent(store, e, body))
      BY DEF EmitEvent, Autocommit, Posted
<1> DEFINE db == InsertEvent(store, e, body)
<1>2. /\ store' = db /\ work' = db /\ UNCHANGED faults /\ call' = [call EXCEPT ![p] = c]
      /\ call[p].step = "emit"
      BY <1>1 DEF EmitEvent, Publish, Goto
<1>3. Reports(p, c) /\ ~Emits(c)
      BY CallAt DEF Step
<1>4. /\ e \notin Announced(store) /\ Finished(db) = Finished(store)
      /\ Announced(db) = IF body.type \in CompletionEvent THEN Announced(store) \cup {e}
                                                          ELSE Announced(store)
      BY <1>1, AccountFacts, InsertEventFinishes
<1>5. IsFiniteSet(Announced(db)) /\ Announced(store) \subseteq Announced(db)
      BY <1>4, AccountFacts, FS_AddElement
<1> HIDE DEF c, db
<1>6. CASE ~Emits(call[p])
      BY <1>2, <1>3, <1>4, <1>5, <1>6, PublishAccount
<1>7. CASE Emits(call[p])
      <2>1. body.type \in CompletionEvent
            BY <1>7, AccountFacts DEF Reports, Emits
      <2>2. Emitting(call') = Emitting(call) \ {p}
            BY <1>2, <1>3, AccountFacts DEF Emitting
      <2>3. /\ IsFiniteSet(Emitting(call'))
            /\ Cardinality(Finished(store)) <=
                  Cardinality(Announced(db)) + Cardinality(Emitting(call')) + faults
            <3> DEFINE F == Finished(store)
                       A == Announced(store)
                       M == Emitting(call)
            <3>1. /\ IsFiniteSet(F) /\ IsFiniteSet(A) /\ IsFiniteSet(M) /\ faults \in Nat
                  /\ Cardinality(F) <= Cardinality(A) + Cardinality(M) + faults /\ e \notin A
                  BY <1>4, AccountFacts
            <3> HIDE DEF F, A, M
            <3>2. /\ IsFiniteSet(M \ {p})
                  /\ Cardinality(F) <= Cardinality(A \cup {e}) + Cardinality(M \ {p}) + faults
                  BY <3>1, CountAnnounced
            <3> QED BY <1>4, <2>1, <2>2, <3>2 DEF F, A, M
      <2> QED BY <1>2, <1>3, <1>4, <1>5, <2>3, AccountFacts, CallAccount
<1> QED BY <1>6, <1>7

LEMMA FetchEventsAccount ==
    ASSUME AccountInv, IInv', NEW p \in Proc, FetchEvents(p)
    PROVE  AccountInv'
<1> DEFINE c == IF Oldest(store) = {} THEN Returned(p)
                ELSE [At(p, "peek") EXCEPT !.batch = Oldest(store)]
<1>1. ~Emits(call[p]) /\ call' = [call EXCEPT ![p] = c]
      BY DEF FetchEvents, Emits, Goto
<1>2. Reports(p, c) /\ ~Emits(c)
      BY CallForms, AccountFacts DEF At, Reports, Emits, Call
<1> HIDE DEF c
<1> QED BY <1>1, <1>2, ReadAccount DEF FetchEvents

LEMMA PeekFirstAccount ==
    ASSUME AccountInv, IInv', NEW p \in Proc, PeekFirst(p)
    PROVE  AccountInv'
<1>1. PICK c, e : /\ c = [At(p, "begin") EXCEPT !.first = e, !.open = Reusable(store, e),
                                                !.seen = StatusSeen(store, e)]
                  /\ call' = [call EXCEPT ![p] = c]
      BY DEF PeekFirst, Goto
<1>2. Reports(p, c) /\ ~Emits(c) /\ ~Emits(call[p])
      BY <1>1, AccountFacts DEF At, Reports, Emits, Call, PeekFirst
<1> QED BY <1>1, <1>2, ReadAccount DEF PeekFirst

\* A step inside a transaction, which handles an event.
LEMMA HandleAccount ==
    ASSUME AccountInv, IInv', NEW p \in Proc, NEW c, call' = [call EXCEPT ![p] = c],
           Reports(p, c), ~Emits(call[p]), ~Emits(c), UNCHANGED <<store, faults>>,
           NEW db \in {store, work}, NEW e \in Event, NEW open \in BOOLEAN, NEW seen,
           work' = Applied(db, e, open, seen)
    PROVE  AccountInv'
<1>1. /\ Finished(work') \subseteq Finished(db)
      /\ Announced(work') \subseteq Announced(db) \cup {e}
      BY AccountFacts, AppliedFinishes
<1>2. Finished(work') \subseteq Finished(store)
      BY <1>1, AccountFacts
<1>3. IsFiniteSet(Announced(work'))
      <2>1. IsFiniteSet(Announced(db))
            BY AccountFacts
      <2>2. IsFiniteSet(Announced(db) \cup {e})
            BY <2>1, FS_AddElement
      <2>3. Announced(work') \in SUBSET (Announced(db) \cup {e})
            BY <1>1
      <2> QED BY <2>2, <2>3, FS_Subset
<1> QED BY <1>2, <1>3, AccountFacts, QuietAccount

LEMMA BeginBatchAccount ==
    ASSUME AccountInv, IInv', NEW p \in Proc, BeginBatch(p)
    PROVE  AccountInv'
<1> DEFINE b == call[p]
<1>1. b.step = "begin" /\ ~Emits(b) /\ UNCHANGED <<store, faults>>
      BY DEF BeginBatch, Emits
<1>2. CASE Raises(store, b.first, b.open, b.seen)
      BY <1>1, <1>2, CallForms, ReadAccount DEF BeginBatch, Goto
<1>3. CASE ~Raises(store, b.first, b.open, b.seen)
      <2>1. b.first \in Event /\ b.open \in BOOLEAN
            BY <1>1, AccountFacts DEF CallSound, Call
      <2>2. PICK c : c = [At(p, "apply") EXCEPT !.batch = @ \ {b.first}] /\ call' = [call EXCEPT ![p] = c]
            BY <1>3 DEF BeginBatch, Goto
      <2>3. Reports(p, c) /\ ~Emits(c)
            BY <2>2, AccountFacts DEF At, Reports, Emits, Call
      <2>4. work' = Applied(store, b.first, b.open, b.seen)
            BY <1>3 DEF BeginBatch
      <2> QED BY <1>1, <2>1, <2>2, <2>3, <2>4, HandleAccount
<1> QED BY <1>2, <1>3

LEMMA RollbackAccount ==
    ASSUME AccountInv, IInv', NEW p \in Proc, NEW c, call' = [call EXCEPT ![p] = c],
           Reports(p, c), ~Emits(call[p]), ~Emits(c), Rollback(p), UNCHANGED store,
           faults' \in {faults, faults + 1}
    PROVE  AccountInv'
<1>1. work' \in {work, store}
      BY DEF Rollback
<1>2. /\ Finished(work') \subseteq Finished(store)
      /\ IsFiniteSet(Announced(work'))
      BY <1>1, AccountFacts
<1> QED BY <1>2, AccountFacts, QuietAccount

LEMMA ApplyEventAccount ==
    ASSUME AccountInv, IInv', NEW p \in Proc, ApplyEvent(p)
    PROVE  AccountInv'
<1>1. call[p].step = "apply" /\ ~Emits(call[p]) /\ UNCHANGED <<store, faults>>
      BY DEF ApplyEvent, Emits
<1>2. PICK e, open, seen :
         /\ e \in call[p].batch
         /\ open = Reusable(work, e)
         /\ IF Raises(work, e, open, seen)
            THEN Goto(p, Raised(p)) /\ Rollback(p)
            ELSE /\ work' = Applied(work, e, open, seen)
                 /\ Goto(p, [call[p] EXCEPT !.batch = @ \ {e}])
      BY DEF ApplyEvent
<1>3. e \in Event /\ open \in BOOLEAN
      BY <1>2, AccountFacts DEF Call, Reusable
<1>4. CASE Raises(work, e, open, seen)
      BY <1>1, <1>2, <1>4, CallForms, RollbackAccount DEF Goto
<1>5. CASE ~Raises(work, e, open, seen)
      <2>1. PICK c : c = [call[p] EXCEPT !.batch = @ \ {e}] /\ call' = [call EXCEPT ![p] = c]
            BY <1>2, <1>5 DEF Goto
      <2>2. Reports(p, c) /\ ~Emits(c)
            BY <1>1, <2>1, AccountFacts DEF Reports, Emits, Call
      <2> QED BY <1>1, <1>2, <1>3, <1>5, <2>1, <2>2, HandleAccount
<1> QED BY <1>4, <1>5

LEMMA CommitBatchAccount ==
    ASSUME AccountInv, IInv', NEW p \in Proc, CommitBatch(p)
    PROVE  AccountInv'
<1>1. /\ ~Emits(call[p]) /\ call' = [call EXCEPT ![p] = Returned(p)]
      /\ store' = work /\ work' = work /\ UNCHANGED faults
      BY DEF CommitBatch, Emits, Goto, Publish
<1>2. Announced(store) \subseteq Announced(work)
      BY AccountFacts, ExtendedAnnounces
<1> QED BY <1>1, <1>2, CallForms, AccountFacts, PublishAccount

LEMMA PostAccount ==
    ASSUME AccountInv, IInv', OnlyReportsFinish, NEW o \in Operator,
           PostEvent(o) \/ PostConsume(o) \/ PostStatus(o)
    PROVE  AccountInv'
<1>1. ~Emits(call[o]) /\ UNCHANGED <<store, work, faults>>
      BY DEF PostEvent, PostConsume, PostStatus, Emits
<1>2. PICK body, t, status :
         /\ status = "todo" \/ status \in WriteStatuses
         /\ \/ call' = [call EXCEPT ![o] = [IdleCall EXCEPT !.step = "emit", !.body = body]]
            \/ call' = [call EXCEPT ![o] = [IdleCall EXCEPT !.step = "fetch"]]
            \/ call' = [call EXCEPT ![o] = [IdleCall EXCEPT !.step = "read", !.task = t,
                                                            !.next = status]]
      <2>1. CASE PostEvent(o)
            BY <2>1, Zenon DEF PostEvent, Goto
      <2>2. CASE PostConsume(o)
            BY <2>2, Zenon DEF PostConsume, Goto
      <2>3. CASE PostStatus(o)
            BY <2>3, Zenon DEF PostStatus, Goto
      <2> QED BY <2>1, <2>2, <2>3
<1>3. PICK c : /\ call' = [call EXCEPT ![o] = c]
               /\ \/ c = [IdleCall EXCEPT !.step = "emit", !.body = body]
                  \/ c = [IdleCall EXCEPT !.step = "fetch"]
                  \/ c = [IdleCall EXCEPT !.step = "read", !.task = t, !.next = status]
      BY <1>2, Zenon
<1>4. Reports(o, c) /\ ~Emits(c)
      BY <1>2, <1>3 DEF OnlyReportsFinish, IdleCall, Reports, Emits
<1> QED BY <1>1, <1>3, <1>4, ReadAccount

\* A task an operator makes is not finished.
LEMMA PostTaskAccount ==
    ASSUME AccountInv, IInv', OnlyReportsFinish, NEW o \in Operator, PostTask(o)
    PROVE  AccountInv'
<1>1. PICK t \in SeedTask, owner \in Role, ref \in Ref \cup {None},
           status \in WriteStatuses \cup {"todo"} :
         Publish(SetStatus(InsertTask(store, t, owner, ref), t, status))
      BY Zenon DEF PostTask, Autocommit
<1> DEFINE row == InsertTask(store, t, owner, ref)
           db == SetStatus(row, t, status)
<1>2. status \in TaskStatus /\ status # "done"
      BY StatusesAssumption DEF OnlyReportsFinish, TaskStatus
<1>3. /\ row \in Database /\ Announced(row) = Announced(store)
      /\ Finished(row) \subseteq Finished(store)
      BY AccountFacts, InsertTaskType, InsertTaskFinishes
<1> HIDE DEF row
<1>4. Announced(db) = Announced(store) /\ Finished(db) \subseteq Finished(store)
      BY <1>2, <1>3, SetStatusFinishes
<1>5. store' = db /\ work' = db
      BY <1>1 DEF Publish, row
<1> HIDE DEF db
<1>6. /\ call' = [call EXCEPT ![o] = call[o]] /\ UNCHANGED faults
      /\ ~Emits(call[o]) /\ Reports(o, call[o])
      BY AccountFacts DEF PostTask, Emits
<1> QED BY <1>4, <1>5, <1>6, AccountFacts, PublishAccount

\* A death between status and event is counted.
LEMMA RequestDiesAccount ==
    ASSUME AccountInv, IInv', NEW p \in Proc, RequestDies(p)
    PROVE  AccountInv'
<1>1. PICK c : /\ c \in {BlockCall(p, call[p].task), Raised(p)}
               /\ call' = [call EXCEPT ![p] = c]
      BY DEF RequestDies, Goto
<1>2. Reports(p, c) /\ ~Emits(c)
      BY <1>1, CallForms
<1>3. Rollback(p) /\ UNCHANGED store /\ faults' = faults + 1
      BY DEF RequestDies
<1>4. CASE ~Emits(call[p])
      BY <1>1, <1>2, <1>3, <1>4, RollbackAccount
<1>5. CASE Emits(call[p])
      <2>1. Emitting(call') = Emitting(call) \ {p}
            BY <1>1, <1>2, AccountFacts DEF Emitting
      <2> DEFINE F == Finished(store)
                 A == Announced(store)
                 M == Emitting(call)
      <2>2. /\ IsFiniteSet(F) /\ IsFiniteSet(A) /\ IsFiniteSet(M) /\ faults \in Nat
            /\ Cardinality(F) <= Cardinality(A) + Cardinality(M) + faults
            BY AccountFacts
      <2> HIDE DEF F, A, M
      <2>3. /\ IsFiniteSet(M \ {p})
            /\ Cardinality(F) <= Cardinality(A) + Cardinality(M \ {p}) + (faults + 1)
            BY <2>2, CountDied
      <2>4. /\ IsFiniteSet(Emitting(call'))
            /\ Cardinality(Finished(store')) <=
                  Cardinality(Announced(store')) + Cardinality(Emitting(call')) + faults'
            BY <1>3, <2>1, <2>3 DEF F, A, M
      <2>5. /\ Finished(work') \subseteq Finished(store') /\ IsFiniteSet(Announced(work'))
            /\ IsFiniteSet(Finished(store')) /\ IsFiniteSet(Announced(store'))
            BY <1>3, AccountFacts DEF Rollback
      <2> QED BY <1>1, <1>2, <2>4, <2>5, CallAccount
<1> QED BY <1>4, <1>5

LEMMA WorkerDiesAccount ==
    ASSUME AccountInv, IInv', NEW w \in Worker, WorkerDies(w)
    PROVE  AccountInv'
<1>1. ~Emits(call[w])
      BY DEF WorkerDies, Emits
<1> QED BY <1>1, CallForms, ReadAccount DEF WorkerDies, Goto

LEMMA InitAccount ==
    ASSUME Init PROVE AccountInv
<1>1. Finished(store) = {} /\ Announced(store) = {} /\ work = store
      BY DEF Init, Finished, Announced, NoTask, NoEvent
<1>2. Emitting(call) = {} /\ faults = 0
      BY DEF Init, Emitting, Emits, IdleCall
<1>3. \A p \in Proc : Reports(p, call[p])
      BY CallForms DEF Init
<1>4. IsFiniteSet({}) /\ Cardinality({}) = 0
      BY FS_EmptySet
<1>5. HandoffAccounted
      <2>1. Cardinality(Finished(store)) <=
               Cardinality(Announced(store)) + Cardinality(Emitting(call)) + faults
            BY <1>1, <1>2, <1>4
      <2> QED BY <2>1 DEF HandoffAccounted, Finished, Announced, Emitting, Emits
<1> QED BY <1>1, <1>2, <1>3, <1>4, <1>5, InitIInv DEF AccountInv

LEMMA NextAccount ==
    ASSUME AccountInv, OnlyReportsFinish, [Next]_vars PROVE AccountInv'
<1>1. IInv'
      BY NextIInv DEF AccountInv
<1>2. ASSUME NEW p \in Proc, Serve(p)
      PROVE  AccountInv'
      BY <1>1, <1>2, ReadStatusAccount, WriteStatusAccount, EmitEventAccount, FetchEventsAccount,
         PeekFirstAccount, BeginBatchAccount, ApplyEventAccount, CommitBatchAccount DEF Serve
<1>3. ASSUME NEW w \in Worker, Pass(w)
      PROVE  AccountInv'
      BY <1>1, <1>3, SelectTaskAccount, ClaimTaskAccount, StartTaskAccount, ReportDoneAccount,
         TaskFailsAccount, SettleAccount DEF Pass
<1>4. ASSUME NEW o \in Operator, Post(o)
      PROVE  AccountInv'
      BY <1>1, <1>4, PostAccount, PostTaskAccount DEF Post
<1>5. CASE UNCHANGED vars
      <2>1. /\ HandoffAccounted' /\ (Finished(work) \subseteq Finished(store))'
            /\ IsFiniteSet(Finished(store))' /\ IsFiniteSet(Emitting(call))'
            /\ IsFiniteSet(Announced(store))' /\ IsFiniteSet(Announced(work))'
            BY <1>5 DEF vars, AccountInv, HandoffAccounted, Finished, Announced, Emitting, Emits
      <2>2. (\A p \in Proc : Reports(p, call[p]))'
            BY <1>5 DEF vars, AccountInv, Reports
      <2> QED BY <1>1, <2>1, <2>2 DEF AccountInv
<1> QED BY <1>1, <1>2, <1>3, <1>4, <1>5, RequestDiesAccount, WorkerDiesAccount DEF Next

\* AccountInv holds in every state of every instance in which the status done is
\* written by reports only.
THEOREM AccountInductive == ASSUME OnlyReportsFinish PROVE Spec => []AccountInv
<1>1. Init => AccountInv
      BY InitAccount
<1>2. AccountInv /\ [Next]_vars => AccountInv'
      BY NextAccount
<1> QED BY <1>1, <1>2, PTL DEF Spec

\* Every finished task has its completion event, unless its report is between the
\* two commits or died there, with any number of workers, consumers, retries and
\* control events (complete_task_and_emit).
THEOREM HandoffsAccounted == ASSUME OnlyReportsFinish PROVE Spec => []HandoffAccounted
<1>1. AccountInv => HandoffAccounted
      BY DEF AccountInv
<1> QED BY <1>1, AccountInductive, PTL

=============================================================================
