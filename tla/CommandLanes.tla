---------------------------- MODULE CommandLanes ----------------------------
(***************************************************************************)
(* The command lanes that serialise agent runs in an OpenClaw gateway, and *)
(* the restart loop around them.  A run is enqueued in the lane of its     *)
(* session; the task of that entry enqueues it again in the main lane and  *)
(* holds the session's only slot until the run has ended.  A restart       *)
(* inside the process drains, closes the server, and resets the lanes.     *)
(* Everything happens in one event loop: an action is what one event does  *)
(* before it returns to the loop, its promise callbacks included.          *)
(***************************************************************************)
EXTENDS Naturals, Sequences, FiniteSets, SequencesExt

CONSTANTS
    Session,      \* session keys
    Run,          \* agent runs, numbered as their sessions submit them
    SessionOf,    \* the session of a run
    Main,         \* the main lane
    NoRun,        \* no embedded run is registered
    Widths,       \* values agents.defaults.maxConcurrent takes
    MaxRestarts   \* bound: restarts requested

ASSUME RunAssumption == Run \subseteq Nat /\ SessionOf \in [Run -> Session]
ASSUME LaneAssumption == Main \notin Session /\ NoRun \notin Run
ASSUME WidthAssumption == Widths \subseteq Nat \ {0} /\ MaxRestarts \in Nat

Lane == Session \cup {Main}

VARIABLES
    queue,     \* per lane, the entries that wait
    active,    \* per lane, the runs whose tasks its activeTaskIds holds
    width,     \* maxConcurrent of the main lane; that of a session lane is 1
    phase,     \* per run, how far it has come
    handle,    \* ACTIVE_EMBEDDED_RUNS: per session, the run registered
    gateway,   \* the restart loop, and gatewayDraining
    restarts,  \* requests so far
    carried,   \* history: runs under way when the lanes were reset
    missed     \* history: a restart found the loop not waiting for it

lanesVars == <<queue, active, width, phase, handle, gateway, restarts, carried, missed>>

Executing == {"starting", "running"}
Settled == {"ended", "refused", "cleared"}
RunPhase == {"new", "queued", "waiting"} \cup Executing \cup Settled

LanesTypeOK ==
    /\ queue \in [Lane -> Seq(Run)]
    /\ active \in [Lane -> SUBSET Run]
    /\ width \in Widths
    /\ phase \in [Run -> RunPhase]
    /\ handle \in [Session -> Run \cup {NoRun}]
    /\ gateway \in [loop : {"starting", "waiting"}, shutdown : BOOLEAN, draining : BOOLEAN,
                    waits : SUBSET {"tasks", "runs"}, atStart : SUBSET (Lane \X Run)]
    /\ restarts \in 0 .. MaxRestarts
    /\ carried \subseteq Run
    /\ missed \in BOOLEAN
    /\ gateway.waits # {} => gateway.shutdown /\ gateway.draining

LanesInit ==
    /\ queue = [l \in Lane |-> <<>>]
    /\ active = [l \in Lane |-> {}]
    /\ width \in Widths
    /\ phase = [r \in Run |-> "new"]
    /\ handle = [s \in Session |-> NoRun]
    /\ gateway = [loop |-> "waiting", shutdown |-> FALSE, draining |-> FALSE,
                  waits |-> {}, atStart |-> {}]
    /\ restarts = 0
    /\ carried = {}
    /\ missed = FALSE

-----------------------------------------------------------------------------
(* Pumping a lane: lanes is a record of queue, active and phase.           *)

Lanes == [queue |-> queue, active |-> active, phase |-> phase]

SetLanes(lanes) ==
    /\ queue' = lanes.queue
    /\ active' = lanes.active
    /\ phase' = lanes.phase

Move(lanes, runs, to) ==
    [lanes EXCEPT !.phase = [r \in Run |-> IF r \in runs THEN to ELSE lanes.phase[r]]]

\* The main lane starts entries in their order while it has room.
PumpMain(lanes, n) ==
    LET waiting == lanes.queue[Main]
        room    == {i \in DOMAIN waiting : Cardinality(lanes.active[Main]) + i <= n}
        started == {waiting[i] : i \in room}
    IN  Move([lanes EXCEPT !.queue[Main] = SubSeq(@, Cardinality(room) + 1, Len(@)),
                           !.active[Main] = @ \cup started],
             started, "starting")

\* Mutant: the slot of a session is not waited for.
PumpSessionBusy(lanes, s) ==
    IF lanes.queue[s] = <<>> THEN lanes
    ELSE LET first == Head(lanes.queue[s]) IN
         PumpMain(Move([lanes EXCEPT !.queue[s] = Tail(@),
                                     !.queue[Main] = Append(@, first),
                                     !.active[s] = @ \cup {first}],
                       {first}, "waiting"), width)

\* A free session lane starts its first entry, which enqueues the run in the
\* main lane.  While the gateway drains that is refused, the entry ends, and
\* so do, one after the other, all behind it.
PumpSession(lanes, s) ==
    LET first == Head(lanes.queue[s]) IN
    CASE lanes.active[s] # {} \/ lanes.queue[s] = <<>> -> lanes
      [] lanes.active[s] = {} /\ lanes.queue[s] # <<>> /\ gateway.draining ->
            Move([lanes EXCEPT !.queue[s] = <<>>], ToSet(lanes.queue[s]), "refused")
      [] lanes.active[s] = {} /\ lanes.queue[s] # <<>> /\ ~gateway.draining ->
            PumpMain(Move([lanes EXCEPT !.queue[s] = Tail(@),
                                        !.queue[Main] = Append(@, first),
                                        !.active[s] = {first}],
                          {first}, "waiting"), width)

-----------------------------------------------------------------------------
(* The runs.                                                               *)

\* runEmbeddedPiAgent.  Runs are numbered as their sessions submit them.
SubmitRun(r) ==
    LET s == SessionOf[r] IN
    /\ phase[r] = "new"
    /\ \A q \in Run : SessionOf[q] = s /\ phase[q] = "new" => r <= q
    /\ IF gateway.draining
       THEN SetLanes(Move(Lanes, {r}, "refused"))
       ELSE SetLanes(PumpSession(Move([Lanes EXCEPT !.queue[s] = Append(@, r)], {r}, "queued"), s))
    /\ UNCHANGED <<width, handle, gateway, restarts, carried, missed>>

\* A run that was started registers under its session, in the place of
\* whatever was registered before.
RegisterRun(r) ==
    /\ phase[r] = "starting"
    /\ SetLanes(Move(Lanes, {r}, "running"))
    /\ handle' = [handle EXCEPT ![SessionOf[r]] = r]
    /\ UNCHANGED <<width, gateway, restarts, carried, missed>>

\* A task that ends gives its slot back and pumps its lane, unless the lane was
\* reset in the meantime: only then is the task not among the active ones.
FinishMain(lanes, r) ==
    IF r \in lanes.active[Main]
    THEN PumpMain([lanes EXCEPT !.active[Main] = @ \ {r}], width) ELSE lanes

\* Mutant: a task of before the reset takes the slot of a later one away.
FinishSessionStale(lanes, r) ==
    PumpSession([lanes EXCEPT !.active[SessionOf[r]] = {}], SessionOf[r])

FinishSession(lanes, r) ==
    IF r \in lanes.active[SessionOf[r]]
    THEN PumpSession([lanes EXCEPT !.active[SessionOf[r]] = @ \ {r}], SessionOf[r]) ELSE lanes

\* The run returns, raises or is aborted: first its task in the main lane ends,
\* then the one in the lane of its session.
FinishRun(r) ==
    LET s == SessionOf[r] IN
    /\ phase[r] \in Executing
    /\ SetLanes(FinishSession(FinishMain(Move(Lanes, {r}, "ended"), r), r))
    /\ handle' = [handle EXCEPT ![s] = IF @ = r THEN NoRun ELSE @]
    /\ UNCHANGED <<width, gateway, restarts, carried, missed>>

\* Mutant: the entries are dropped and nobody is told.
ClearLaneSilently(s) ==
    /\ queue[s] # <<>>
    /\ SetLanes([Lanes EXCEPT !.queue[s] = <<>>])
    /\ UNCHANGED <<width, handle, gateway, restarts, carried, missed>>

\* A message that interrupts its session, or a reset of the session, rejects
\* what waits in its lane.
ClearLane(s) ==
    /\ queue[s] # <<>>
    /\ SetLanes(Move([Lanes EXCEPT !.queue[s] = <<>>], ToSet(queue[s]), "cleared"))
    /\ UNCHANGED <<width, handle, gateway, restarts, carried, missed>>

\* The configuration is applied when the server starts and when it is reloaded.
SetWidth(n) ==
    /\ n # width
    /\ width' = n
    /\ SetLanes(PumpMain(Lanes, n))
    /\ UNCHANGED <<handle, gateway, restarts, carried, missed>>

-----------------------------------------------------------------------------
(* The restart loop.                                                       *)

\* Pairs of a lane and a run.
ActiveTasks == {task \in Lane \X Run : task[2] \in active[task[1]]}

Registered == {s \in Session : handle[s] # NoRun}

\* SIGUSR1, authorised.  While a shutdown is under way it is ignored.
RequestRestart ==
    /\ restarts < MaxRestarts
    /\ ~gateway.shutdown
    /\ restarts' = restarts + 1
    /\ gateway' = [gateway EXCEPT
           !.shutdown = TRUE, !.draining = TRUE, !.atStart = ActiveTasks,
           !.waits = {w \in {"tasks"} : ActiveTasks # {}} \cup {w \in {"runs"} : Registered # {}}]
    /\ UNCHANGED <<queue, active, width, phase, handle, carried, missed>>

\* The tasks that were active then have ended, or no embedded run is registered.
Drained(wait) ==
    /\ wait \in gateway.waits
    /\ wait = "tasks" => gateway.atStart \cap ActiveTasks = {}
    /\ wait = "runs"  => Registered = {}
    /\ gateway' = [gateway EXCEPT !.waits = @ \ {wait}]
    /\ UNCHANGED <<queue, active, width, phase, handle, restarts, carried, missed>>

\* The time to drain is over; what is registered is told to abort.
DrainTimeout ==
    /\ gateway.waits # {}
    /\ gateway' = [gateway EXCEPT !.waits = {}]
    /\ UNCHANGED <<queue, active, width, phase, handle, restarts, carried, missed>>

\* Mutant: entries that wait are dropped with the tasks.
ResetAllLanesBare ==
    /\ SetLanes([Lanes EXCEPT !.queue = [l \in Lane |-> <<>>], !.active = [l \in Lane |-> {}]])
    /\ carried' = carried \cup {r \in Run : phase[r] \in Executing \cup {"waiting"}}

\* resetAllLanes: the lanes forget their active tasks and keep their queues,
\* and every lane with a queue is pumped.  The first entries of the sessions
\* reach the main lane in the order the session lanes were made.
ResetAllLanes ==
    LET asking == {s \in Session : queue[s] # <<>>}
        heads  == {Head(queue[s]) : s \in asking}
    IN  /\ \E order \in SetToSeqs(heads) :
              SetLanes(PumpMain(Move(
                  [Lanes EXCEPT
                      !.queue  = [l \in Lane |-> IF l \in asking THEN Tail(@[l])
                                                 ELSE IF l = Main THEN @[l] \o order ELSE @[l]],
                      !.active = [l \in Lane |-> IF l \in asking THEN {Head(queue[l])} ELSE {}]],
                  heads, "waiting"), width))
        /\ carried' = carried \cup {r \in Run : phase[r] \in Executing \cup {"waiting"}}

\* Mutant: the gateway goes on draining.
RestartDraining ==
    /\ gateway.shutdown /\ gateway.waits = {} /\ gateway.loop = "waiting"
    /\ gateway' = [gateway EXCEPT !.loop = "starting", !.shutdown = FALSE, !.atStart = {}]
    /\ ResetAllLanes
    /\ missed' = FALSE
    /\ UNCHANGED <<width, handle, restarts>>

\* The server is closed, and the loop, if it waits for a restart, goes round:
\* it resets the lanes and starts the server again.  If it is still starting the
\* server of the round before, the promise to be resolved is an old one.
Restart ==
    /\ gateway.shutdown /\ gateway.waits = {}
    /\ \/ /\ gateway.loop = "waiting"
          /\ gateway' = [gateway EXCEPT !.loop = "starting", !.shutdown = FALSE,
                                        !.draining = FALSE, !.atStart = {}]
          /\ ResetAllLanes
          /\ missed' = FALSE
       \/ /\ gateway.loop = "starting"
          /\ gateway' = [gateway EXCEPT !.shutdown = FALSE, !.atStart = {}]
          /\ missed' = TRUE
          /\ UNCHANGED <<queue, active, phase, carried>>
    /\ UNCHANGED <<width, handle, restarts>>

StartServer ==
    /\ gateway.loop = "starting"
    /\ gateway' = [gateway EXCEPT !.loop = "waiting"]
    /\ UNCHANGED <<queue, active, width, phase, handle, restarts, carried, missed>>

-----------------------------------------------------------------------------
LanesNext ==
    \/ \E r \in Run : SubmitRun(r) \/ RegisterRun(r) \/ FinishRun(r)
    \/ \E s \in Session : ClearLane(s)
    \/ \E n \in Widths : SetWidth(n)
    \/ RequestRestart
    \/ \E w \in {"tasks", "runs"} : Drained(w)
    \/ DrainTimeout \/ Restart \/ StartServer

\* Runs end by their timeout at the latest, the drain by its own, and a server
\* that is being started is up or has failed some time.
LanesFairness ==
    /\ \A r \in Run : WF_lanesVars(FinishRun(r))
    /\ WF_lanesVars(DrainTimeout) /\ WF_lanesVars(Restart) /\ WF_lanesVars(StartServer)

LanesSpec == LanesInit /\ [][LanesNext]_lanesVars /\ LanesFairness

-----------------------------------------------------------------------------
\* No lane sleeps while it has both work and room: whatever ended, was cleared,
\* resized or reset, the entries that could run have been started (drainLane).
NoLaneSleeps ==
    /\ \A s \in Session : queue[s] # <<>> => active[s] # {}
    /\ queue[Main] # <<>> => Cardinality(active[Main]) >= width

\* An entry that nobody has settled waits in one place of one queue, or its run
\* is executing: none is lost or there twice, over restarts and clears too
\* (resetAllLanes: queued entries are preserved).
EntriesKept ==
    \A r \in Run :
        LET places(l) == {i \in DOMAIN queue[l] : queue[l][i] = r} IN
        /\ Cardinality(places(SessionOf[r])) = IF phase[r] = "queued" THEN 1 ELSE 0
        /\ Cardinality(places(Main)) = IF phase[r] = "waiting" THEN 1 ELSE 0

\* Whatever is enqueued is in its place, and is started when there is room.
EntriesServed == LanesTypeOK /\ EntriesKept /\ NoLaneSleeps

\* The runs of a session start in the order they were submitted in, unless
\* one is refused or cleared.
SessionOrder ==
    \A q, r \in Run :
        SessionOf[q] = SessionOf[r] /\ q < r /\ phase[r] \in Executing \cup {"waiting", "ended"}
        => phase[q] # "queued" /\ (phase[r] # "waiting" => phase[q] # "waiting")

\* One run of a session executes at a time (docs/concepts/queue.md).
\* The code does not keep this: a reset drops the slots of the runs under way.
OneRunPerSession ==
    \A q, r \in Run :
        SessionOf[q] = SessionOf[r] /\ {phase[q], phase[r]} \subseteq Executing => q = r

\* Two runs of a session execute at once only if a reset found one of them under
\* way: between restarts the lane of a session admits one run at a time.
SessionSerial ==
    \A q, r \in Run :
        /\ SessionOf[q] = SessionOf[r] /\ q # r
        /\ {phase[q], phase[r]} \subseteq Executing
        => {q, r} \cap carried # {}

\* The runs of a session take turns, in their order, but for what a reset carries over.
SessionsInTurn == SessionOrder /\ SessionSerial

-----------------------------------------------------------------------------
\* How a session sees its runs: the slot of its lane is the turn, and it is the
\* same to it whether the run that has the slot waits in the main lane or executes.
StageOf(p) ==
    CASE p = "new" -> "new"
      [] p = "queued" -> "lined"
      [] p \in Executing \cup {"waiting"} -> "turn"
      [] p = "ended" -> "ended"
      [] p \in {"refused", "cleared"} -> "dropped"

Turn == INSTANCE SessionTurns WITH stage <- [r \in Run |-> StageOf(phase[r])]

\* Each session's runs take turns, none of them idle and none settled twice, however
\* the main lane, its width and the restarts cross (command-queue.ts).
ImplementsTurns == Turn!Spec

\* Whoever enqueued a run hears of it, once and for all: it ends, is refused or is
\* cleared (enqueueCommandInLane: the promise is settled).
RunsSettle == <>[](\A r \in Run : phase[r] # "new" => phase[r] \in Settled)

\* A gateway that drains takes work again, unless the restart was missed.
ServesAgain == gateway.draining ~> ~gateway.draining \/ missed

=============================================================================
