--------------------------- MODULE FollowupQueue ---------------------------
(***************************************************************************)
(* The followup queue of one session: messages that arrive while an agent  *)
(* run is active wait in it and are drained, one followup run at a time,   *)
(* when that run is over.  A queue is an object registered under the key   *)
(* of the session.  It is created by the first message, deleted when a     *)
(* drain finds it empty, and emptied and unregistered when the session is  *)
(* stopped or reset, with its drain still under way.                       *)
(***************************************************************************)
EXTENDS Naturals, Sequences, FiniteSets, SequencesExt

CONSTANTS
    Message,      \* messages, each delivered once
    OriginOf,     \* the channel and thread a message came from
    Cap,          \* how many messages a queue holds
    Settings,     \* pairs of a mode and a drop policy messages come with
    NoQueue,      \* no queue is registered
    MaxClears     \* bound: how often the session is stopped or reset

ASSUME FollowupAssumption ==
    /\ IsFiniteSet(Message) /\ DOMAIN OriginOf = Message
    /\ Cap \in Nat \ {0} /\ MaxClears \in Nat
    /\ Settings \subseteq {"collect", "followup"} \X {"summarize", "old", "new"}

Queues == 1 .. Cardinality(Message)   \* the objects, in the order of their creation

ASSUME NoQueueAssumption == NoQueue \notin Queues

VARIABLES
    queues,       \* per object: items, dropped ones on record, settings, and its drain
    registered,   \* FOLLOWUP_QUEUES: the object under the key of the session
    callback,     \* whether FOLLOWUP_RUN_CALLBACKS has an entry for the key
    fate,         \* per message, what became of it
    clears,       \* stops and resets so far
    marks,        \* history: what has gone wrong
    belated       \* history: messages queued when nobody was to drain them

followupVars == <<queues, registered, callback, fate, clears, marks, belated>>

Arriving == {"new", "busy", "direct", "closing", "replied"}
Fates == Arriving \cup {"queued", "handled", "mute", "lost", "noted", "summarized",
                        "forgotten", "dropped", "cleared"}

\* overrun: a queue dropped a message while its drain was running one.
\* replaced: a drain that was over deleted a queue that was not its own.
\* switched: the drop policy changed with dropped messages on record.
Marks == {"overrun", "replaced", "switched"}

FollowupTypeOK ==
    /\ queues \in [Queues -> [items : BoundedSeq(Message, Cap), dropped : SUBSET Message,
                              mode : {"collect", "followup"}, drop : {"summarize", "old", "new"},
                              step : {"off", "debounce", "single", "collect", "summary"},
                              batch : BoundedSeq(Message, Cap), told : SUBSET Message,
                              forced : BOOLEAN, made : BOOLEAN]]
    /\ registered \in Queues \cup {NoQueue}
    /\ callback \in BOOLEAN
    /\ fate \in [Message -> Fates]
    /\ clears \in 0 .. MaxClears
    /\ marks \subseteq Marks /\ belated \subseteq Message

FollowupInit ==
    /\ queues = [o \in Queues |-> [items |-> <<>>, dropped |-> {}, mode |-> "collect",
                                   drop |-> "summarize", step |-> "off", batch |-> <<>>,
                                   told |-> {}, forced |-> FALSE, made |-> FALSE]]
    /\ registered = NoQueue
    /\ callback = FALSE
    /\ fate = [m \in Message |-> "new"]
    /\ clears = 0
    /\ marks = {} /\ belated = {}

Mark(name, condition) == marks' = marks \cup {x \in {name} : condition}

Running(o) == queues[o].step \in {"single", "collect", "summary"}

SetFate(messages, to) == [m \in Message |-> IF m \in messages THEN to ELSE fate[m]]

-----------------------------------------------------------------------------
(* The drain.  q is the record of an object, and what follows returns it.  *)

Empty(q) == q.items = <<>> /\ q.dropped = {}

Idle(q) == [q EXCEPT !.step = "off", !.batch = <<>>, !.told = {}, !.forced = FALSE]

\* scheduleFollowupDrain for the object o, if it is the registered one: unless it
\* is being drained or has nothing to drain, its drain waits for quiet first.
Schedule(objects, o) ==
    IF o = NoQueue \/ objects[o].step # "off" \/ Empty(objects[o]) THEN objects
    ELSE [objects EXCEPT ![o].step = "debounce"]

\* A drain that starts and finds nothing is over at once.
Scheduled(objects, o) ==
    /\ queues' = Schedule(objects, o)
    /\ callback' = (callback \/ (o # NoQueue /\ objects[o].step = "off"))
    /\ registered' = IF o # NoQueue /\ objects[o].step = "off" /\ Empty(objects[o])
                     THEN NoQueue ELSE o

\* The drain of o is over.  If it leaves nothing the key is deleted, whatever
\* is registered under it by now; otherwise the key is scheduled again.
FinishDrain(objects, o) ==
    IF Empty(objects[o])
    THEN /\ queues' = [objects EXCEPT ![o] = Idle(@)]
         /\ registered' = NoQueue
         /\ Mark("replaced", registered \notin {o, NoQueue})
         /\ UNCHANGED callback
    ELSE /\ Scheduled([objects EXCEPT ![o] = Idle(@)], registered)
         /\ UNCHANGED marks

\* Another round of the loop, or its end.
NextRound(objects, o) ==
    IF Empty(objects[o]) THEN FinishDrain(objects, o)
    ELSE /\ queues' = [objects EXCEPT ![o].step = "debounce", ![o].batch = <<>>, ![o].told = {}]
         /\ UNCHANGED <<registered, callback, marks>>

CrossChannel(items) == \E m, n \in ToSet(items) : OriginOf[m] # OriginOf[n]

\* It has been quiet for long enough: what to run is read from the queue.  With
\* nothing to run the drain is over, even if dropped messages are on record.
\* A collecting drain that once met messages of two channels runs them one by one.
StartFollowup(o) ==
    LET q       == queues[o]
        collect == q.mode = "collect"
        apart   == collect /\ (q.forced \/ CrossChannel(q.items))
        summary == IF q.drop = "summarize" THEN q.dropped ELSE {}
        run(step, batch, told) ==
            /\ queues' = [queues EXCEPT ![o] = [q EXCEPT !.step = step, !.batch = batch, !.told = told,
                                                         !.forced = @ \/ apart]]
            /\ UNCHANGED <<registered, callback, marks>>
    IN  /\ q.step = "debounce"
        /\ CASE collect /\ ~apart /\ ~Empty(q) -> run("collect", q.items, summary)
             [] ~collect /\ summary # {} /\ q.items # <<>> -> run("summary", <<Head(q.items)>>, summary)
             [] (apart \/ (~collect /\ summary = {})) /\ q.items # <<>> ->
                    run("single", <<Head(q.items)>>, {})
             [] OTHER -> FinishDrain(queues, o)
        /\ UNCHANGED <<fate, clears, belated>>

\* A followup run has returned.  As many items as it was given are removed from
\* the front of the queue, whichever they are by now; a summary forgets all that
\* was dropped.  The item in whose place a summary was run is removed as well.
EndFollowup(o) ==
    LET q       == queues[o]
        removed == {q.items[i] : i \in DOMAIN q.items \cap DOMAIN q.batch}
        cleared == IF q.told # {} THEN q.dropped ELSE {}
        heard   == IF q.step = "summary" THEN "mute" ELSE "handled"
    IN  /\ Running(o)
        /\ NextRound([queues EXCEPT ![o].items = SubSeq(@, Len(q.batch) + 1, Len(@)),
                                    ![o].dropped = @ \ cleared], o)
        /\ fate' = [m \in Message |->
                       CASE m \in removed -> IF m \in ToSet(q.batch) THEN heard ELSE "lost"
                         [] m \in cleared -> IF m \in q.told THEN "summarized" ELSE "forgotten"
                         [] OTHER -> fate[m]]
        /\ UNCHANGED <<clears, belated>>

\* Mutant: a drain that failed deletes its queue.
FailFollowupDelete(o) ==
    /\ Running(o)
    /\ queues' = [queues EXCEPT ![o] = Idle(@)]
    /\ registered' = NoQueue
    /\ UNCHANGED <<callback, fate, clears, marks, belated>>

\* Mutant: a drain that failed does not start again.
FailFollowupIdle(o) ==
    /\ Running(o)
    /\ queues' = [queues EXCEPT ![o] = Idle(@)]
    /\ UNCHANGED <<registered, callback, fate, clears, marks, belated>>

\* A followup run raises: what it was given stays where it is.
FailFollowup(o) ==
    /\ Running(o)
    /\ FinishDrain(queues, o)
    /\ UNCHANGED <<fate, clears, belated>>

-----------------------------------------------------------------------------
(* Messages arrive.                                                        *)

Active == (\E m \in Message : fate[m] = "direct") \/ \E o \in Queues : Running(o)

\* Whether a run is active is looked up, and acted on some awaits later.
Arrive(m) ==
    /\ fate[m] = "new"
    /\ fate' = [fate EXCEPT ![m] = IF Active THEN "busy" ELSE "direct"]
    /\ UNCHANGED <<queues, registered, callback, clears, marks, belated>>

\* The run of a message answered directly ends, and its reply is prepared.
EndDirect(m) ==
    /\ fate[m] = "direct"
    /\ fate' = [fate EXCEPT ![m] = "closing"]
    /\ UNCHANGED <<queues, registered, callback, clears, marks, belated>>

\* finalizeWithFollowup: with the reply, or an error, the drain is scheduled.
Finalize(m) ==
    /\ fate[m] = "closing"
    /\ fate' = [fate EXCEPT ![m] = "replied"]
    /\ Scheduled(queues, registered)
    /\ UNCHANGED <<clears, marks, belated>>

\* The queue that enqueueFollowupRun finds under the key, or makes.
QueueFound == IF registered # NoQueue THEN registered
          ELSE CHOOSE o \in Queues : ~queues[o].made /\ \A p \in Queues : p < o => queues[p].made

Full(q) == Len(q.items) >= Cap

\* enqueueFollowupRun.  A full queue refuses the message or makes room for it,
\* and keeps what it dropped on record if it is to summarise it.  A queue that
\* nobody drains is scheduled if the key was drained before.
Enqueue(m, setting) ==
    LET o      == QueueFound
        q      == [queues[o] EXCEPT !.mode = setting[1], !.drop = setting[2], !.made = TRUE]
        full   == Full(q)
        note   == setting[2] = "summarize"
        excess == IF full THEN SubSeq(q.items, 1, Len(q.items) - Cap + 1) ELSE <<>>
        placed == [queues EXCEPT ![o] =
                      [q EXCEPT !.items = Append(SubSeq(@, Len(excess) + 1, Len(@)), m),
                                !.dropped = @ \cup IF note THEN ToSet(excess) ELSE {}]]
    IN  /\ fate[m] = "busy"
        /\ IF full /\ setting[2] = "new"
           THEN /\ queues' = [queues EXCEPT ![o] = q]
                /\ registered' = o
                /\ fate' = [fate EXCEPT ![m] = "dropped"]
                /\ UNCHANGED <<callback, belated>>
           ELSE /\ IF callback THEN Scheduled(placed, o)
                   ELSE queues' = placed /\ registered' = o /\ UNCHANGED callback
                /\ fate' = [SetFate(ToSet(excess), IF note THEN "noted" ELSE "dropped")
                               EXCEPT ![m] = "queued"]
                /\ belated' = belated \cup {n \in {m} : queues'[o].step = "off" /\
                                  \A d \in Message : fate[d] \notin {"direct", "closing"}}
        /\ marks' = marks \cup {x \in {"overrun"} : Running(o) /\ full /\ setting[2] # "new"}
                         \cup {x \in {"switched"} : q.dropped # {} /\ ~note}
        /\ UNCHANGED clears

\* clearSessionQueues: stop, reset or the end of a subagent.
ClearQueues ==
    /\ clears < MaxClears
    /\ clears' = clears + 1
    /\ callback' = FALSE
    /\ registered' = NoQueue
    /\ IF registered = NoQueue THEN UNCHANGED <<queues, fate>>
       ELSE /\ queues' = [queues EXCEPT ![registered].items = <<>>, ![registered].dropped = {}]
            /\ fate' = SetFate(ToSet(queues[registered].items) \cup queues[registered].dropped,
                               "cleared")
    /\ UNCHANGED <<marks, belated>>

-----------------------------------------------------------------------------
FollowupNext ==
    \/ \E m \in Message : Arrive(m) \/ EndDirect(m) \/ Finalize(m)
    \/ \E m \in Message, setting \in Settings : Enqueue(m, setting)
    \/ \E o \in Queues : StartFollowup(o) \/ EndFollowup(o) \/ FailFollowup(o)
    \/ ClearQueues

\* Runs end by their timeout at the latest, it is quiet some time, and a followup
\* that is tried again and again does not fail every time.
FollowupFairness ==
    /\ \A m \in Message : WF_followupVars(EndDirect(m)) /\ WF_followupVars(Finalize(m))
    /\ \A o \in Queues : WF_followupVars(StartFollowup(o)) /\ SF_followupVars(EndFollowup(o))

FollowupSpec == FollowupInit /\ [][FollowupNext]_followupVars /\ FollowupFairness

-----------------------------------------------------------------------------
Draining(o) == queues[o].step # "off"

\* A message that was queued is in the queue under the key or in one that is being
\* drained, until it is run, dropped or cleared, and a drain removes no message it
\* did not run and forgets none it did not report, unless messages were dropped
\* while it ran or its queue was cleared (drain.ts: splice and shift).
NoneSlips ==
    \A m \in Message :
        /\ fate[m] = "queued" /\ "replaced" \notin marks =>
               \E o \in Queues : m \in ToSet(queues[o].items) /\ (o = registered \/ Draining(o))
        /\ fate[m] \in {"lost", "forgotten"} => "overrun" \in marks

\* The items and the record of dropped messages never hold a message twice, nor
\* one that was told its fate: a retried drain repeats no message it finished.
NoneTwice ==
    \A o \in Queues :
        /\ IsInjective(queues[o].items)
        /\ \A m \in ToSet(queues[o].items) : fate[m] = "queued"
        /\ \A m \in queues[o].dropped : fate[m] = "noted"

\* One drain works for the session, unless its queue was cleared under a drain
\* (scheduleFollowupDrain: queue.draining).
OneDrain == clears = 0 => Cardinality({o \in Queues : Draining(o)}) <= 1

\* A drain with nothing to run but dropped messages on record is never through:
\* it starts over at once, or runs an empty prompt, for ever.  It gets there only
\* if messages were dropped while it ran, or the drop policy changed.
BarrenExplained ==
    \A o \in Queues :
        /\ queues[o].items = <<>> /\ queues[o].dropped # {}
        /\ queues[o].mode = "followup" \/ queues[o].drop # "summarize"
        => marks \cap {"overrun", "switched"} # {}

\* A drain gives each message one fate, works alone and comes to an end, but for
\* what is dropped, switched or cleared under it (scheduleFollowupDrain).
DrainsSound == FollowupTypeOK /\ NoneSlips /\ NoneTwice /\ OneDrain /\ BarrenExplained

\* A queued message is run, dropped, reported or cleared in the end, unless it was
\* queued when the run it was to follow was over and its drain scheduled, or its
\* queue was deleted by the drain of another.  No message is queued twice.
QueuedDrains ==
    <>[](\A m \in Message : fate[m] = "queued" => m \in belated \/ "replaced" \in marks)

\* A message the session had room for is answered by a run of its own or of a batch.
\* The code does not keep this: a summary takes the place of the first message.
NoneMute == \A m \in Message : fate[m] # "mute"

=============================================================================
