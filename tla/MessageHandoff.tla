--------------------------- MODULE MessageHandoff ---------------------------
(***************************************************************************)
(* A message between agents and the state of its hand-off.  A request to   *)
(* change it reads the row, derives the new one from what it read, writes  *)
(* it, and tells of the change by an event, which is a transaction of its  *)
(* own.  Requests are served by threads and by processes of the worker.    *)
(***************************************************************************)
EXTENDS Naturals, FiniteSets

CONSTANTS
    Reader,         \* who asks for changes: agents, the control page, tools
    GivenStatuses,  \* statuses a request may give; "derived" if it gives none
    MaxRequests     \* bound: requests

ASSUME MessageAssumption ==
    /\ IsFiniteSet(Reader) /\ MaxRequests \in Nat
    /\ GivenStatuses \subseteq {"derived", "pending", "read", "acked", "blocked", "resolved"}

HandoffState == {"queued", "seen", "accepted", "blocked", "completed"}
MessageStatus == {"pending", "read", "acked", "blocked", "resolved"}
Receipts == {"read_at", "acked_at", "resolved_at"}

VARIABLES
    message,    \* the committed row; of the times, which are set
    reading,    \* per reader, the row it has read and what it asks for
    telling,    \* readers that have changed the row and not said so yet
    requests,   \* requests so far
    changed,    \* history: changes that were committed
    told,       \* history: events that were emitted
    untold,     \* history: changes whose reader died before its event
    crossed     \* history: two readers had read the row at a time

messageVars == <<message, reading, telling, requests, changed, told, untold, crossed>>

MessageRow == [status : MessageStatus, handoff_state : HandoffState, receipts : SUBSET Receipts]
NotReading == [row |-> [status |-> "pending", handoff_state |-> "queued", receipts |-> {}],
               status |-> "none", handoff_state |-> "none"]

MessageTypeOK ==
    /\ message \in MessageRow
    /\ reading \in [Reader -> [row : MessageRow, status : GivenStatuses \cup {"none"},
                               handoff_state : HandoffState \cup {"current", "none"}]]
    /\ telling \subseteq Reader
    /\ requests \in 0 .. MaxRequests
    /\ {changed, told, untold} \subseteq 0 .. requests
    /\ crossed \in BOOLEAN

\* create_message.
MessageInit ==
    /\ message = NotReading.row
    /\ reading = [r \in Reader |-> NotReading]
    /\ telling = {} /\ requests = 0
    /\ changed = 0 /\ told = 0 /\ untold = 0
    /\ crossed = FALSE

Asking == {r \in Reader : reading[r] # NotReading}

\* _derive_message_status_from_handoff_state
DerivedStatus(state) ==
    CASE state = "seen" -> "read"
      [] state = "accepted" -> "acked"
      [] state = "blocked" -> "blocked"
      [] state = "completed" -> "resolved"
      [] state = "queued" -> "pending"

\* The times a status sets, if they are not set.
ReceiptsOf(status) ==
    {t \in Receipts : \/ t = "read_at" /\ status \in {"read", "acked", "resolved"}
                      \/ t = "acked_at" /\ status \in {"acked", "resolved"}
                      \/ t = "resolved_at" /\ status = "resolved"}

\* The row a request writes, from the one it read.
Updated(ask) ==
    LET state  == IF ask.handoff_state = "current" THEN ask.row.handoff_state ELSE ask.handoff_state
        status == IF ask.status = "derived" THEN DerivedStatus(state) ELSE ask.status
    IN  [status |-> status, handoff_state |-> state,
         receipts |-> ask.row.receipts \cup ReceiptsOf(status)]

Tells(old, new) == old.status # new.status \/ old.handoff_state # new.handoff_state

-----------------------------------------------------------------------------
(* update_message_state: the SELECT, the UPDATE, the event.                *)

ReadMessage(r) ==
    /\ requests < MaxRequests /\ r \notin Asking \cup telling
    /\ requests' = requests + 1
    /\ \E s \in GivenStatuses, h \in HandoffState \cup {"current"} :
          reading' = [reading EXCEPT ![r] = [row |-> message, status |-> s, handoff_state |-> h]]
    /\ crossed' = (crossed \/ Asking # {})
    /\ UNCHANGED <<message, telling, changed, told, untold>>

\* Mutant: the times are those of the request alone.
WriteMessageAnew(r) ==
    LET new == Updated(reading[r]) IN
    /\ r \in Asking
    /\ message' = [new EXCEPT !.receipts = ReceiptsOf(new.status)]
    /\ reading' = [reading EXCEPT ![r] = NotReading]
    /\ changed' = changed + IF Tells(message, new) THEN 1 ELSE 0
    /\ telling' = telling \cup {q \in {r} : Tells(reading[r].row, new)}
    /\ UNCHANGED <<requests, told, untold, crossed>>

\* Mutant: only a new status is told of.
WriteMessageStatusTold(r) ==
    LET new == Updated(reading[r]) IN
    /\ r \in Asking
    /\ message' = new
    /\ reading' = [reading EXCEPT ![r] = NotReading]
    /\ changed' = changed + IF Tells(message, new) THEN 1 ELSE 0
    /\ telling' = telling \cup {q \in {r} : reading[r].row.status # new.status}
    /\ UNCHANGED <<requests, told, untold, crossed>>

\* The row is written whole.  Whether there is anything to tell is judged by the
\* row that was read, not by the one that is written over.
WriteMessage(r) ==
    LET new == Updated(reading[r]) IN
    /\ r \in Asking
    /\ message' = new
    /\ reading' = [reading EXCEPT ![r] = NotReading]
    /\ changed' = changed + IF Tells(message, new) THEN 1 ELSE 0
    /\ telling' = telling \cup {q \in {r} : Tells(reading[r].row, new)}
    /\ UNCHANGED <<requests, told, untold, crossed>>

EmitChange(r) ==
    /\ r \in telling
    /\ telling' = telling \ {r}
    /\ told' = told + 1
    /\ UNCHANGED <<message, reading, requests, changed, untold, crossed>>

\* The process of a reader stops, before its change or before the event of it.
ReaderDies(r) ==
    /\ r \in Asking \cup telling
    /\ reading' = [reading EXCEPT ![r] = NotReading]
    /\ telling' = telling \ {r}
    /\ untold' = untold + Cardinality(telling \cap {r})
    /\ UNCHANGED <<message, requests, changed, told, crossed>>

-----------------------------------------------------------------------------
MessageNext == \E r \in Reader : ReadMessage(r) \/ WriteMessage(r) \/ EmitChange(r) \/ ReaderDies(r)

MessageSpec == MessageInit /\ [][MessageNext]_messageVars

-----------------------------------------------------------------------------
\* Whatever requests cross, a row never says that a message was resolved and not
\* acknowledged, or acknowledged and not read, nor lacks the time of its status.
ReceiptsNested ==
    /\ ReceiptsOf(message.status) \subseteq message.receipts
    /\ "resolved_at" \in message.receipts => "acked_at" \in message.receipts
    /\ "acked_at" \in message.receipts => "read_at" \in message.receipts

\* The time of an acknowledgement is never taken back, whichever state the message
\* goes to or goes back to, unless requests cross: then the slower one writes over
\* it the times that it read (update_message_state, read_at to resolved_at).
ReceiptsKept == [][crossed \/ message.receipts \subseteq message'.receipts]_messageVars

\* Every change of the hand-off is told of by one event, or was by a process that
\* died, unless requests cross: then a change back is told to nobody.
ChangesTold == ~crossed => changed = told + untold + Cardinality(telling)

\* A message's row agrees with itself and with the events that tell of it.
MessagesSound == MessageTypeOK /\ ReceiptsNested /\ ChangesTold

=============================================================================
