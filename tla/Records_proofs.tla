--------------------------- MODULE Records_proofs ---------------------------
(***************************************************************************)
(* Proofs about the rows that are read and then written in a transaction   *)
(* of its own: messages and artifacts, for any readers and callers.        *)
(* MessageInv and ArtifactInv are inductive.  What they add to the         *)
(* properties is what a call under way remembers of the row it has read.   *)
(***************************************************************************)
EXTENDS ArtifactStore, MessageHandoff, FiniteSetTheorems, WellFoundedInduction, TLAPS

\* A row that says no more than it should, wherever it is held.
NestedRow(row) ==
    /\ ReceiptsOf(row.status) \subseteq row.receipts
    /\ "resolved_at" \in row.receipts => "acked_at" \in row.receipts
    /\ "acked_at" \in row.receipts => "read_at" \in row.receipts

\* A reader under way asks for something, has a nested row and nothing to tell.
AskingSound ==
    /\ Asking \cap telling = {}
    /\ \A r \in Asking :
          /\ reading[r].status \in GivenStatuses
          /\ reading[r].handoff_state \in HandoffState \cup {"current"}
          /\ NestedRow(reading[r].row)

\* As long as no requests crossed, one reader at most is under way and the row
\* is still the one that it read.
UncrossedAlone ==
    ~crossed => \A r \in Asking : reading[r].row = message /\ Asking = {r}

\* Every change, and every event or lack of one, is of a request of its own, and
\* so is every reader that is still under way.
RequestsCover ==
    /\ changed + Cardinality(Asking) <= requests
    /\ told + untold + Cardinality(telling) + Cardinality(Asking) <= requests

MessageInv ==
    /\ MessageTypeOK
    /\ NestedRow(message)
    /\ AskingSound
    /\ UncrossedAlone
    /\ RequestsCover
    /\ ChangesTold

\* Versions stay below the bound.
VersionsBounded == DOMAIN artifact \subseteq 1 .. MaxArtifacts

\* A call under way has a version it may register, or one whose row is there.
CallsPlaced ==
    \A c \in Caller :
        /\ artifactCall[c].step = "insert" => artifactCall[c].version \in 1 .. MaxArtifacts
        /\ artifactCall[c].step = "update" => artifactCall[c].version \in DOMAIN artifact

\* The move a call has checked stays legal until the version is raced.
MovesPlanned ==
    \A c \in Caller :
        LET v == artifactCall[c].version IN
        artifactCall[c].step = "update" /\ v \notin raced
            => Legal(artifact[v].state, artifactCall[c].state)

\* The rows of callers that were answered, with what the calls rely on.
ArtifactInv ==
    /\ ArtifactTypeOK
    /\ AnswersKept
    /\ VersionsBounded
    /\ CallsPlaced
    /\ MovesPlanned

-----------------------------------------------------------------------------
(* The operators that the rows are made with.                              *)

\* What a request asks for, and nobody asks with what is there when none reads.
Ask == [row : MessageRow, status : GivenStatuses, handoff_state : HandoffState \cup {"current"}]

LEMMA AskIsReading == \A ask \in Ask : ask # NotReading
<1> SUFFICES ASSUME NEW ask \in Ask
             PROVE  ask # NotReading
    OBVIOUS
<1>1. ask.status # "none"
      BY MessageAssumption DEF Ask
<1> QED BY <1>1 DEF NotReading

LEMMA NotReadingTyped ==
    NotReading \in [row : MessageRow, status : GivenStatuses \cup {"none"},
                    handoff_state : HandoffState \cup {"current", "none"}]
BY DEF NotReading, MessageRow, MessageStatus, HandoffState

\* A request writes a row, and of a nested row a nested one with no time less.
LEMMA UpdatedRow ==
    ASSUME NEW ask \in Ask
    PROVE  /\ Updated(ask) \in MessageRow
           /\ ask.row.receipts \subseteq Updated(ask).receipts
           /\ NestedRow(ask.row) => NestedRow(Updated(ask))
<1> DEFINE state  == IF ask.handoff_state = "current" THEN ask.row.handoff_state
                                                      ELSE ask.handoff_state
           status == IF ask.status = "derived" THEN DerivedStatus(state) ELSE ask.status
           row    == [status |-> status, handoff_state |-> state,
                      receipts |-> ask.row.receipts \cup ReceiptsOf(status)]
<1>1. state \in HandoffState
      BY DEF Ask, MessageRow
<1>2. status \in MessageStatus
      <2>1. DerivedStatus(state) \in MessageStatus
            BY <1>1 DEF DerivedStatus, HandoffState, MessageStatus
      <2>2. ask.status \in {"derived"} \cup MessageStatus
            BY MessageAssumption DEF Ask, MessageStatus
      <2> QED BY <2>1, <2>2
<1>3. Updated(ask) = row
      BY DEF Updated
<1> HIDE DEF state, status
<1>4. ask.row.receipts \subseteq Receipts /\ ReceiptsOf(status) \subseteq Receipts
      BY DEF Ask, MessageRow, ReceiptsOf
<1>5. row \in MessageRow
      BY <1>1, <1>2, <1>4 DEF MessageRow
<1>6. ASSUME NestedRow(ask.row)
      PROVE  NestedRow(row)
      BY <1>2, <1>6 DEF NestedRow, ReceiptsOf, Receipts
<1> QED BY <1>3, <1>5, <1>6

\* A set of readers grows and shrinks by one.
LEMMA ReadersCounted ==
    ASSUME NEW S \in SUBSET Reader, NEW r \in Reader
    PROVE  /\ Cardinality(S) \in Nat
           /\ r \notin S => Cardinality(S \cup {r}) = Cardinality(S) + 1
           /\ r \in S => Cardinality(S \ {r}) = Cardinality(S) - 1 /\ Cardinality(S) >= 1
<1>1. IsFiniteSet(S)
      BY FS_Subset, MessageAssumption
<1>2. Cardinality(S) \in Nat /\ Cardinality(S \ {r}) \in Nat
      BY <1>1, FS_CardinalityType, FS_RemoveElement
<1>3. Cardinality(S \cup {r}) = IF r \in S THEN Cardinality(S) ELSE Cardinality(S) + 1
      BY <1>1, FS_AddElement
<1>4. Cardinality(S \ {r}) = IF r \in S THEN Cardinality(S) - 1 ELSE Cardinality(S)
      BY <1>1, FS_RemoveElement
<1> QED BY <1>2, <1>3, <1>4

\* What a reader under way asks for.
LEMMA AskingAsk ==
    ASSUME MessageTypeOK, AskingSound, NEW r \in Asking
    PROVE  r \in Reader /\ reading[r] \in Ask
BY DEF MessageTypeOK, AskingSound, Asking, Ask

-----------------------------------------------------------------------------
(* Messages.                                                               *)

LEMMA InitMessageInv == MessageInit => MessageInv
<1> SUFFICES ASSUME MessageInit
             PROVE  MessageInv
    OBVIOUS
<1>1. message \in MessageRow /\ NotReading.row = message /\ message.receipts = {}
      BY DEF MessageInit, NotReading, MessageRow, MessageStatus, HandoffState
<1>2. MessageTypeOK
      <2>1. requests \in 0 .. MaxRequests /\ {changed, told, untold} \subseteq 0 .. requests
            BY MessageAssumption DEF MessageInit
      <2>2. reading \in [Reader -> [row : MessageRow, status : GivenStatuses \cup {"none"},
                                    handoff_state : HandoffState \cup {"current", "none"}]]
            BY NotReadingTyped DEF MessageInit
      <2> QED BY <1>1, <2>1, <2>2 DEF MessageInit, MessageTypeOK
<1>3. Asking = {} /\ telling = {} /\ Cardinality({}) = 0
      BY FS_EmptySet DEF MessageInit, Asking
<1>4. NestedRow(message)
      BY DEF MessageInit, NotReading, NestedRow, ReceiptsOf
<1>5. AskingSound /\ UncrossedAlone
      BY <1>3 DEF AskingSound, UncrossedAlone
<1>6. RequestsCover /\ ChangesTold
      BY <1>3 DEF MessageInit, RequestsCover, ChangesTold
<1> QED BY <1>2, <1>4, <1>5, <1>6 DEF MessageInv

LEMMA ReadMessageStep ==
    ASSUME MessageInv, NEW r \in Reader, ReadMessage(r)
    PROVE  MessageInv'
<1>1. PICK s \in GivenStatuses, h \in HandoffState \cup {"current"} :
          reading' = [reading EXCEPT ![r] = [row |-> message, status |-> s, handoff_state |-> h]]
      BY DEF ReadMessage
<1>2. /\ requests < MaxRequests /\ requests' = requests + 1
      /\ r \notin Asking /\ r \notin telling
      /\ crossed' = (crossed \/ Asking # {})
      /\ message' = message /\ telling' = telling
      /\ changed' = changed /\ told' = told /\ untold' = untold
      BY DEF ReadMessage
<1>3. /\ message \in MessageRow /\ requests \in Nat /\ changed \in Nat /\ told \in Nat
      /\ untold \in Nat /\ telling \subseteq Reader /\ Asking \subseteq Reader
      BY DEF MessageInv, MessageTypeOK, Asking
<1>4. /\ reading'[r] \in Ask /\ reading'[r].row = message
      /\ \A q \in Reader \ {r} : reading'[q] = reading[q]
      BY <1>1, <1>3 DEF MessageInv, MessageTypeOK, Ask
<1>5. Asking' = Asking \cup {r}
      BY <1>4, AskIsReading DEF Asking
<1>6. MessageTypeOK'
      <2>1. reading' \in [Reader -> [row : MessageRow, status : GivenStatuses \cup {"none"},
                                     handoff_state : HandoffState \cup {"current", "none"}]]
            BY <1>1, <1>3 DEF MessageInv, MessageTypeOK
      <2>2. requests' \in 0 .. MaxRequests /\ {changed', told', untold'} \subseteq 0 .. requests'
            BY <1>2, MessageAssumption DEF MessageInv, MessageTypeOK
      <2> QED BY <1>2, <2>1, <2>2 DEF MessageInv, MessageTypeOK
<1>7. NestedRow(message)'
      BY <1>2 DEF MessageInv, NestedRow
<1>8. AskingSound'
      <2> SUFFICES ASSUME NEW q \in Asking'
                   PROVE  /\ q \notin telling'
                          /\ reading'[q].status \in GivenStatuses
                          /\ reading'[q].handoff_state \in HandoffState \cup {"current"}
                          /\ NestedRow(reading'[q].row)
          BY DEF AskingSound, NestedRow
      <2>1. CASE q = r
            BY <1>2, <1>4, <2>1 DEF MessageInv, Ask
      <2>2. CASE q # r
            BY <1>2, <1>3, <1>4, <1>5, <2>2 DEF MessageInv, AskingSound
      <2> QED BY <2>1, <2>2
<1>9. UncrossedAlone'
      BY <1>2, <1>4, <1>5 DEF UncrossedAlone
<1>10. RequestsCover'
      <2>1. Cardinality(Asking') = Cardinality(Asking) + 1
            BY <1>2, <1>3, <1>5, ReadersCounted
      <2>2. Cardinality(Asking) \in Nat /\ Cardinality(telling) \in Nat
            BY <1>3, ReadersCounted
      <2>3. /\ changed + Cardinality(Asking) <= requests
            /\ told + untold + Cardinality(telling) + Cardinality(Asking) <= requests
            BY DEF MessageInv, RequestsCover
      <2> QED BY <1>2, <1>3, <2>1, <2>2, <2>3 DEF RequestsCover
<1>11. ChangesTold'
      BY <1>2 DEF MessageInv, ChangesTold
<1> QED BY <1>6, <1>7, <1>8, <1>9, <1>10, <1>11 DEF MessageInv

LEMMA WriteMessageStep ==
    ASSUME MessageInv, NEW r \in Reader, WriteMessage(r)
    PROVE  MessageInv'
<1> DEFINE new  == Updated(reading[r])
           tell == {q \in {r} : Tells(reading[r].row, new)}
           one  == IF Tells(message, new) THEN 1 ELSE 0
<1>1. /\ r \in Asking /\ r \notin telling
      /\ reading[r] \in Ask /\ NestedRow(reading[r].row)
      BY AskingAsk DEF WriteMessage, MessageInv, AskingSound
<1>2. /\ message' = new
      /\ reading' = [reading EXCEPT ![r] = NotReading]
      /\ changed' = changed + one
      /\ telling' = telling \cup tell
      /\ requests' = requests /\ told' = told /\ untold' = untold /\ crossed' = crossed
      BY DEF WriteMessage
<1>3. /\ requests \in Nat /\ changed \in Nat /\ told \in Nat
      /\ untold \in Nat /\ telling \subseteq Reader /\ Asking \subseteq Reader
      BY DEF MessageInv, MessageTypeOK, Asking
<1>4. new \in MessageRow /\ NestedRow(new)
      BY <1>1, UpdatedRow
<1>5. ~crossed => tell = IF one = 1 THEN {r} ELSE {}
      BY <1>1 DEF MessageInv, UncrossedAlone
<1>6. tell \in {{}, {r}} /\ one \in {0, 1}
      OBVIOUS
<1> HIDE DEF new, tell, one
<1>7. /\ reading'[r] = NotReading
      /\ \A q \in Reader \ {r} : reading'[q] = reading[q]
      BY <1>2 DEF MessageInv, MessageTypeOK
<1>8. Asking' = Asking \ {r}
      BY <1>7 DEF Asking
<1>9. Cardinality(Asking') = Cardinality(Asking) - 1 /\ Cardinality(Asking) >= 1
      BY <1>1, <1>3, <1>8, ReadersCounted
<1>10. Cardinality(telling') = Cardinality(telling) + IF tell = {} THEN 0 ELSE 1
      <2>1. CASE tell = {}
            <3>1. telling' = telling
                  BY <1>2, <2>1
            <3>2. Cardinality(telling) \in Nat
                  BY <1>3, ReadersCounted
            <3> QED BY <2>1, <3>1, <3>2
      <2>2. CASE tell = {r}
            BY <1>1, <1>2, <1>3, <2>2, ReadersCounted
      <2> QED BY <1>6, <2>1, <2>2
<1>11. Cardinality(Asking) \in Nat /\ Cardinality(telling) \in Nat
      BY <1>3, ReadersCounted
<1>12. /\ changed + Cardinality(Asking) <= requests
       /\ told + untold + Cardinality(telling) + Cardinality(Asking) <= requests
      BY DEF MessageInv, RequestsCover
<1>13. RequestsCover'
      BY <1>2, <1>3, <1>6, <1>9, <1>10, <1>11, <1>12 DEF RequestsCover
<1>14. MessageTypeOK'
      <2>1. reading' \in [Reader -> [row : MessageRow, status : GivenStatuses \cup {"none"},
                                     handoff_state : HandoffState \cup {"current", "none"}]]
            BY <1>2, NotReadingTyped DEF MessageInv, MessageTypeOK
      <2>2. telling' \subseteq Reader
            BY <1>2, <1>3, <1>6
      <2>3. changed' \in 0 .. requests
            BY <1>2, <1>3, <1>6, <1>9, <1>11, <1>12
      <2> QED BY <1>2, <1>4, <2>1, <2>2, <2>3 DEF MessageInv, MessageTypeOK
<1>15. NestedRow(message)'
      BY <1>2, <1>4 DEF NestedRow
<1>16. AskingSound'
      BY <1>1, <1>2, <1>3, <1>6, <1>7, <1>8 DEF MessageInv, AskingSound, NestedRow
<1>17. UncrossedAlone'
      <2> SUFFICES ASSUME ~crossed
                   PROVE  Asking' = {}
          BY <1>2 DEF UncrossedAlone
      <2> QED BY <1>1, <1>8 DEF MessageInv, UncrossedAlone
<1>18. ChangesTold'
      <2> SUFFICES ASSUME ~crossed
                   PROVE  changed' = told' + untold' + Cardinality(telling')
          BY <1>2 DEF ChangesTold
      <2>1. changed = told + untold + Cardinality(telling)
            BY DEF MessageInv, ChangesTold
      <2> QED BY <1>2, <1>3, <1>5, <1>6, <1>10, <1>11, <2>1
<1> QED BY <1>13, <1>14, <1>15, <1>16, <1>17, <1>18 DEF MessageInv

LEMMA EmitChangeStep ==
    ASSUME MessageInv, NEW r \in Reader, EmitChange(r)
    PROVE  MessageInv'
<1>1. /\ r \in telling /\ telling' = telling \ {r} /\ told' = told + 1
      /\ message' = message /\ reading' = reading /\ requests' = requests
      /\ changed' = changed /\ untold' = untold /\ crossed' = crossed
      BY DEF EmitChange
<1>2. /\ requests \in Nat /\ changed \in Nat /\ told \in Nat
      /\ untold \in Nat /\ telling \subseteq Reader /\ Asking \subseteq Reader
      BY DEF MessageInv, MessageTypeOK, Asking
<1>3. Asking' = Asking
      BY <1>1 DEF Asking
<1>4. /\ Cardinality(telling') = Cardinality(telling) - 1
      /\ Cardinality(telling) \in Nat /\ Cardinality(telling) >= 1
      /\ Cardinality(Asking) \in Nat
      BY <1>1, <1>2, ReadersCounted
<1>5. /\ changed + Cardinality(Asking) <= requests
      /\ told + untold + Cardinality(telling) + Cardinality(Asking) <= requests
      BY DEF MessageInv, RequestsCover
<1>6. RequestsCover'
      BY <1>1, <1>2, <1>3, <1>4, <1>5 DEF RequestsCover
<1>7. told' \in 0 .. requests
      BY <1>1, <1>2, <1>4, <1>5
<1>8. MessageTypeOK'
      BY <1>1, <1>7 DEF MessageInv, MessageTypeOK
<1>9. NestedRow(message)' /\ AskingSound' /\ UncrossedAlone'
      BY <1>1, <1>3 DEF MessageInv, NestedRow, AskingSound, UncrossedAlone
<1>10. ChangesTold'
      BY <1>1, <1>2, <1>4 DEF MessageInv, ChangesTold
<1> QED BY <1>6, <1>8, <1>9, <1>10 DEF MessageInv

LEMMA ReaderDiesStep ==
    ASSUME MessageInv, NEW r \in Reader, ReaderDies(r)
    PROVE  MessageInv'
<1>1. /\ r \in Asking \cup telling
      /\ reading' = [reading EXCEPT ![r] = NotReading]
      /\ telling' = telling \ {r} /\ untold' = untold + Cardinality(telling \cap {r})
      /\ message' = message /\ requests' = requests /\ changed' = changed
      /\ told' = told /\ crossed' = crossed
      BY DEF ReaderDies
<1>2. /\ requests \in Nat /\ changed \in Nat /\ told \in Nat
      /\ untold \in Nat /\ telling \subseteq Reader /\ Asking \subseteq Reader
      BY DEF MessageInv, MessageTypeOK, Asking
<1>3. /\ reading'[r] = NotReading
      /\ \A q \in Reader \ {r} : reading'[q] = reading[q]
      BY <1>1 DEF MessageInv, MessageTypeOK
<1>4. Asking' = Asking \ {r}
      BY <1>3 DEF Asking
<1>5. Cardinality(Asking) \in Nat /\ Cardinality(telling) \in Nat /\ Cardinality(Asking') \in Nat
      BY <1>2, <1>4, ReadersCounted
<1>6. Cardinality(Asking') <= Cardinality(Asking)
      <2>1. CASE r \in Asking
            BY <1>2, <1>4, <1>5, <2>1, ReadersCounted
      <2>2. CASE r \notin Asking
            <3>1. Asking' = Asking
                  BY <1>4, <2>2
            <3> QED BY <1>5, <3>1
      <2> QED BY <2>1, <2>2
<1>7. untold' \in Nat /\ untold' + Cardinality(telling') = untold + Cardinality(telling)
      <2>1. CASE r \in telling
            <3>1. telling \cap {r} = {r} /\ Cardinality({r}) = 1
                  BY <2>1, FS_Singleton
            <3>2. untold' = untold + 1
                  BY <1>1, <3>1
            <3>3. Cardinality(telling') = Cardinality(telling) - 1
                  BY <1>1, <1>2, <2>1, ReadersCounted
            <3> QED BY <1>2, <1>5, <3>2, <3>3
      <2>2. CASE r \notin telling
            <3>1. telling \cap {r} = {} /\ telling' = telling /\ Cardinality({}) = 0
                  BY <1>1, <2>2, FS_EmptySet
            <3>2. untold' = untold
                  BY <1>1, <1>2, <3>1
            <3> QED BY <1>2, <1>5, <3>1, <3>2
      <2> QED BY <2>1, <2>2
<1>8. Cardinality(telling') \in Nat
      BY <1>1, <1>2, ReadersCounted
<1>9. /\ changed + Cardinality(Asking) <= requests
      /\ told + untold + Cardinality(telling) + Cardinality(Asking) <= requests
      BY DEF MessageInv, RequestsCover
<1>10. RequestsCover'
      BY <1>1, <1>2, <1>5, <1>6, <1>7, <1>8, <1>9 DEF RequestsCover
<1>11. MessageTypeOK'
      <2>1. reading' \in [Reader -> [row : MessageRow, status : GivenStatuses \cup {"none"},
                                     handoff_state : HandoffState \cup {"current", "none"}]]
            BY <1>1, NotReadingTyped DEF MessageInv, MessageTypeOK
      <2>2. untold' \in 0 .. requests
            BY <1>2, <1>5, <1>7, <1>8, <1>9
      <2>3. telling' \subseteq Reader
            BY <1>1, <1>2
      <2> QED BY <1>1, <2>1, <2>2, <2>3 DEF MessageInv, MessageTypeOK
<1>12. NestedRow(message)'
      BY <1>1 DEF MessageInv, NestedRow
<1>13. AskingSound'
      BY <1>1, <1>2, <1>3, <1>4 DEF MessageInv, AskingSound, NestedRow
<1>14. UncrossedAlone'
      BY <1>1, <1>2, <1>3, <1>4 DEF MessageInv, UncrossedAlone
<1>15. ChangesTold'
      BY <1>1, <1>2, <1>5, <1>7, <1>8 DEF MessageInv, ChangesTold
<1> QED BY <1>10, <1>11, <1>12, <1>13, <1>14, <1>15 DEF MessageInv

LEMMA NextMessageInv == MessageInv /\ [MessageNext]_messageVars => MessageInv'
<1> SUFFICES ASSUME MessageInv, [MessageNext]_messageVars
             PROVE  MessageInv'
    OBVIOUS
<1>1. CASE UNCHANGED messageVars
      BY <1>1 DEF messageVars, MessageInv, MessageTypeOK, NestedRow, AskingSound, Asking,
                  UncrossedAlone, RequestsCover, ChangesTold
<1>2. CASE MessageNext
      BY <1>2, ReadMessageStep, WriteMessageStep, EmitChangeStep, ReaderDiesStep DEF MessageNext
<1> QED BY <1>1, <1>2

\* MessageInv holds in every state of every instance.
THEOREM MessageInductive == MessageSpec => []MessageInv
<1> QED BY InitMessageInv, NextMessageInv, PTL DEF MessageSpec

\* However many requests cross or die, a message's row has the times of its
\* status and of every status before it, and unless requests crossed every change
\* is told of once, or was by a process that died (update_message_state).
THEOREM MessagesAreSound == MessageSpec => []MessagesSound
<1>1. MessageInv => MessagesSound
      BY DEF MessageInv, NestedRow, MessagesSound, ReceiptsNested
<1> QED BY <1>1, MessageInductive, PTL

\* The times of a message are only ever added to until requests cross
\* (update_message_state).
THEOREM ReceiptsAreKept == MessageSpec => ReceiptsKept
<1>1. MessageInv /\ [MessageNext]_messageVars
          => [crossed \/ message.receipts \subseteq message'.receipts]_messageVars
      <2> SUFFICES ASSUME MessageInv, MessageNext, ~crossed
                   PROVE  message.receipts \subseteq message'.receipts
          OBVIOUS
      <2>1. PICK r \in Reader :
                ReadMessage(r) \/ WriteMessage(r) \/ EmitChange(r) \/ ReaderDies(r)
            BY DEF MessageNext
      <2>2. CASE ReadMessage(r) \/ EmitChange(r) \/ ReaderDies(r)
            BY <2>2 DEF ReadMessage, EmitChange, ReaderDies
      <2>3. CASE WriteMessage(r)
            <3>1. r \in Asking /\ message' = Updated(reading[r])
                  BY <2>3 DEF WriteMessage
            <3>2. reading[r] \in Ask /\ reading[r].row = message
                  BY <3>1, AskingAsk DEF MessageInv, UncrossedAlone
            <3> QED BY <3>1, <3>2, UpdatedRow
      <2> QED BY <2>1, <2>2, <2>3
<1> QED BY <1>1, MessageInductive, PTL DEF MessageSpec, ReceiptsKept

-----------------------------------------------------------------------------
(* Artifacts.                                                              *)

\* A set of numbers below a bound has a greatest (MAX in the query's SELECT).
LEMMA GreatestExists ==
    ASSUME NEW n \in Nat, NEW S \in SUBSET (0 .. n), S # {}
    PROVE  Max(S) \in S
<1> DEFINE T == {x \in 0 .. n : n - x \in S}
<1>1. T \subseteq Nat /\ T # {}
      <2>1. PICK y \in S : TRUE
            OBVIOUS
      <2>2. n - y \in 0 .. n /\ n - (n - y) = y
            BY <2>1
      <2>3. n - y \in T
            BY <2>1, <2>2
      <2>4. T \subseteq 0 .. n
            OBVIOUS
      <2> HIDE DEF T
      <2> QED BY <2>3, <2>4
<1>2. \E x \in T : \A y \in T : ~(<<y, x>> \in OpToRel(<, Nat))
      BY <1>1, NatLessThanWellFounded, WFMin
<1>3. PICK x \in T : \A y \in T : ~(y < x)
      <2>1. PICK x \in T : \A y \in T : ~(<<y, x>> \in OpToRel(<, Nat))
            BY <1>2
      <2>2. \A y \in T : y < x => <<y, x>> \in OpToRel(<, Nat)
            BY <1>1, <2>1 DEF OpToRel
      <2> QED BY <2>1, <2>2
<1>4. n - x \in S
      BY <1>3
<1>5. \A y \in S : n - x >= y
      <2> SUFFICES ASSUME NEW y \in S
                   PROVE  n - x >= y
          OBVIOUS
      <2>1. y \in 0 .. n /\ n - y \in 0 .. n /\ n - (n - y) = y
            OBVIOUS
      <2>2. n - y \in T
            BY <2>1
      <2>3. ~(n - y < x)
            BY <1>3, <2>2
      <2>4. x \in 0 .. n
            BY <1>3
      <2> HIDE DEF T
      <2> QED BY <2>1, <2>3, <2>4
<1> QED BY <1>4, <1>5 DEF Max

\* The next version is a version (next_artifact_version).
LEMMA NextVersionNumber ==
    ASSUME VersionsBounded
    PROVE  NextArtifactVersion \in Nat \ {0}
<1>1. /\ DOMAIN artifact \cup {0} \in SUBSET (0 .. MaxArtifacts)
      /\ DOMAIN artifact \cup {0} # {}
      BY ArtifactAssumption DEF VersionsBounded
<1>2. Max(DOMAIN artifact \cup {0}) \in 0 .. MaxArtifacts
      BY <1>1, GreatestExists, ArtifactAssumption
<1> QED BY <1>2, ArtifactAssumption DEF NextArtifactVersion

LEMMA InitArtifactInv == ArtifactInit => ArtifactInv
<1> SUFFICES ASSUME ArtifactInit
             PROVE  ArtifactInv
    OBVIOUS
<1>1. DOMAIN artifact = {}
      BY DEF ArtifactInit
<1>2. /\ artifactCall \in [Caller -> ArtifactCall]
      /\ \A c \in Caller : artifactCall[c].step = "idle"
      BY DEF ArtifactInit, NoArtifactCall, ArtifactCall, State, ARTIFACT_STATE_TRANSITIONS
<1> QED BY <1>1, <1>2 DEF ArtifactInit, ArtifactInv, ArtifactTypeOK, AnswersKept,
                          VersionsBounded, CallsPlaced, MovesPlanned

\* A call that ends, or that starts, leaves the others' calls as they are.
LEMMA OthersCalls ==
    ASSUME ArtifactTypeOK, NEW c \in Caller, NEW next \in ArtifactCall, GotoArtifact(c, next)
    PROVE  /\ artifactCall' \in [Caller -> ArtifactCall]
           /\ artifactCall'[c] = next
           /\ \A d \in Caller \ {c} : artifactCall'[d] = artifactCall[d]
BY DEF ArtifactTypeOK, GotoArtifact

LEMMA NoCallTyped == NoArtifactCall \in ArtifactCall /\ NoArtifactCall.step = "idle"
BY DEF NoArtifactCall, ArtifactCall, State, ARTIFACT_STATE_TRANSITIONS

LEMMA ReadArtifactVersionStep ==
    ASSUME ArtifactInv, NEW c \in Caller, ReadArtifactVersion(c)
    PROVE  ArtifactInv'
<1>1. PICK v \in {NextArtifactVersion} \cup 1 .. MaxArtifacts, s \in InitialState :
          /\ v <= MaxArtifacts
          /\ GotoArtifact(c, [step |-> "insert", version |-> v, state |-> s])
      BY DEF ReadArtifactVersion
<1>2. artifact' = artifact /\ answer' = answer /\ raced' = raced
      BY DEF ReadArtifactVersion
<1>3. v \in 1 .. MaxArtifacts
      BY <1>1, NextVersionNumber, ArtifactAssumption DEF ArtifactInv
<1> DEFINE next == [step |-> "insert", version |-> v, state |-> s]
<1>4. next \in ArtifactCall
      BY <1>3, StateAssumption, ArtifactAssumption DEF ArtifactCall
<1>5. /\ artifactCall' \in [Caller -> ArtifactCall]
      /\ artifactCall'[c] = next
      /\ \A d \in Caller \ {c} : artifactCall'[d] = artifactCall[d]
      BY <1>1, <1>4, OthersCalls DEF ArtifactInv
<1>6. artifactCall'[c].step = "insert" /\ artifactCall'[c].version = v
      BY <1>5
<1> HIDE DEF next
<1>7. ArtifactTypeOK' /\ AnswersKept' /\ VersionsBounded'
      BY <1>2, <1>5 DEF ArtifactInv, ArtifactTypeOK, AnswersKept, VersionsBounded
<1>8. CallsPlaced'
      BY <1>2, <1>3, <1>5, <1>6 DEF ArtifactInv, CallsPlaced
<1>9. MovesPlanned'
      BY <1>2, <1>5, <1>6 DEF ArtifactInv, MovesPlanned, Legal
<1> QED BY <1>7, <1>8, <1>9 DEF ArtifactInv

LEMMA InsertArtifactStep ==
    ASSUME ArtifactInv, NEW c \in Caller, InsertArtifact(c)
    PROVE  ArtifactInv'
<1> DEFINE v == artifactCall[c].version
<1>1. /\ artifactCall[c] \in ArtifactCall
      /\ v \in 1 .. MaxArtifacts /\ v \in ArtifactVersion
      BY ArtifactAssumption
      DEF InsertArtifact, ArtifactInv, ArtifactTypeOK, CallsPlaced, ArtifactVersion
<1>2. /\ artifactCall' \in [Caller -> ArtifactCall]
      /\ artifactCall'[c].step = "idle"
      /\ \A d \in Caller \ {c} : artifactCall'[d] = artifactCall[d]
      BY NoCallTyped, OthersCalls DEF InsertArtifact, ArtifactInv
<1>3. raced' = raced
      BY DEF InsertArtifact
<1>4. CASE UNCHANGED <<artifact, answer>>
      BY <1>2, <1>3, <1>4
      DEF ArtifactInv, ArtifactTypeOK, AnswersKept, VersionsBounded, CallsPlaced, MovesPlanned
<1>5. CASE /\ v \notin DOMAIN artifact
           /\ artifact' = WithArtifact(artifact, v, Row(c))
           /\ answer' = [answer EXCEPT ![c] = v]
      <2>1. /\ DOMAIN artifact' = DOMAIN artifact \cup {v}
            /\ artifact'[v] = Row(c)
            /\ \A w \in DOMAIN artifact : artifact'[w] = artifact[w]
            BY <1>5 DEF WithArtifact
      <2>2. Row(c) \in ArtifactRow /\ Row(c).owner = c
            BY <1>1 DEF Row, ArtifactRow, ArtifactCall
      <2>3. /\ answer' \in [Caller -> Nat] /\ answer'[c] = v
            /\ \A d \in Caller \ {c} : answer'[d] = answer[d]
            BY <1>1, <1>5, ArtifactAssumption DEF ArtifactInv, ArtifactTypeOK, ArtifactVersion
      <2> HIDE DEF v
      <2>4. ArtifactTypeOK'
            BY <1>1, <1>2, <1>3, <2>1, <2>2, <2>3 DEF ArtifactInv, ArtifactTypeOK
      <2>5. AnswersKept'
            BY <2>1, <2>2, <2>3 DEF ArtifactInv, AnswersKept
      <2>6. VersionsBounded' /\ CallsPlaced'
            BY <1>1, <1>2, <2>1 DEF ArtifactInv, VersionsBounded, CallsPlaced
      <2>7. MovesPlanned'
            <3> SUFFICES ASSUME NEW d \in Caller, artifactCall'[d].step = "update",
                                artifactCall'[d].version \notin raced
                         PROVE  Legal(artifact'[artifactCall'[d].version].state,
                                      artifactCall'[d].state)
                BY <1>3 DEF MovesPlanned, Legal
            <3>1. d # c /\ artifactCall'[d] = artifactCall[d]
                  BY <1>2
            <3>2. artifactCall[d].version \in DOMAIN artifact
                  BY <3>1 DEF ArtifactInv, CallsPlaced
            <3>3. artifact'[artifactCall'[d].version] = artifact[artifactCall[d].version]
                  BY <2>1, <3>1, <3>2
            <3> QED BY <3>1, <3>3 DEF ArtifactInv, MovesPlanned
      <2> QED BY <2>4, <2>5, <2>6, <2>7 DEF ArtifactInv
<1> QED BY <1>4, <1>5 DEF InsertArtifact

LEMMA ReadStateStep ==
    ASSUME ArtifactInv, NEW c \in Caller, ReadState(c)
    PROVE  ArtifactInv'
<1>1. PICK v \in DOMAIN artifact, s \in State :
          /\ Legal(artifact[v].state, s)
          /\ GotoArtifact(c, [step |-> "update", version |-> v, state |-> s])
      BY DEF ReadState
<1>2. artifact' = artifact /\ answer' = answer /\ raced' = raced
      BY DEF ReadState
<1>3. [step |-> "update", version |-> v, state |-> s] \in ArtifactCall
      BY DEF ArtifactCall, ArtifactInv, ArtifactTypeOK, ArtifactVersion
<1>4. /\ artifactCall' \in [Caller -> ArtifactCall]
      /\ artifactCall'[c].step = "update" /\ artifactCall'[c].version = v
      /\ artifactCall'[c].state = s
      /\ \A d \in Caller \ {c} : artifactCall'[d] = artifactCall[d]
      BY <1>1, <1>3, OthersCalls DEF ArtifactInv
<1>5. ArtifactTypeOK' /\ AnswersKept' /\ VersionsBounded'
      BY <1>2, <1>4 DEF ArtifactInv, ArtifactTypeOK, AnswersKept, VersionsBounded
<1>6. CallsPlaced'
      BY <1>2, <1>4 DEF ArtifactInv, CallsPlaced
<1>7. MovesPlanned'
      <2> SUFFICES ASSUME NEW d \in Caller, artifactCall'[d].step = "update",
                          artifactCall'[d].version \notin raced
                   PROVE  Legal(artifact[artifactCall'[d].version].state, artifactCall'[d].state)
          BY <1>2 DEF MovesPlanned, Legal
      <2>1. CASE d = c
            BY <1>1, <1>4, <2>1
      <2>2. CASE d # c
            BY <1>4, <2>2 DEF ArtifactInv, MovesPlanned
      <2> QED BY <2>1, <2>2
<1> QED BY <1>5, <1>6, <1>7 DEF ArtifactInv

LEMMA WriteStateStep ==
    ASSUME ArtifactInv, NEW c \in Caller, WriteState(c)
    PROVE  ArtifactInv'
<1> DEFINE v == artifactCall[c].version
           row == [artifact[v] EXCEPT !.state = artifactCall[c].state]
<1>1. /\ artifactCall[c] \in ArtifactCall /\ v \in DOMAIN artifact
      /\ artifactCall[c].step = "update"
      BY DEF WriteState, ArtifactInv, ArtifactTypeOK, CallsPlaced
<1>2. /\ artifactCall' \in [Caller -> ArtifactCall]
      /\ artifactCall'[c].step = "idle"
      /\ \A d \in Caller \ {c} : artifactCall'[d] = artifactCall[d]
      BY NoCallTyped, OthersCalls DEF WriteState, ArtifactInv
<1>3. /\ artifact' = [artifact EXCEPT ![v] = row]
      /\ answer' = answer
      /\ raced' = raced \cup {w \in {v} : \E d \in Caller \ {c} :
                                  artifactCall[d].step = "update" /\ artifactCall[d].version = w}
      BY DEF WriteState
<1>4. row \in ArtifactRow /\ row.owner = artifact[v].owner
      BY <1>1 DEF ArtifactInv, ArtifactTypeOK, ArtifactRow, ArtifactCall
<1> HIDE DEF v, row
<1>5. /\ DOMAIN artifact' = DOMAIN artifact /\ artifact'[v] = row
      /\ \A w \in DOMAIN artifact \ {v} : artifact'[w] = artifact[w]
      BY <1>1, <1>3
<1>6. raced' \subseteq raced \cup {v} /\ raced \subseteq raced'
      BY <1>3
<1>7. ArtifactTypeOK'
      BY <1>1, <1>2, <1>3, <1>4, <1>5, <1>6 DEF ArtifactInv, ArtifactTypeOK
<1>8. AnswersKept'
      BY <1>3, <1>4, <1>5 DEF ArtifactInv, AnswersKept
<1>9. VersionsBounded' /\ CallsPlaced'
      BY <1>2, <1>5 DEF ArtifactInv, VersionsBounded, CallsPlaced
<1>10. MovesPlanned'
      <2> SUFFICES ASSUME NEW d \in Caller, artifactCall'[d].step = "update",
                          artifactCall'[d].version \notin raced'
                   PROVE  Legal(artifact'[artifactCall'[d].version].state, artifactCall'[d].state)
          BY DEF MovesPlanned, Legal
      <2>1. d # c /\ artifactCall'[d] = artifactCall[d]
            BY <1>2
      <2>2. artifactCall[d].version \notin raced /\ artifactCall[d].version \in DOMAIN artifact
            BY <1>6, <2>1 DEF ArtifactInv, CallsPlaced
      <2>3. artifactCall[d].version # v
            BY <1>3, <2>1
      <2>4. artifact'[artifactCall'[d].version] = artifact[artifactCall[d].version]
            BY <1>5, <2>1, <2>2, <2>3
      <2> QED BY <2>1, <2>2, <2>4 DEF ArtifactInv, MovesPlanned
<1> QED BY <1>7, <1>8, <1>9, <1>10 DEF ArtifactInv

LEMMA AbandonArtifactStep ==
    ASSUME ArtifactInv, NEW c \in Caller, AbandonArtifact(c)
    PROVE  ArtifactInv'
<1>1. artifact' = artifact /\ answer' = answer /\ raced' = raced
      BY DEF AbandonArtifact
<1>2. /\ artifactCall' \in [Caller -> ArtifactCall]
      /\ artifactCall'[c].step = "idle"
      /\ \A d \in Caller \ {c} : artifactCall'[d] = artifactCall[d]
      BY NoCallTyped, OthersCalls DEF AbandonArtifact, ArtifactInv
<1> QED BY <1>1, <1>2 DEF ArtifactInv, ArtifactTypeOK, AnswersKept, VersionsBounded,
                          CallsPlaced, MovesPlanned

LEMMA NextArtifactInv == ArtifactInv /\ [ArtifactNext]_artifactVars => ArtifactInv'
<1> SUFFICES ASSUME ArtifactInv, [ArtifactNext]_artifactVars
             PROVE  ArtifactInv'
    OBVIOUS
<1>1. CASE UNCHANGED artifactVars
      BY <1>1 DEF artifactVars, ArtifactInv, ArtifactTypeOK, AnswersKept, VersionsBounded,
                  CallsPlaced, MovesPlanned
<1>2. CASE ArtifactNext
      BY <1>2, ReadArtifactVersionStep, InsertArtifactStep, ReadStateStep, WriteStateStep,
         AbandonArtifactStep DEF ArtifactNext
<1> QED BY <1>1, <1>2

\* ArtifactInv holds in every state of every instance.
THEOREM ArtifactInductive == ArtifactSpec => []ArtifactInv
<1> QED BY InitArtifactInv, NextArtifactInv, PTL DEF ArtifactSpec

\* The version a caller was answered stays its own, whoever registers or moves
\* what else (register_artifact, UNIQUE of artifacts).
THEOREM ArtifactsAreSound == ArtifactSpec => []ArtifactsSound
<1>1. ArtifactInv => ArtifactsSound
      BY DEF ArtifactInv, ArtifactsSound
<1> QED BY <1>1, ArtifactInductive, PTL

\* An artifact that no two calls moved at once only moves along the table
\* (update_artifact_state checks the move against the state that it has read).
THEOREM UnracedMovesAreLegal == ArtifactSpec => UnracedMovesLegal
<1>1. ArtifactInv /\ [ArtifactNext]_artifactVars
          => [\A v \in DOMAIN artifact \ raced :
                  Legal(artifact[v].state, artifact'[v].state)]_artifactVars
      <2> SUFFICES ASSUME ArtifactInv, ArtifactNext, NEW v \in DOMAIN artifact \ raced
                   PROVE  Legal(artifact[v].state, artifact'[v].state)
          OBVIOUS
      <2>1. PICK c \in Caller :
                \/ ReadArtifactVersion(c) \/ InsertArtifact(c) \/ ReadState(c) \/ WriteState(c)
                \/ AbandonArtifact(c)
            BY DEF ArtifactNext
      <2>2. CASE artifact'[v] = artifact[v]
            BY <2>2 DEF Legal
      <2>3. CASE ReadArtifactVersion(c) \/ ReadState(c) \/ AbandonArtifact(c)
            BY <2>2, <2>3 DEF ReadArtifactVersion, ReadState, AbandonArtifact
      <2>4. CASE InsertArtifact(c)
            BY <2>2, <2>4 DEF InsertArtifact, WithArtifact
      <2>5. CASE WriteState(c)
            <3> DEFINE w == artifactCall[c].version
            <3>1. CASE v # w
                  BY <2>2, <2>5, <3>1 DEF WriteState
            <3>2. CASE v = w
                  <4>1. artifact[v] \in ArtifactRow /\ artifactCall[c].step = "update"
                        BY <2>5 DEF ArtifactInv, ArtifactTypeOK, WriteState
                  <4>2. artifact'[v].state = artifactCall[c].state
                        BY <2>5, <3>2, <4>1 DEF WriteState, ArtifactRow
                  <4> QED BY <3>2, <4>1, <4>2 DEF ArtifactInv, MovesPlanned
            <3> QED BY <3>1, <3>2
      <2> QED BY <2>1, <2>3, <2>4, <2>5
<1> QED BY <1>1, ArtifactInductive, PTL DEF ArtifactSpec, UnracedMovesLegal

=============================================================================
