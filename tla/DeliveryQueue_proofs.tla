------------------------ MODULE DeliveryQueue_proofs ------------------------
(***************************************************************************)
(* Proofs about DeliveryQueue, for any deliveries, any number of starts of *)
(* the server and any number of retries.  DeliveryInv is inductive.  Most  *)
(* of it is about deliveries that are not disturbed: one actor at most has *)
(* such a delivery in hand, so that its file says what was done.           *)
(***************************************************************************)
EXTENDS DeliveryQueue, FiniteSetTheorems, TLAPS

\* A pass has loaded a delivery and not come to it.
Waits(p, d) == \E e \in pending[p] : e.id = d

\* Those whose send of a delivery failed, or was taken to, and who have not read its
\* file.
Failing(d) == {a \in Actor : step[a] = "failing" /\ item[a] = d}

\* Those who may still find that a delivery cannot be sent, or that this cannot be
\* recorded, which only a pass takes for the same.
Untried(d) ==
    {a \in {d} \cup Pass : \/ step[a] = "new"
                           \/ step[a] = "sending" /\ item[a] = d
                           \/ a \in Pass /\ step[a] = "acking" /\ item[a] = d
                           \/ a \in Pass /\ Waits(a, d)}

\* A sender is at work on its own delivery, a pass on none that it will come to.
ItemsShaped ==
    /\ \A d \in Delivery : item[d] \in {d, NoDelivery} /\ step[d] # "choosing"
    /\ \A p \in Pass : \A e, f \in pending[p] :
          e.id # item[p] /\ (e.id = f.id => e = f)

\* Each actor tries a delivery once.
TriesLeft == \A d \in Delivery : tried[d] + Cardinality(Untried(d)) <= MaxTried

\* Nothing has been done about a delivery before it is enqueued.
Blank(d) ==
    step[d] = "new" =>
        /\ file[d] = NoFile /\ d \notin marker \cup failed
        /\ sent[d] = 0 /\ tried[d] = 0 /\ late[d] = 0
        /\ \A a \in Actor : item[a] # d
        /\ \A p \in Pass : ~Waits(p, d)

\* Every count, written, noted or loaded, is backed by failures, and those that
\* are still to be counted are others.
Backed(d) ==
    /\ file[d] # NoFile => file[d] + Cardinality(Failing(d)) <= tried[d]
    /\ \A a \in Actor : item[a] = d /\ step[a] = "rewriting" =>
          noted[a] + Cardinality(Failing(d)) <= tried[d]
    /\ \A p \in Pass : \A e \in pending[p] : e.id = d => e.count <= tried[d]

\* What is being acknowledged was sent, or was not to be; what is being given up
\* was refused, or has failed often enough.
EndsDue(d) ==
    \A a \in Actor : item[a] = d =>
        /\ step[a] \in {"acking", "unlinking"} => sent[d] > 0 \/ d \in BestEffort \cup excused
        /\ step[a] = "moving" => d \in excused \/ tried[d] >= MaxRetries

\* What the properties say of a delivery.
NotLost(d) ==
    d \notin BestEffort \cup excused /\ step[d] # "new"
        => sent[d] > 0 \/ file[d] # NoFile \/ d \in failed

FailedDue(d) == d \in failed => d \in excused \/ tried[d] >= MaxRetries

\* One actor at most has the delivery in hand.
Alone(d) ==
    /\ \A a, b \in Actor : item[a] = d /\ item[b] = d => a = b
    /\ \A p, q \in Pass : Waits(p, d) /\ Waits(q, d) => p = q
    /\ \A a \in Actor, p \in Pass : ~(item[a] = d /\ Waits(p, d))

\* The file is there for who has it in hand, with the count that was loaded, and
\* when it is there, nothing else is.
FileThere(d) ==
    /\ \A a \in Actor : item[a] = d => (file[d] = NoFile <=> step[a] = "unlinking")
    /\ \A p \in Pass : \A e \in pending[p] : e.id = d => e.count = file[d]
    /\ file[d] # NoFile => d \notin marker \cup failed
    /\ d \notin marker \cap failed

\* The count is that of the failures, but for the one that is being counted.
CountTrue(d) ==
    /\ file[d] # NoFile =>
          \/ file[d] = tried[d]
          \/ \E a \in Actor : item[a] = d /\ step[a] \in {"failing", "rewriting"}
    /\ \A a \in Actor : item[a] = d =>
          /\ step[a] \in {"failing", "rewriting"} => file[d] + 1 = tried[d]
          /\ step[a] = "rewriting" => noted[a] = file[d] + 1
          /\ step[a] = "sending" => tried[d] < MaxRetries
    /\ tried[d] <= MaxRetries

\* Each send but one was taken for a failure, and what was sent by that one is only
\* acknowledged.
SendsPaid(d) ==
    /\ late[d] <= sent[d] /\ sent[d] <= late[d] + 1
    /\ sent[d] > late[d] =>
          /\ \A a \in Actor : item[a] = d => step[a] \in {"acking", "unlinking"}
          /\ \A p \in Pass : ~Waits(p, d)
          /\ file[d] # NoFile => \E a \in Actor : item[a] = d

Sound(d) ==
    /\ Blank(d) /\ Backed(d) /\ EndsDue(d) /\ NotLost(d) /\ FailedDue(d)
    /\ d \notin disturbed => Alone(d) /\ FileThere(d) /\ CountTrue(d) /\ SendsPaid(d)

DeliveryInv ==
    /\ DeliveryTypeOK
    /\ ItemsShaped
    /\ TriesLeft
    /\ \A d \in Delivery : Sound(d)

-----------------------------------------------------------------------------
(* Counting.                                                               *)

LEMMA ActorFinite == IsFiniteSet(Actor) /\ MaxTried \in Nat /\ MaxTried >= 1
<1>1. IsFiniteSet(Delivery) /\ IsFiniteSet(Pass)
      BY DeliveryAssumption
<1>2. IsFiniteSet(Actor)
      BY <1>1, FS_Union DEF Actor
<1>3. Cardinality(Pass) \in Nat
      BY <1>1, FS_CardinalityType
<1> QED BY <1>2, <1>3 DEF MaxTried

LEMMA ActorsCounted ==
    ASSUME NEW S \in SUBSET Actor, NEW a
    PROVE  /\ Cardinality(S) \in Nat
           /\ a \in Actor \ S => Cardinality(S \cup {a}) = Cardinality(S) + 1
           /\ a \in S => Cardinality(S \ {a}) = Cardinality(S) - 1 /\ Cardinality(S) >= 1
           /\ \A T \in SUBSET S : Cardinality(T) <= Cardinality(S)
<1>1. IsFiniteSet(S)
      BY ActorFinite, FS_Subset
<1>2. Cardinality(S) \in Nat /\ Cardinality(S \ {a}) \in Nat
      BY <1>1, FS_CardinalityType, FS_RemoveElement
<1>3. Cardinality(S \cup {a}) = IF a \in S THEN Cardinality(S) ELSE Cardinality(S) + 1
      BY <1>1, FS_AddElement
<1>4. Cardinality(S \ {a}) = IF a \in S THEN Cardinality(S) - 1 ELSE Cardinality(S)
      BY <1>1, FS_RemoveElement
<1>5. \A T \in SUBSET S : Cardinality(T) <= Cardinality(S)
      BY <1>1, FS_Subset
<1> QED BY <1>2, <1>3, <1>4, <1>5

LEMMA FailingCount == \A d : Failing(d) \in SUBSET Actor /\ Cardinality(Failing(d)) \in Nat
<1>1. \A d : Failing(d) \in SUBSET Actor
      BY DEF Failing
<1> QED BY <1>1, ActorsCounted

LEMMA UntriedCount ==
    \A d \in Delivery : Untried(d) \in SUBSET Actor /\ Cardinality(Untried(d)) \in Nat
<1>1. \A d \in Delivery : Untried(d) \in SUBSET Actor
      BY DEF Untried, Actor
<1> QED BY <1>1, ActorsCounted

\* Where nothing was tried and nobody is new to it, the tries left do.
LEMMA TriesStay ==
    ASSUME DeliveryInv, tried' = tried, \A d \in Delivery : Untried(d)' \subseteq Untried(d)
    PROVE  TriesLeft'
<1> SUFFICES ASSUME NEW d \in Delivery
             PROVE  tried[d] + Cardinality(Untried(d)') <= MaxTried
    BY DEF TriesLeft
<1>1. /\ Cardinality(Untried(d)') <= Cardinality(Untried(d))
      /\ Cardinality(Untried(d)') \in Nat /\ Cardinality(Untried(d)) \in Nat
      <2>1. Untried(d) \in SUBSET Actor /\ Untried(d)' \in SUBSET Actor
            BY UntriedCount
      <2> QED BY <2>1, ActorsCounted
<1>2. tried[d] \in Nat /\ tried[d] + Cardinality(Untried(d)) <= MaxTried
      BY DEF DeliveryInv, DeliveryTypeOK, TriesLeft
<1> QED BY <1>1, <1>2, ActorFinite

\* The counts of a delivery are within the bound.
LEMMA CountsBounded ==
    ASSUME DeliveryInv
    PROVE  /\ \A d \in Delivery : tried[d] \in Nat /\ tried[d] <= MaxTried
           /\ \A d \in Delivery : file[d] # NoFile => file[d] \in Nat /\ file[d] <= tried[d]
<1>1. \A d \in Delivery : tried[d] \in Nat /\ tried[d] <= MaxTried
      BY ActorFinite DEF DeliveryInv, DeliveryTypeOK
<1>2. \A d \in Delivery : file[d] # NoFile => file[d] \in Nat
      BY ActorFinite DEF DeliveryInv, DeliveryTypeOK
<1>3. \A d \in Delivery : file[d] # NoFile => file[d] <= tried[d]
      BY <1>1, <1>2, FailingCount DEF DeliveryInv, Sound, Backed
<1> QED BY <1>1, <1>2, <1>3

-----------------------------------------------------------------------------
(* What an actor that has a delivery in hand leaves alone.                 *)

\* It goes on with it, not to send it, and to acknowledge it only after that, or it
\* leaves it.
Moves(a) ==
    /\ step[a] \in Working
    /\ pending' = pending
    /\ disturbed \subseteq disturbed' /\ disturbed' \subseteq disturbed \cup {item[a]}
    /\ \/ \E next \in Working \ {"sending"} :
             Continue(a, next) /\ (next = "acking" => step[a] = "sending")
       \/ Leave(a)

LEMMA MovesShape ==
    ASSUME DeliveryInv, NEW a \in Actor, Moves(a)
    PROVE  /\ item[a] \in Delivery /\ item'[a] \in {item[a], NoDelivery}
           /\ step'[a] \notin {"new", "sending"}
           /\ step'[a] = "acking" => step[a] = "sending"
           /\ step' \in [Actor -> {"new", "choosing", "done"} \cup Working]
           /\ item' \in [Actor -> Delivery \cup {NoDelivery}]
           /\ \A b \in Actor : step'[b] \in Working <=> item'[b] # NoDelivery
           /\ \A b \in Actor \ {a} : step'[b] = step[b] /\ item'[b] = item[b]
           /\ step'[a] \in Working <=> item'[a] = item[a]
<1>1. /\ item \in [Actor -> Delivery \cup {NoDelivery}]
      /\ step \in [Actor -> {"new", "choosing", "done"} \cup Working]
      /\ \A b \in Actor : step[b] \in Working <=> item[b] # NoDelivery
      BY DEF DeliveryInv, DeliveryTypeOK
<1>2. item[a] \in Delivery /\ NoDelivery \notin Delivery
      BY <1>1, DeliveryAssumption DEF Moves
<1>3. CASE Leave(a)
      <2>1. /\ step' = [step EXCEPT ![a] = IF a \in Pass THEN "choosing" ELSE "done"]
            /\ item' = [item EXCEPT ![a] = NoDelivery]
            BY <1>3 DEF Leave
      <2>2. "choosing" \notin Working /\ "done" \notin Working
            BY DEF Working
      <2> QED BY <1>1, <1>2, <2>1, <2>2
<1>4. ASSUME NEW next \in Working \ {"sending"}, Continue(a, next)
      PROVE  /\ item' = item /\ step' = [step EXCEPT ![a] = next] /\ next # "new"
      BY <1>4 DEF Continue, Working
<1> QED BY <1>1, <1>2, <1>3, <1>4 DEF Moves

\* So whoever was new is new, nobody has more in hand, and nobody is new to it.
LEMMA MovesKeep ==
    ASSUME DeliveryInv, NEW a \in Actor, Moves(a)
    PROVE  /\ \A d \in Delivery : step'[d] = "new" <=> step[d] = "new"
           /\ step[item[a]] # "new"
           /\ ItemsShaped'
           /\ \A d \in Delivery : Alone(d) => Alone(d)'
           /\ \A d \in Delivery : Untried(d)' \subseteq Untried(d)
           /\ \A d : Failing(d)' = IF d = item[a] /\ step'[a] = "failing"
                                   THEN Failing(d) \cup {a} ELSE Failing(d) \ {a}
<1>1. /\ item[a] \in Delivery /\ item'[a] \in {item[a], NoDelivery}
      /\ step'[a] \notin {"new", "sending"}
      /\ step'[a] = "acking" => step[a] = "sending"
      /\ \A b \in Actor \ {a} : step'[b] = step[b] /\ item'[b] = item[b]
      /\ step'[a] \in Working <=> item'[a] = item[a]
      BY MovesShape
<1>2. pending' = pending /\ step[a] \in Working
      BY DEF Moves
<1>3. step[a] \notin {"new", "choosing"} /\ "failing" \in Working
      BY <1>2 DEF Working
<1>4. NoDelivery \notin Delivery /\ Delivery \subseteq Actor /\ Pass \subseteq Actor
      BY DeliveryAssumption DEF Actor
<1>5. \A d \in Delivery : step'[d] = "new" <=> step[d] = "new"
      BY <1>1, <1>3, <1>4
<1>6. step[item[a]] # "new"
      BY <1>1 DEF DeliveryInv, Sound, Blank
<1>7. ItemsShaped'
      <2>1. \A d \in Delivery : item'[d] \in {d, NoDelivery} /\ step'[d] # "choosing"
            <3>1. a \in Delivery => step'[a] # "choosing"
                  <4>1. a \in Delivery => a \notin Pass
                        BY DeliveryAssumption
                  <4>2. CASE Leave(a)
                        BY <4>1, <4>2 DEF Leave, DeliveryInv, DeliveryTypeOK
                  <4>3. CASE \E next \in Working : Continue(a, next)
                        BY <4>3 DEF Continue, Working, DeliveryInv, DeliveryTypeOK
                  <4> QED BY <4>2, <4>3 DEF Moves
            <3> QED BY <1>1, <1>4, <3>1 DEF DeliveryInv, ItemsShaped
      <2>2. \A p \in Pass : \A e, f \in pending[p] :
                e.id # item'[p] /\ (e.id = f.id => e = f)
            <3>1. \A p \in Pass : \A e \in pending[p] : e.id \in Delivery
                  BY DEF DeliveryInv, DeliveryTypeOK
            <3> QED BY <1>1, <1>4, <3>1 DEF DeliveryInv, ItemsShaped
      <2> QED BY <1>2, <2>1, <2>2 DEF ItemsShaped
<1>8. \A d \in Delivery : Alone(d) => Alone(d)'
      BY <1>1, <1>2, <1>4 DEF Alone, Waits
<1>9. \A d \in Delivery : Untried(d)' \subseteq Untried(d)
      BY <1>1, <1>2, <1>4 DEF Untried, Waits
<1>10. \A d : Failing(d)' = IF d = item[a] /\ step'[a] = "failing"
                            THEN Failing(d) \cup {a} ELSE Failing(d) \ {a}
      BY <1>1, <1>3, <1>4 DEF Failing
<1> QED BY <1>5, <1>6, <1>7, <1>8, <1>9, <1>10

\* What is done with one delivery leaves the others as sound as they were.
LEMMA OthersSound ==
    ASSUME DeliveryInv, NEW a \in Actor, Moves(a), NEW d \in Delivery \ {item[a]},
           file'[d] = file[d], d \in marker' <=> d \in marker, d \in failed' <=> d \in failed,
           sent'[d] = sent[d], tried'[d] = tried[d], late'[d] = late[d],
           d \in excused' <=> d \in excused,
           \A b \in Actor \ {a} : noted'[b] = noted[b]
    PROVE  Sound(d)'
<1>1. /\ item[a] \in Delivery /\ item'[a] \in {item[a], NoDelivery}
      /\ \A b \in Actor \ {a} : step'[b] = step[b] /\ item'[b] = item[b]
      BY MovesShape
<1>2. /\ step'[d] = "new" <=> step[d] = "new"
      /\ Failing(d)' = Failing(d) \ {a}
      /\ Alone(d) => Alone(d)'
      BY MovesKeep
<1>3. pending' = pending /\ (d \notin disturbed' => d \notin disturbed)
      BY DEF Moves
<1>4. Failing(d)' = Failing(d)
      BY <1>2 DEF Failing
<1>5. /\ \A b \in Actor : item'[b] = d => b # a /\ item[b] = d
      /\ \A b \in Actor : item[b] = d => b # a /\ item'[b] = d
      BY <1>1, DeliveryAssumption
<1>6. Blank(d) /\ Backed(d) /\ EndsDue(d) /\ NotLost(d) /\ FailedDue(d)
      BY DEF DeliveryInv, Sound
<1>7. Blank(d)'
      BY <1>2, <1>3, <1>5, <1>6 DEF Blank, Waits
<1>8. Backed(d)'
      BY <1>1, <1>3, <1>4, <1>5, <1>6 DEF Backed
<1>9. EndsDue(d)' /\ NotLost(d)' /\ FailedDue(d)'
      BY <1>1, <1>2, <1>5, <1>6 DEF EndsDue, NotLost, FailedDue
<1>10. ASSUME d \notin disturbed
       PROVE  Alone(d)' /\ FileThere(d)' /\ CountTrue(d)' /\ SendsPaid(d)'
      <2>1. Alone(d) /\ FileThere(d) /\ CountTrue(d) /\ SendsPaid(d)
            BY <1>10 DEF DeliveryInv, Sound
      <2>2. FileThere(d)'
            BY <1>1, <1>3, <1>5, <2>1 DEF FileThere
      <2>3. CountTrue(d)'
            BY <1>1, <1>5, <2>1 DEF CountTrue
      <2>4. SendsPaid(d)'
            BY <1>1, <1>3, <1>5, <2>1 DEF SendsPaid, Waits
      <2> QED BY <1>2, <2>1, <2>2, <2>3, <2>4
<1> QED BY <1>3, <1>7, <1>8, <1>9, <1>10 DEF Sound

\* A step with one delivery keeps the invariant if it keeps that delivery sound.
LEMMA HolderStep ==
    ASSUME DeliveryInv, NEW a \in Actor, NEW d \in Delivery, item[a] = d, Moves(a),
           file' \in [Delivery -> {NoFile} \cup 0 .. MaxTried],
           marker' \subseteq Delivery, failed' \subseteq Delivery,
           noted' \in [Actor -> 0 .. MaxTried],
           sent' \in [Delivery -> Nat], late' \in [Delivery -> Nat],
           tried' \in [Delivery -> 0 .. MaxTried], excused' \subseteq Delivery,
           faults' = faults \/ CallFails,
           \A e \in Delivery \ {d} :
               /\ file'[e] = file[e] /\ sent'[e] = sent[e] /\ tried'[e] = tried[e]
               /\ late'[e] = late[e]
               /\ e \in marker' <=> e \in marker
               /\ e \in failed' <=> e \in failed
               /\ e \in excused' <=> e \in excused,
           \A b \in Actor \ {a} : noted'[b] = noted[b],
           TriesLeft', Sound(d)'
    PROVE  DeliveryInv'
<1>1. /\ step' \in [Actor -> {"new", "choosing", "done"} \cup Working]
      /\ item' \in [Actor -> Delivery \cup {NoDelivery}]
      /\ \A b \in Actor : step'[b] \in Working <=> item'[b] # NoDelivery
      BY MovesShape
<1>2. pending' = pending /\ disturbed' \subseteq Delivery
      BY DEF Moves, DeliveryInv, DeliveryTypeOK
<1>3. DeliveryTypeOK'
      <2>1. faults' \in 0 .. MaxFaults
            BY DeliveryAssumption DEF CallFails, DeliveryInv, DeliveryTypeOK
      <2> QED BY <1>1, <1>2, <2>1 DEF DeliveryInv, DeliveryTypeOK
<1>4. \A e \in Delivery \ {d} : Sound(e)'
      BY OthersSound
<1>5. ItemsShaped'
      BY MovesKeep
<1> QED BY <1>3, <1>4, <1>5 DEF DeliveryInv

\* What is known of the delivery in hand before the step, and of who has it after.
LEMMA InHand ==
    ASSUME DeliveryInv, NEW a \in Actor, NEW d \in Delivery, item[a] = d, Moves(a)
    PROVE  /\ Backed(d) /\ EndsDue(d) /\ NotLost(d) /\ FailedDue(d)
           /\ step[d] # "new" /\ step'[d] # "new"
           /\ pending' = pending /\ (d \notin disturbed' => d \notin disturbed)
           /\ item'[a] \in {d, NoDelivery} /\ NoDelivery # d
           /\ \A b \in Actor \ {a} : step'[b] = step[b] /\ item'[b] = item[b]
           /\ d \notin disturbed =>
                 /\ Alone(d)' /\ FileThere(d) /\ CountTrue(d) /\ SendsPaid(d)
                 /\ \A b \in Actor : item[b] = d => b = a
                 /\ \A b \in Actor : item'[b] = d => b = a
                 /\ \A p \in Pass : ~Waits(p, d) /\ ~Waits(p, d)'
<1>1. /\ item'[a] \in {item[a], NoDelivery}
      /\ \A b \in Actor \ {a} : step'[b] = step[b] /\ item'[b] = item[b]
      BY MovesShape
<1>2. /\ \A e \in Delivery : step'[e] = "new" <=> step[e] = "new"
      /\ step[d] # "new"
      /\ \A e \in Delivery : Alone(e) => Alone(e)'
      BY MovesKeep
<1>3. pending' = pending /\ (d \notin disturbed' => d \notin disturbed)
      BY DEF Moves
<1>4. Sound(d) /\ NoDelivery # d
      BY DeliveryAssumption DEF DeliveryInv
<1>5. ASSUME d \notin disturbed
      PROVE  /\ Alone(d) /\ Alone(d)'
             /\ \A b \in Actor : item[b] = d => b = a
             /\ \A b \in Actor : item'[b] = d => b = a
             /\ \A p \in Pass : ~Waits(p, d) /\ ~Waits(p, d)'
      <2>1. Alone(d) /\ Alone(d)'
            BY <1>2, <1>4, <1>5 DEF Sound
      <2> QED BY <1>1, <1>3, <2>1 DEF Alone, Waits
<1> QED BY <1>1, <1>2, <1>3, <1>4, <1>5 DEF Sound

LEMMA SendStep ==
    ASSUME DeliveryInv, NEW a \in Actor, NEW d \in Delivery, item[a] = d, Send(a)
    PROVE  DeliveryInv'
<1>1. /\ step[a] = "sending" /\ Continue(a, "acking")
      /\ sent' = [sent EXCEPT ![d] = sent[d] + 1]
      /\ file' = file /\ marker' = marker /\ failed' = failed /\ noted' = noted
      /\ pending' = pending /\ tried' = tried /\ excused' = excused /\ disturbed' = disturbed
      /\ late' = late /\ faults' = faults
      BY DEF Send
<1>2. Moves(a)
      BY <1>1 DEF Moves, Working
<1>3. step'[a] = "acking" /\ item' = item
      BY <1>1 DEF Continue, DeliveryInv, DeliveryTypeOK
<1>4. /\ \A e \in Delivery : Untried(e)' \subseteq Untried(e)
      /\ Failing(d)' = Failing(d)
      BY <1>1, <1>2, <1>3, MovesKeep DEF Failing
<1>5. /\ sent[d] \in Nat /\ late[d] \in Nat
      /\ sent'[d] = sent[d] + 1 /\ \A e \in Delivery \ {d} : sent'[e] = sent[e]
      /\ sent' \in [Delivery -> Nat]
      BY <1>1 DEF DeliveryInv, DeliveryTypeOK
<1>6. TriesLeft'
      BY <1>1, <1>4, TriesStay
<1>7. Blank(d)' /\ NotLost(d)' /\ Backed(d)' /\ EndsDue(d)' /\ FailedDue(d)'
      BY <1>1, <1>2, <1>3, <1>4, <1>5, InHand DEF Blank, NotLost, Backed, EndsDue, FailedDue
<1>8. ASSUME d \notin disturbed
      PROVE  FileThere(d)' /\ CountTrue(d)' /\ SendsPaid(d)'
      <2>1. FileThere(d)' /\ CountTrue(d)'
            BY <1>1, <1>2, <1>3, <1>8, InHand DEF FileThere, CountTrue
      <2>2. sent[d] = late[d]
            BY <1>1, <1>2, <1>5, <1>8, InHand DEF SendsPaid
      <2>3. SendsPaid(d)'
            BY <1>1, <1>2, <1>3, <1>5, <1>8, <2>2, InHand DEF SendsPaid
      <2> QED BY <2>1, <2>3
<1>9. Sound(d)'
      BY <1>1, <1>2, <1>7, <1>8, InHand DEF Sound
<1> QED BY <1>1, <1>2, <1>5, <1>6, <1>9, HolderStep DEF DeliveryInv, DeliveryTypeOK

\* Where something is taken for a failure to send, a try less is left, and a failure
\* more is to be counted in the file.
LEMMA FailureCounted ==
    ASSUME DeliveryInv, NEW a \in Actor, NEW d \in Delivery, item[a] = d, Moves(a),
           step[a] = "sending" \/ (step[a] = "acking" /\ a \in Pass), Continue(a, "failing"),
           tried' = [tried EXCEPT ![d] = tried[d] + 1], file' = file, noted' = noted
    PROVE  /\ TriesLeft' /\ Backed(d)'
           /\ step'[a] = "failing" /\ item' = item
           /\ tried' \in [Delivery -> 0 .. MaxTried]
           /\ tried[d] \in Nat /\ tried'[d] = tried[d] + 1
           /\ \A e \in Delivery \ {d} : tried'[e] = tried[e]
<1>1. step'[a] = "failing" /\ item' = item /\ pending' = pending
      BY DEF Continue, Moves, DeliveryInv, DeliveryTypeOK
<1>2. /\ tried[d] \in Nat /\ tried'[d] = tried[d] + 1
      /\ \A e \in Delivery \ {d} : tried'[e] = tried[e]
      BY CountsBounded DEF DeliveryInv, DeliveryTypeOK
<1>3. \A e \in Delivery : Untried(e)' \subseteq Untried(e)
      BY MovesKeep
<1>4. a \in Untried(d) /\ a \notin Untried(d)'
      <2>1. a \in {d} \cup Pass
            BY DeliveryAssumption DEF DeliveryInv, ItemsShaped, Actor
      <2>2. ~Waits(a, d)' \/ a \notin Pass
            BY <1>1, DeliveryAssumption DEF Waits, DeliveryInv, ItemsShaped
      <2> QED BY <1>1, <2>1, <2>2 DEF Untried
<1>5. /\ Cardinality(Untried(d)') <= Cardinality(Untried(d)) - 1
      /\ Cardinality(Untried(d)') \in Nat /\ Cardinality(Untried(d)) \in Nat
      <2>1. Untried(d) \in SUBSET Actor /\ Untried(d)' \in SUBSET (Untried(d) \ {a})
            BY <1>3, <1>4, UntriedCount
      <2>2. Cardinality(Untried(d) \ {a}) = Cardinality(Untried(d)) - 1
            BY <1>4, <2>1, ActorsCounted
      <2>3. Untried(d) \ {a} \in SUBSET Actor
            BY <2>1
      <2>4. Cardinality(Untried(d)') <= Cardinality(Untried(d) \ {a})
            BY <2>1, <2>3, ActorsCounted
      <2>5. Cardinality(Untried(d)') \in Nat /\ Cardinality(Untried(d)) \in Nat
            BY <2>1, ActorsCounted
      <2> QED BY <2>2, <2>4, <2>5
<1>6. TriesLeft'
      <2> SUFFICES ASSUME NEW e \in Delivery
                   PROVE  tried'[e] + Cardinality(Untried(e)') <= MaxTried
          BY DEF TriesLeft
      <2>1. tried[e] \in Nat /\ tried[e] + Cardinality(Untried(e)) <= MaxTried
            BY CountsBounded DEF DeliveryInv, TriesLeft
      <2>2. CASE e = d
            BY <1>2, <1>5, <2>1, <2>2, ActorFinite
      <2>3. CASE e # d
            <3>1. /\ Cardinality(Untried(e)') <= Cardinality(Untried(e))
                  /\ Cardinality(Untried(e)') \in Nat /\ Cardinality(Untried(e)) \in Nat
                  <4>1. Untried(e) \in SUBSET Actor /\ Untried(e)' \in SUBSET Untried(e)
                        BY <1>3, UntriedCount
                  <4> QED BY <4>1, ActorsCounted
            <3> QED BY <1>2, <2>1, <2>3, <3>1, ActorFinite
      <2> QED BY <2>2, <2>3
<1>7. tried' \in [Delivery -> 0 .. MaxTried]
      <2>1. tried[d] + 1 <= MaxTried
            BY <1>2, <1>5, ActorFinite DEF DeliveryInv, TriesLeft
      <2> QED BY <1>2, <2>1, ActorFinite DEF DeliveryInv, DeliveryTypeOK
<1>8. /\ Cardinality(Failing(d)') = Cardinality(Failing(d)) + 1
      /\ Cardinality(Failing(d)) \in Nat
      <2>1. Failing(d)' = Failing(d) \cup {a} /\ a \notin Failing(d)
            BY <1>1, MovesKeep DEF Failing
      <2> QED BY <2>1, FailingCount, ActorsCounted
<1>9. Backed(d)'
      <2>1. file[d] # NoFile => file[d] \in Nat
            BY CountsBounded
      <2>2. /\ \A b \in Actor : noted[b] \in Nat
            /\ \A p \in Pass : \A e \in pending[p] : e.count \in Nat
            BY ActorFinite DEF DeliveryInv, DeliveryTypeOK
      <2>3. Backed(d)
            BY InHand
      <2>4. file'[d] # NoFile => file'[d] + Cardinality(Failing(d)') <= tried'[d]
            BY <1>2, <1>8, <2>1, <2>3 DEF Backed
      <2>5. \A b \in Actor : item'[b] = d /\ step'[b] = "rewriting" =>
                noted'[b] + Cardinality(Failing(d)') <= tried'[d]
            <3> SUFFICES ASSUME NEW b \in Actor, item'[b] = d, step'[b] = "rewriting"
                         PROVE  noted[b] + Cardinality(Failing(d)') <= tried'[d]
                OBVIOUS
            <3>1. step[b] = "rewriting" /\ item[b] = d
                  BY <1>1, InHand
            <3>2. noted[b] + Cardinality(Failing(d)) <= tried[d]
                  BY <2>3, <3>1 DEF Backed
            <3> QED BY <1>2, <1>8, <2>2, <3>2
      <2>6. \A p \in Pass : \A e \in pending'[p] : e.id = d => e.count <= tried'[d]
            BY <1>1, <1>2, <2>2, <2>3 DEF Backed
      <2> QED BY <2>4, <2>5, <2>6 DEF Backed
<1> QED BY <1>1, <1>2, <1>6, <1>7, <1>9

\* Before a send the file has the count of the failures, and behind one that has
\* failed all that were sent were late.
LEMMA FailingSound ==
    ASSUME DeliveryInv, NEW a \in Actor, NEW d \in Delivery, item[a] = d, Moves(a),
           step[a] = "sending", step'[a] = "failing", item' = item,
           file' = file, marker' = marker, failed' = failed, noted' = noted,
           tried'[d] = tried[d] + 1, d \notin disturbed
    PROVE  FileThere(d)' /\ CountTrue(d)' /\ sent[d] = late[d]
<1>1. file[d] # NoFile /\ file[d] = tried[d] /\ tried[d] < MaxRetries /\ tried[d] \in Nat
      BY InHand, CountsBounded DEF FileThere, CountTrue
<1>2. FileThere(d)'
      BY InHand DEF FileThere
<1>3. CountTrue(d)'
      BY <1>1, InHand, DeliveryAssumption DEF CountTrue
<1>4. sent[d] = late[d]
      <2>1. sent[d] \in Nat /\ late[d] \in Nat
            BY DEF DeliveryInv, DeliveryTypeOK
      <2> QED BY <2>1, InHand DEF SendsPaid
<1> QED BY <1>2, <1>3, <1>4

LEMMA MirrorFailsStep ==
    ASSUME DeliveryInv, NEW a \in Actor, NEW d \in Delivery, item[a] = d, MirrorFails(a)
    PROVE  DeliveryInv'
<1>1. /\ step[a] = "sending" /\ Continue(a, "failing")
      /\ sent' = [sent EXCEPT ![d] = sent[d] + 1]
      /\ late' = [late EXCEPT ![d] = late[d] + 1]
      /\ tried' = [tried EXCEPT ![d] = tried[d] + 1]
      /\ file' = file /\ marker' = marker /\ failed' = failed /\ noted' = noted
      /\ pending' = pending /\ excused' = excused /\ disturbed' = disturbed /\ faults' = faults
      BY DEF MirrorFails
<1>2. Moves(a)
      BY <1>1 DEF Moves, Working
<1>3. /\ TriesLeft' /\ Backed(d)' /\ step'[a] = "failing" /\ item' = item
      /\ tried' \in [Delivery -> 0 .. MaxTried]
      /\ tried[d] \in Nat /\ tried'[d] = tried[d] + 1
      /\ \A e \in Delivery \ {d} : tried'[e] = tried[e]
      BY <1>1, <1>2, FailureCounted
<1>4. /\ sent[d] \in Nat /\ late[d] \in Nat
      /\ sent'[d] = sent[d] + 1 /\ late'[d] = late[d] + 1
      /\ \A e \in Delivery \ {d} : sent'[e] = sent[e] /\ late'[e] = late[e]
      /\ sent' \in [Delivery -> Nat] /\ late' \in [Delivery -> Nat]
      BY <1>1 DEF DeliveryInv, DeliveryTypeOK
<1>5. Blank(d)' /\ NotLost(d)' /\ EndsDue(d)' /\ FailedDue(d)'
      BY <1>1, <1>2, <1>3, <1>4, InHand, DeliveryAssumption
      DEF Blank, NotLost, EndsDue, FailedDue
<1>6. ASSUME d \notin disturbed
      PROVE  FileThere(d)' /\ CountTrue(d)' /\ SendsPaid(d)'
      <2>1. FileThere(d)' /\ CountTrue(d)' /\ sent[d] = late[d]
            BY <1>1, <1>2, <1>3, <1>6, FailingSound
      <2> QED BY <1>4, <2>1 DEF SendsPaid
<1>7. Sound(d)'
      BY <1>1, <1>2, <1>3, <1>5, <1>6, InHand DEF Sound
<1> QED BY <1>1, <1>2, <1>3, <1>4, <1>7, HolderStep DEF DeliveryInv, DeliveryTypeOK

LEMMA SendFailsStep ==
    ASSUME DeliveryInv, NEW a \in Actor, NEW d \in Delivery, item[a] = d, SendFails(a)
    PROVE  DeliveryInv'
<1>1. /\ step[a] = "sending"
      /\ file' = file /\ marker' = marker /\ failed' = failed /\ noted' = noted
      /\ pending' = pending /\ sent' = sent /\ late' = late /\ excused' = excused
      /\ disturbed' = disturbed /\ faults' = faults
      BY DEF SendFails
<1>2. Moves(a)
      BY <1>1 DEF SendFails, Moves, Working
<1>3. CASE d \in BestEffort /\ Continue(a, "acking") /\ tried' = tried
      <2>1. step'[a] = "acking" /\ item' = item
            BY <1>3 DEF Continue, DeliveryInv, DeliveryTypeOK
      <2>2. /\ Failing(d)' = Failing(d)
            /\ \A e \in Delivery : Untried(e)' \subseteq Untried(e)
            BY <1>1, <1>2, <2>1, MovesKeep DEF Failing
      <2>3. TriesLeft'
            BY <1>3, <2>2, TriesStay
      <2>4. Blank(d)' /\ NotLost(d)' /\ Backed(d)' /\ EndsDue(d)' /\ FailedDue(d)'
            BY <1>1, <1>2, <1>3, <2>1, <2>2, InHand
            DEF Blank, NotLost, Backed, EndsDue, FailedDue
      <2>5. ASSUME d \notin disturbed
            PROVE  FileThere(d)' /\ CountTrue(d)' /\ SendsPaid(d)'
            BY <1>1, <1>2, <1>3, <2>1, <2>5, InHand DEF FileThere, CountTrue, SendsPaid
      <2>6. Sound(d)'
            BY <1>1, <1>2, <2>4, <2>5, InHand DEF Sound
      <2> QED BY <1>1, <1>2, <1>3, <2>3, <2>6, HolderStep DEF DeliveryInv, DeliveryTypeOK
<1>4. CASE Continue(a, "failing") /\ tried' = [tried EXCEPT ![d] = tried[d] + 1]
      <2>1. /\ TriesLeft' /\ Backed(d)' /\ step'[a] = "failing" /\ item' = item
            /\ tried' \in [Delivery -> 0 .. MaxTried]
            /\ tried[d] \in Nat /\ tried'[d] = tried[d] + 1
            /\ \A e \in Delivery \ {d} : tried'[e] = tried[e]
            BY <1>1, <1>2, <1>4, FailureCounted
      <2>2. Blank(d)' /\ NotLost(d)' /\ EndsDue(d)' /\ FailedDue(d)'
            BY <1>1, <1>2, <2>1, InHand, DeliveryAssumption
            DEF Blank, NotLost, EndsDue, FailedDue
      <2>3. ASSUME d \notin disturbed
            PROVE  FileThere(d)' /\ CountTrue(d)' /\ SendsPaid(d)'
            <3>1. FileThere(d)' /\ CountTrue(d)' /\ sent[d] = late[d]
                  BY <1>1, <1>2, <2>1, <2>3, FailingSound
            <3>2. sent[d] \in Nat /\ late[d] \in Nat
                  BY DEF DeliveryInv, DeliveryTypeOK
            <3> QED BY <1>1, <3>1, <3>2 DEF SendsPaid
      <2>4. Sound(d)'
            BY <1>1, <1>2, <2>1, <2>2, <2>3, InHand DEF Sound
      <2> QED BY <1>1, <1>2, <2>1, <2>4, HolderStep DEF DeliveryInv, DeliveryTypeOK
<1> QED BY <1>3, <1>4 DEF SendFails

LEMMA SendEndsStep ==
    ASSUME DeliveryInv, NEW a \in Actor, NEW d \in Delivery, item[a] = d, SendEnds(a)
    PROVE  DeliveryInv'
<1>1. /\ step[a] = "sending" /\ excused' = excused \cup {d}
      /\ file' = file /\ marker' = marker /\ failed' = failed /\ noted' = noted
      /\ pending' = pending /\ sent' = sent /\ late' = late /\ tried' = tried
      /\ disturbed' = disturbed
      /\ faults' = faults
      BY DEF SendEnds
<1>2. Moves(a)
      BY <1>1 DEF SendEnds, Moves, Working
<1>3. step'[a] \in {"acking", "moving"} /\ item' = item
      BY DEF SendEnds, Continue, DeliveryInv, DeliveryTypeOK
<1>4. /\ \A e \in Delivery : Untried(e)' \subseteq Untried(e)
      /\ Failing(d)' = Failing(d)
      BY <1>1, <1>2, <1>3, MovesKeep DEF Failing
<1>5. TriesLeft'
      BY <1>1, <1>4, TriesStay
<1>6. Blank(d)' /\ NotLost(d)' /\ Backed(d)' /\ EndsDue(d)' /\ FailedDue(d)'
      BY <1>1, <1>2, <1>3, <1>4, InHand DEF Blank, NotLost, Backed, EndsDue, FailedDue
<1>7. ASSUME d \notin disturbed
      PROVE  FileThere(d)' /\ CountTrue(d)' /\ SendsPaid(d)'
      BY <1>1, <1>2, <1>3, <1>7, InHand DEF FileThere, CountTrue, SendsPaid
<1>8. Sound(d)'
      BY <1>1, <1>2, <1>6, <1>7, InHand DEF Sound
<1> QED BY <1>1, <1>2, <1>5, <1>8, HolderStep DEF DeliveryInv, DeliveryTypeOK

\* An actor that leaves a delivery has it in hand no longer.
LEMMA LeftShape ==
    ASSUME DeliveryInv, NEW a \in Actor, Leave(a)
    PROVE  item'[a] = NoDelivery /\ step'[a] \in {"choosing", "done"}
BY DEF Leave, DeliveryInv, DeliveryTypeOK

LEMMA AckRenameStep ==
    ASSUME DeliveryInv, NEW a \in Actor, NEW d \in Delivery, item[a] = d, AckRename(a)
    PROVE  DeliveryInv'
<1>1. /\ step[a] = "acking"
      /\ failed' = failed /\ noted' = noted
      /\ sent' = sent /\ late' = late /\ tried' = tried
      /\ pending' = pending /\ excused' = excused /\ disturbed' = disturbed
      /\ faults' = faults
      BY DEF AckRename, sendVars
<1>2. Moves(a)
      BY <1>1 DEF AckRename, Moves, Working
<1>3. \A e \in Delivery : Untried(e)' \subseteq Untried(e)
      BY <1>2, MovesKeep
<1>4. TriesLeft'
      BY <1>1, <1>3, TriesStay
<1>5. sent[d] > 0 \/ d \in BestEffort \cup excused
      BY <1>1, <1>2, InHand DEF EndsDue
<1>6. CASE file[d] # NoFile
      <2>1. /\ file' = [file EXCEPT ![d] = NoFile] /\ marker' = marker \cup {d}
            /\ step'[a] = "unlinking" /\ item' = item
            BY <1>6 DEF AckRename, Continue, DeliveryInv, DeliveryTypeOK
      <2>2. /\ file'[d] = NoFile /\ \A e \in Delivery \ {d} : file'[e] = file[e]
            /\ file' \in [Delivery -> {NoFile} \cup 0 .. MaxTried]
            BY <2>1 DEF DeliveryInv, DeliveryTypeOK
      <2>3. Failing(d)' = Failing(d)
            BY <1>1, <1>2, <2>1, MovesKeep DEF Failing
      <2>4. Blank(d)' /\ NotLost(d)' /\ Backed(d)' /\ EndsDue(d)' /\ FailedDue(d)'
            BY <1>1, <1>2, <1>5, <2>1, <2>2, <2>3, InHand
            DEF Blank, NotLost, Backed, EndsDue, FailedDue
      <2>5. ASSUME d \notin disturbed
            PROVE  FileThere(d)' /\ CountTrue(d)' /\ SendsPaid(d)'
            <3>1. FileThere(d)'
                  BY <1>1, <1>2, <1>6, <2>1, <2>2, <2>5, InHand DEF FileThere, Waits
            <3>2. CountTrue(d)' /\ SendsPaid(d)'
                  BY <1>1, <1>2, <2>1, <2>2, <2>5, InHand DEF CountTrue, SendsPaid
            <3> QED BY <3>1, <3>2
      <2>6. Sound(d)'
            BY <1>1, <1>2, <2>4, <2>5, InHand DEF Sound
      <2> QED BY <1>1, <1>2, <1>4, <2>1, <2>2, <2>6, HolderStep DEF DeliveryInv, DeliveryTypeOK
<1>7. CASE file[d] = NoFile
      <2>1. file' = file /\ marker' = marker \ {d} /\ Leave(a)
            BY <1>7 DEF AckRename
      <2>2. item'[a] = NoDelivery /\ step'[a] \in {"choosing", "done"}
            BY <2>1, LeftShape
      <2>3. Failing(d)' = Failing(d)
            BY <1>1, <1>2, <2>2, MovesKeep DEF Failing
      <2>4. Blank(d)' /\ NotLost(d)' /\ Backed(d)' /\ EndsDue(d)' /\ FailedDue(d)'
            BY <1>1, <1>2, <2>1, <2>2, <2>3, InHand
            DEF Blank, NotLost, Backed, EndsDue, FailedDue
      <2>5. d \in disturbed
            BY <1>1, <1>2, <1>7, InHand DEF FileThere
      <2>6. Sound(d)'
            BY <1>1, <2>4, <2>5 DEF Sound
      <2> QED BY <1>1, <1>2, <1>4, <2>1, <2>6, HolderStep DEF DeliveryInv, DeliveryTypeOK
<1> QED BY <1>6, <1>7

LEMMA AckFailsStep ==
    ASSUME DeliveryInv, NEW a \in Actor, NEW d \in Delivery, item[a] = d, AckFails(a)
    PROVE  DeliveryInv'
<1>1. /\ step[a] = "acking" /\ CallFails /\ disturbed' = disturbed \cup {d}
      /\ file' = file /\ marker' = marker /\ failed' = failed /\ noted' = noted
      /\ pending' = pending /\ sent' = sent /\ late' = late /\ excused' = excused
      BY DEF AckFails
<1>2. Moves(a)
      BY <1>1 DEF AckFails, Moves, Working
<1>3. CASE a \in Pass
      <2>1. Continue(a, "failing") /\ tried' = [tried EXCEPT ![d] = tried[d] + 1]
            BY <1>3 DEF AckFails
      <2>2. /\ TriesLeft' /\ Backed(d)' /\ step'[a] = "failing" /\ item' = item
            /\ tried' \in [Delivery -> 0 .. MaxTried]
            /\ tried[d] \in Nat /\ tried'[d] = tried[d] + 1
            /\ \A e \in Delivery \ {d} : tried'[e] = tried[e]
            BY <1>1, <1>2, <1>3, <2>1, FailureCounted
      <2>3. Blank(d)' /\ NotLost(d)' /\ EndsDue(d)' /\ FailedDue(d)'
            BY <1>1, <1>2, <2>2, InHand, DeliveryAssumption
            DEF Blank, NotLost, EndsDue, FailedDue
      <2>4. Sound(d)'
            BY <1>1, <2>2, <2>3 DEF Sound
      <2> QED BY <1>1, <1>2, <2>2, <2>4, HolderStep DEF DeliveryInv, DeliveryTypeOK
<1>4. CASE a \notin Pass
      <2>1. Leave(a) /\ tried' = tried
            BY <1>4 DEF AckFails
      <2>2. item'[a] = NoDelivery /\ step'[a] \in {"choosing", "done"}
            BY <2>1, LeftShape
      <2>3. /\ Failing(d)' = Failing(d)
            /\ \A e \in Delivery : Untried(e)' \subseteq Untried(e)
            BY <1>1, <1>2, <2>2, MovesKeep DEF Failing
      <2>4. TriesLeft'
            BY <2>1, <2>3, TriesStay
      <2>5. Blank(d)' /\ NotLost(d)' /\ Backed(d)' /\ EndsDue(d)' /\ FailedDue(d)'
            BY <1>1, <1>2, <2>1, <2>2, <2>3, InHand
            DEF Blank, NotLost, Backed, EndsDue, FailedDue
      <2>6. Sound(d)'
            BY <1>1, <2>5 DEF Sound
      <2> QED BY <1>1, <1>2, <2>1, <2>4, <2>6, HolderStep DEF DeliveryInv, DeliveryTypeOK
<1> QED BY <1>3, <1>4

LEMMA AckUnlinkStep ==
    ASSUME DeliveryInv, NEW a \in Actor, NEW d \in Delivery, item[a] = d, AckUnlink(a)
    PROVE  DeliveryInv'
<1>1. /\ step[a] = "unlinking" /\ marker' \in {marker, marker \ {d}} /\ Leave(a)
      /\ file' = file /\ failed' = failed /\ noted' = noted
      /\ sent' = sent /\ late' = late /\ tried' = tried
      /\ pending' = pending /\ excused' = excused /\ disturbed' = disturbed
      /\ faults' = faults \/ CallFails
      BY DEF AckUnlink, sendVars, CallSucceeds
<1>2. Moves(a)
      BY <1>1 DEF Moves, Working
<1>3. item'[a] = NoDelivery /\ step'[a] \in {"choosing", "done"}
      BY <1>1, LeftShape
<1>4. /\ \A e \in Delivery : Untried(e)' \subseteq Untried(e)
      /\ Failing(d)' = Failing(d)
      BY <1>1, <1>2, <1>3, MovesKeep DEF Failing
<1>5. TriesLeft'
      BY <1>1, <1>4, TriesStay
<1>6. Blank(d)' /\ NotLost(d)' /\ Backed(d)' /\ EndsDue(d)' /\ FailedDue(d)'
      BY <1>1, <1>2, <1>3, <1>4, InHand DEF Blank, NotLost, Backed, EndsDue, FailedDue
<1>7. ASSUME d \notin disturbed
      PROVE  FileThere(d)' /\ CountTrue(d)' /\ SendsPaid(d)'
      BY <1>1, <1>2, <1>3, <1>7, InHand DEF FileThere, CountTrue, SendsPaid, Waits
<1>8. Sound(d)'
      BY <1>1, <1>2, <1>6, <1>7, InHand DEF Sound
<1> QED BY <1>1, <1>2, <1>5, <1>8, HolderStep DEF DeliveryInv, DeliveryTypeOK

LEMMA FailReadStep ==
    ASSUME DeliveryInv, NEW a \in Actor, NEW d \in Delivery, item[a] = d, FailRead(a)
    PROVE  DeliveryInv'
<1>1. /\ step[a] = "failing"
      /\ file' = file /\ marker' = marker /\ failed' = failed
      /\ sent' = sent /\ late' = late /\ tried' = tried
      /\ pending' = pending /\ excused' = excused /\ disturbed' = disturbed
      /\ faults' = faults
      BY DEF FailRead, sendVars
<1>2. Moves(a)
      BY <1>1 DEF FailRead, Moves, Working
<1>3. \A e \in Delivery : Untried(e)' \subseteq Untried(e)
      BY <1>2, MovesKeep
<1>4. TriesLeft'
      BY <1>1, <1>3, TriesStay
<1>5. step'[a] \notin {"failing", "sending", "acking", "unlinking", "moving"}
      <2>1. CASE file[d] # NoFile
            BY <2>1 DEF FailRead, Continue, DeliveryInv, DeliveryTypeOK
      <2>2. CASE file[d] = NoFile
            BY <2>2, LeftShape DEF FailRead
      <2> QED BY <2>1, <2>2
<1>6. /\ Cardinality(Failing(d)') = Cardinality(Failing(d)) - 1
      /\ Cardinality(Failing(d)) >= 1 /\ Cardinality(Failing(d)) \in Nat
      <2>1. Failing(d)' = Failing(d) \ {a} /\ a \in Failing(d)
            BY <1>1, <1>2, <1>5, MovesKeep DEF Failing
      <2> QED BY <2>1, FailingCount, ActorsCounted
<1>7. Blank(d)' /\ NotLost(d)' /\ EndsDue(d)' /\ FailedDue(d)'
      BY <1>1, <1>2, <1>5, InHand DEF Blank, NotLost, EndsDue, FailedDue
<1>8. CASE file[d] # NoFile
      <2>1. /\ noted' = [noted EXCEPT ![a] = file[d] + 1]
            /\ step'[a] = "rewriting" /\ item' = item
            BY <1>8 DEF FailRead, Continue, DeliveryInv, DeliveryTypeOK
      <2>2. /\ file[d] \in Nat /\ tried[d] \in Nat /\ tried[d] <= MaxTried
            /\ file[d] + Cardinality(Failing(d)) <= tried[d]
            BY <1>2, <1>8, CountsBounded, InHand DEF Backed
      <2>3. file[d] + 1 \in 0 .. MaxTried
            BY <1>6, <2>2, ActorFinite
      <2>4. /\ noted' \in [Actor -> 0 .. MaxTried]
            /\ noted'[a] = file[d] + 1 /\ \A b \in Actor \ {a} : noted'[b] = noted[b]
            BY <2>1, <2>3 DEF DeliveryInv, DeliveryTypeOK
      <2>5. Backed(d)'
            <3>1. Backed(d)
                  BY <1>2, InHand
            <3>2. \A b \in Actor : noted[b] \in Nat
                  BY ActorFinite DEF DeliveryInv, DeliveryTypeOK
            <3>3. file'[d] # NoFile => file'[d] + Cardinality(Failing(d)') <= tried'[d]
                  BY <1>1, <1>6, <2>2
            <3>4. \A b \in Actor : item'[b] = d /\ step'[b] = "rewriting" =>
                      noted'[b] + Cardinality(Failing(d)') <= tried'[d]
                  <4> SUFFICES ASSUME NEW b \in Actor, item'[b] = d, step'[b] = "rewriting"
                               PROVE  noted'[b] + Cardinality(Failing(d)') <= tried[d]
                      BY <1>1
                  <4>1. CASE b = a
                        BY <1>6, <2>2, <2>4, <4>1
                  <4>2. CASE b # a
                        <5>1. step[b] = "rewriting" /\ item[b] = d /\ noted'[b] = noted[b]
                              BY <1>2, <2>1, <2>4, <4>2, InHand
                        <5>2. noted[b] + Cardinality(Failing(d)) <= tried[d]
                              BY <3>1, <5>1 DEF Backed
                        <5> QED BY <1>6, <2>2, <3>2, <5>1, <5>2
                  <4> QED BY <4>1, <4>2
            <3>5. \A p \in Pass : \A e \in pending'[p] : e.id = d => e.count <= tried'[d]
                  BY <1>1, <3>1 DEF Backed
            <3> QED BY <3>3, <3>4, <3>5 DEF Backed
      <2>6. ASSUME d \notin disturbed
            PROVE  FileThere(d)' /\ CountTrue(d)' /\ SendsPaid(d)'
            BY <1>1, <1>2, <1>8, <2>1, <2>4, <2>6, InHand DEF FileThere, CountTrue, SendsPaid
      <2>7. Sound(d)'
            BY <1>1, <1>2, <1>7, <2>5, <2>6, InHand DEF Sound
      <2> QED BY <1>1, <1>2, <1>4, <2>4, <2>7, HolderStep DEF DeliveryInv, DeliveryTypeOK
<1>9. CASE file[d] = NoFile
      <2>1. noted' = noted /\ Leave(a)
            BY <1>9 DEF FailRead
      <2>2. item'[a] = NoDelivery
            BY <2>1, LeftShape
      <2>3. Backed(d)'
            <3>1. Backed(d)
                  BY <1>2, InHand
            <3>2. \A b \in Actor : noted[b] \in Nat
                  BY ActorFinite DEF DeliveryInv, DeliveryTypeOK
            <3>3. \A b \in Actor : item'[b] = d /\ step'[b] = "rewriting" =>
                      noted'[b] + Cardinality(Failing(d)') <= tried'[d]
                  <4> SUFFICES ASSUME NEW b \in Actor, item'[b] = d, step'[b] = "rewriting"
                               PROVE  noted[b] + Cardinality(Failing(d)') <= tried[d]
                      BY <1>1, <2>1
                  <4>1. step[b] = "rewriting" /\ item[b] = d
                        BY <1>2, <2>2, InHand
                  <4>2. noted[b] + Cardinality(Failing(d)) <= tried[d]
                        BY <3>1, <4>1 DEF Backed
                  <4>3. tried[d] \in Nat
                        BY CountsBounded
                  <4> QED BY <1>6, <3>2, <4>2, <4>3
            <3>4. \A p \in Pass : \A e \in pending'[p] : e.id = d => e.count <= tried'[d]
                  BY <1>1, <3>1 DEF Backed
            <3> QED BY <1>1, <1>9, <3>3, <3>4 DEF Backed
      <2>4. d \in disturbed
            BY <1>1, <1>2, <1>9, InHand DEF FileThere
      <2>5. Sound(d)'
            BY <1>1, <1>7, <2>3, <2>4 DEF Sound
      <2> QED BY <1>1, <1>2, <1>4, <2>1, <2>5, HolderStep DEF DeliveryInv, DeliveryTypeOK
<1> QED BY <1>8, <1>9

LEMMA FailRenameStep ==
    ASSUME DeliveryInv, NEW a \in Actor, NEW d \in Delivery, item[a] = d, FailRename(a)
    PROVE  DeliveryInv'
<1>1. /\ step[a] = "rewriting" /\ Leave(a)
      /\ file' = [file EXCEPT ![d] = noted[a]] /\ noted' = [noted EXCEPT ![a] = 0]
      /\ marker' = marker /\ failed' = failed
      /\ sent' = sent /\ late' = late /\ tried' = tried
      /\ pending' = pending /\ excused' = excused /\ disturbed' = disturbed
      /\ faults' = faults
      BY DEF FailRename, sendVars
<1>2. Moves(a)
      BY <1>1 DEF Moves, Working
<1>3. item'[a] = NoDelivery /\ step'[a] \in {"choosing", "done"}
      BY <1>1, LeftShape
<1>4. /\ \A e \in Delivery : Untried(e)' \subseteq Untried(e)
      /\ Failing(d)' = Failing(d)
      BY <1>1, <1>2, <1>3, MovesKeep DEF Failing
<1>5. TriesLeft'
      BY <1>1, <1>4, TriesStay
<1>6. noted[a] \in 0 .. MaxTried /\ NoFile \notin 0 .. MaxTried
      BY ActorFinite, DeliveryAssumption DEF DeliveryInv, DeliveryTypeOK
<1>7. /\ file'[d] = noted[a] /\ \A e \in Delivery \ {d} : file'[e] = file[e]
      /\ file' \in [Delivery -> {NoFile} \cup 0 .. MaxTried]
      /\ \A b \in Actor \ {a} : noted'[b] = noted[b]
      /\ noted' \in [Actor -> 0 .. MaxTried]
      BY <1>1, <1>6, ActorFinite DEF DeliveryInv, DeliveryTypeOK
<1>8. noted[a] + Cardinality(Failing(d)) <= tried[d]
      BY <1>1, <1>2, InHand DEF Backed
<1>9. Blank(d)' /\ NotLost(d)' /\ Backed(d)' /\ EndsDue(d)' /\ FailedDue(d)'
      BY <1>1, <1>2, <1>3, <1>4, <1>6, <1>7, <1>8, InHand
      DEF Blank, NotLost, Backed, EndsDue, FailedDue
<1>10. ASSUME d \notin disturbed
       PROVE  FileThere(d)' /\ CountTrue(d)' /\ SendsPaid(d)'
      <2>1. file[d] # NoFile /\ noted[a] = tried[d]
            BY <1>1, <1>2, <1>10, InHand DEF FileThere, CountTrue
      <2>2. FileThere(d)'
            BY <1>1, <1>2, <1>3, <1>7, <1>10, <2>1, InHand DEF FileThere, Waits
      <2>3. CountTrue(d)'
            BY <1>1, <1>2, <1>3, <1>7, <1>10, <2>1, InHand DEF CountTrue
      <2>4. SendsPaid(d)'
            BY <1>1, <1>2, <1>3, <1>7, <1>10, InHand DEF SendsPaid
      <2> QED BY <2>2, <2>3, <2>4
<1>11. Sound(d)'
      BY <1>1, <1>2, <1>9, <1>10, InHand DEF Sound
<1> QED BY <1>1, <1>2, <1>5, <1>7, <1>11, HolderStep DEF DeliveryInv, DeliveryTypeOK

LEMMA FailFailsStep ==
    ASSUME DeliveryInv, NEW a \in Actor, NEW d \in Delivery, item[a] = d, FailFails(a)
    PROVE  DeliveryInv'
<1>1. /\ step[a] \in {"failing", "rewriting"} /\ CallFails /\ Leave(a)
      /\ disturbed' = disturbed \cup {d} /\ noted' = [noted EXCEPT ![a] = 0]
      /\ file' = file /\ marker' = marker /\ failed' = failed /\ pending' = pending
      /\ sent' = sent /\ late' = late /\ tried' = tried /\ excused' = excused
      BY DEF FailFails, sendVars
<1>2. Moves(a)
      BY <1>1 DEF Moves, Working
<1>3. item'[a] = NoDelivery /\ step'[a] \in {"choosing", "done"}
      BY <1>1, LeftShape
<1>4. \A e \in Delivery : Untried(e)' \subseteq Untried(e)
      BY <1>2, MovesKeep
<1>5. TriesLeft'
      BY <1>1, <1>4, TriesStay
<1>6. /\ \A b \in Actor \ {a} : noted'[b] = noted[b]
      /\ noted' \in [Actor -> 0 .. MaxTried]
      BY <1>1, ActorFinite DEF DeliveryInv, DeliveryTypeOK
<1>7. Blank(d)' /\ NotLost(d)' /\ EndsDue(d)' /\ FailedDue(d)'
      BY <1>1, <1>2, <1>3, InHand DEF Blank, NotLost, EndsDue, FailedDue
<1>8. Backed(d)'
      <2>1. Backed(d) /\ tried[d] \in Nat /\ (file[d] # NoFile => file[d] \in Nat)
            BY <1>2, InHand, CountsBounded
      <2>2. /\ Cardinality(Failing(d)') <= Cardinality(Failing(d))
            /\ Cardinality(Failing(d)') \in Nat /\ Cardinality(Failing(d)) \in Nat
            <3>1. Failing(d) \in SUBSET Actor /\ Failing(d)' \in SUBSET Failing(d)
                  BY <1>2, <1>3, FailingCount, MovesKeep
            <3> QED BY <3>1, ActorsCounted
      <2>3. \A b \in Actor : noted[b] \in Nat
            BY ActorFinite DEF DeliveryInv, DeliveryTypeOK
      <2>4. file[d] # NoFile => file[d] + Cardinality(Failing(d)') <= tried[d]
            BY <2>1, <2>2 DEF Backed
      <2>5. \A b \in Actor : item'[b] = d /\ step'[b] = "rewriting" =>
                noted'[b] + Cardinality(Failing(d)') <= tried[d]
            <3> SUFFICES ASSUME NEW b \in Actor, item'[b] = d, step'[b] = "rewriting"
                         PROVE  noted[b] + Cardinality(Failing(d)') <= tried[d]
                BY <1>3, <1>6, DeliveryAssumption
            <3>1. step[b] = "rewriting" /\ item[b] = d
                  BY <1>2, <1>3, InHand
            <3>2. noted[b] + Cardinality(Failing(d)) <= tried[d]
                  BY <2>1, <3>1 DEF Backed
            <3> QED BY <2>1, <2>2, <2>3, <3>2
      <2> QED BY <1>1, <2>1, <2>4, <2>5 DEF Backed
<1>9. Sound(d)'
      BY <1>1, <1>7, <1>8 DEF Sound
<1> QED BY <1>1, <1>2, <1>5, <1>6, <1>9, HolderStep DEF DeliveryInv, DeliveryTypeOK

LEMMA MoveToFailedStep ==
    ASSUME DeliveryInv, NEW a \in Actor, NEW d \in Delivery, item[a] = d, MoveToFailed(a)
    PROVE  DeliveryInv'
<1>1. /\ step[a] = "moving" /\ Leave(a)
      /\ marker' = marker /\ noted' = noted /\ sent' = sent /\ late' = late /\ tried' = tried
      /\ pending' = pending /\ excused' = excused /\ disturbed' = disturbed
      /\ faults' = faults \/ CallFails
      BY DEF MoveToFailed, sendVars, CallSucceeds
<1>2. Moves(a)
      BY <1>1 DEF Moves, Working
<1>3. item'[a] = NoDelivery /\ step'[a] \in {"choosing", "done"}
      BY <1>1, LeftShape
<1>4. /\ \A e \in Delivery : Untried(e)' \subseteq Untried(e)
      /\ Failing(d)' = Failing(d)
      BY <1>1, <1>2, <1>3, MovesKeep DEF Failing
<1>5. TriesLeft'
      BY <1>1, <1>4, TriesStay
<1>6. d \in excused \/ tried[d] >= MaxRetries
      BY <1>1, <1>2, InHand DEF EndsDue
<1>7. CASE /\ file[d] # NoFile
           /\ file' = [file EXCEPT ![d] = NoFile] /\ failed' = failed \cup {d}
      <2>1. file' = [file EXCEPT ![d] = NoFile] /\ failed' = failed \cup {d}
            BY <1>7
      <2>2. /\ file'[d] = NoFile /\ \A e \in Delivery \ {d} : file'[e] = file[e]
            /\ file' \in [Delivery -> {NoFile} \cup 0 .. MaxTried]
            BY <2>1 DEF DeliveryInv, DeliveryTypeOK
      <2>3. Blank(d)' /\ NotLost(d)' /\ Backed(d)' /\ EndsDue(d)' /\ FailedDue(d)'
            BY <1>1, <1>2, <1>3, <1>4, <1>6, <2>1, <2>2, InHand
            DEF Blank, NotLost, Backed, EndsDue, FailedDue
      <2>4. ASSUME d \notin disturbed
            PROVE  FileThere(d)' /\ CountTrue(d)' /\ SendsPaid(d)'
            BY <1>1, <1>2, <1>3, <1>7, <2>1, <2>2, <2>4, InHand
            DEF FileThere, CountTrue, SendsPaid, Waits
      <2>5. Sound(d)'
            BY <1>1, <1>2, <2>3, <2>4, InHand DEF Sound
      <2> QED BY <1>1, <1>2, <1>5, <2>1, <2>2, <2>5, HolderStep DEF DeliveryInv, DeliveryTypeOK
<1>8. CASE file' = file /\ failed' = failed
      <2>1. Blank(d)' /\ NotLost(d)' /\ Backed(d)' /\ EndsDue(d)' /\ FailedDue(d)'
            BY <1>1, <1>2, <1>3, <1>4, <1>8, InHand
            DEF Blank, NotLost, Backed, EndsDue, FailedDue
      <2>2. ASSUME d \notin disturbed
            PROVE  FileThere(d)' /\ CountTrue(d)' /\ SendsPaid(d)'
            BY <1>1, <1>2, <1>3, <1>8, <2>2, InHand
            DEF FileThere, CountTrue, SendsPaid, Waits
      <2>3. Sound(d)'
            BY <1>1, <1>2, <2>1, <2>2, InHand DEF Sound
      <2> QED BY <1>1, <1>2, <1>5, <1>8, <2>3, HolderStep DEF DeliveryInv, DeliveryTypeOK
<1> QED BY <1>7, <1>8 DEF MoveToFailed

-----------------------------------------------------------------------------
(* Enqueueing, recovery and crashes.                                       *)

\* A delivery stays sound where nothing is done about it, but that a pass gives it
\* up unseen or its marker goes.
LEMMA SoundStays ==
    ASSUME NEW d \in Delivery, Sound(d),
           file'[d] = file[d], d \in marker' => d \in marker, d \in failed' <=> d \in failed,
           sent'[d] = sent[d], tried'[d] = tried[d], late'[d] = late[d],
           d \in excused' <=> d \in excused,
           d \in disturbed => d \in disturbed',
           step'[d] = "new" <=> step[d] = "new",
           \A a \in Actor : item'[a] = d <=> item[a] = d,
           \A a \in Actor : item[a] = d => step'[a] = step[a] /\ noted'[a] = noted[a],
           \A p \in Pass : \A e \in pending'[p] : e.id = d => e \in pending[p]
    PROVE  Sound(d)'
<1>1. Failing(d)' = Failing(d)
      BY DEF Failing
<1>2. \A p \in Pass : Waits(p, d)' => Waits(p, d)
      BY DEF Waits
<1>3. Blank(d)'
      BY <1>2 DEF Sound, Blank
<1>4. Backed(d)'
      BY <1>1 DEF Sound, Backed
<1>5. EndsDue(d)' /\ NotLost(d)' /\ FailedDue(d)'
      BY DEF Sound, EndsDue, NotLost, FailedDue
<1>6. ASSUME d \notin disturbed
      PROVE  Alone(d)' /\ FileThere(d)' /\ CountTrue(d)' /\ SendsPaid(d)'
      <2>1. Alone(d) /\ FileThere(d) /\ CountTrue(d) /\ SendsPaid(d)
            BY <1>6 DEF Sound
      <2>2. Alone(d)'
            BY <1>2, <2>1 DEF Alone
      <2>3. FileThere(d)'
            BY <2>1 DEF FileThere
      <2>4. CountTrue(d)'
            BY <2>1 DEF CountTrue
      <2>5. SendsPaid(d)'
            BY <1>2, <2>1 DEF SendsPaid
      <2> QED BY <2>2, <2>3, <2>4, <2>5
<1> QED BY <1>3, <1>4, <1>5, <1>6 DEF Sound

LEMMA EnqueueDeliveryStep ==
    ASSUME DeliveryInv, NEW d \in Delivery, EnqueueDelivery(d)
    PROVE  DeliveryInv'
<1>1. /\ step[d] = "new" /\ marker' = marker /\ failed' = failed /\ noted' = noted
      /\ pending' = pending /\ sent' = sent /\ late' = late /\ tried' = tried
      /\ disturbed' = disturbed
      /\ faults' = faults
      BY DEF EnqueueDelivery
<1>2. /\ d \in Actor /\ d \notin Pass /\ d # NoDelivery /\ Pass \subseteq Actor
      /\ "new" \notin Working /\ "done" \notin Working /\ "sending" \in Working
      BY DeliveryAssumption DEF Actor, Working
<1>3. item[d] = NoDelivery
      BY <1>1, <1>2 DEF DeliveryInv, DeliveryTypeOK
<1>4. /\ file[d] = NoFile /\ d \notin marker \cup failed /\ sent[d] = 0 /\ tried[d] = 0
      /\ late[d] = 0 /\ (\A a \in Actor : item[a] # d) /\ \A p \in Pass : ~Waits(p, d)
      BY <1>1 DEF DeliveryInv, Sound, Blank
<1>5. CASE /\ file' = [file EXCEPT ![d] = 0]
           /\ step' = [step EXCEPT ![d] = "sending"]
           /\ item' = [item EXCEPT ![d] = d]
           /\ excused' = excused
      <2>1. /\ file'[d] = 0 /\ step'[d] = "sending" /\ item'[d] = d
            /\ \A e \in Delivery \ {d} : file'[e] = file[e]
            /\ \A a \in Actor \ {d} : step'[a] = step[a] /\ item'[a] = item[a]
            BY <1>2, <1>5 DEF DeliveryInv, DeliveryTypeOK
      <2>2. DeliveryTypeOK'
            <3>1. file' \in [Delivery -> {NoFile} \cup 0 .. MaxTried]
                  BY <1>5, ActorFinite DEF DeliveryInv, DeliveryTypeOK
            <3>2. /\ step' \in [Actor -> {"new", "choosing", "done"} \cup Working]
                  /\ item' \in [Actor -> Delivery \cup {NoDelivery}]
                  /\ \A a \in Actor : step'[a] \in Working <=> item'[a] # NoDelivery
                  BY <1>2, <1>5 DEF DeliveryInv, DeliveryTypeOK
            <3> QED BY <1>1, <1>5, <3>1, <3>2 DEF DeliveryInv, DeliveryTypeOK
      <2>3. ItemsShaped'
            BY <1>1, <1>2, <2>1 DEF DeliveryInv, ItemsShaped, Actor
      <2>4. \A e \in Delivery : Untried(e)' \subseteq Untried(e)
            BY <1>1, <1>2, <2>1 DEF Untried, Waits, Actor
      <2>5. TriesLeft'
            BY <1>1, <2>4, TriesStay
      <2>6. ASSUME NEW e \in Delivery \ {d}
            PROVE  Sound(e)'
            <3>1. /\ file'[e] = file[e] /\ e \in Actor /\ step'[e] = step[e]
                  /\ \A a \in Actor : item'[a] = e <=> item[a] = e
                  /\ \A a \in Actor : item[a] = e => step'[a] = step[a]
                  BY <1>3, <2>1, DeliveryAssumption DEF Actor
            <3> QED BY <1>1, <1>5, <3>1, SoundStays DEF DeliveryInv
      <2>7. Sound(d)'
            <3>1. Failing(d)' = {}
                  BY <1>4, <2>1 DEF Failing
            <3>2. Cardinality(Failing(d)') = 0
                  BY <3>1, FS_EmptySet
            <3>3. /\ \A a \in Actor : item'[a] = d => a = d
                  /\ \A p \in Pass : ~Waits(p, d)'
                  BY <1>1, <1>4, <2>1 DEF Waits
            <3>4. 0 # NoFile /\ 0 < MaxRetries /\ MaxRetries \in Nat
                  BY DeliveryAssumption
            <3>5. Blank(d)' /\ EndsDue(d)' /\ NotLost(d)' /\ FailedDue(d)'
                  BY <1>1, <1>4, <2>1, <3>3, <3>4 DEF Blank, EndsDue, NotLost, FailedDue
            <3>6. Backed(d)'
                  BY <1>1, <1>4, <2>1, <3>2, <3>3 DEF Backed, Waits
            <3>7. Alone(d)' /\ FileThere(d)'
                  BY <1>1, <1>4, <2>1, <3>3, <3>4 DEF Alone, FileThere, Waits
            <3>8. CountTrue(d)' /\ SendsPaid(d)'
                  BY <1>1, <1>4, <2>1, <3>3, <3>4 DEF CountTrue, SendsPaid
            <3> QED BY <3>5, <3>6, <3>7, <3>8 DEF Sound
      <2> QED BY <2>2, <2>3, <2>5, <2>6, <2>7 DEF DeliveryInv
<1>6. CASE /\ step' = [step EXCEPT ![d] = "done"]
           /\ excused' = excused \cup {d}
           /\ file' = file /\ item' = item
      <2>1. /\ step'[d] = "done"
            /\ \A a \in Actor \ {d} : step'[a] = step[a]
            BY <1>2, <1>6 DEF DeliveryInv, DeliveryTypeOK
      <2>2. DeliveryTypeOK'
            <3>1. /\ step' \in [Actor -> {"new", "choosing", "done"} \cup Working]
                  /\ \A a \in Actor : step'[a] \in Working <=> item'[a] # NoDelivery
                  BY <1>2, <1>3, <1>6 DEF DeliveryInv, DeliveryTypeOK
            <3> QED BY <1>1, <1>6, <3>1 DEF DeliveryInv, DeliveryTypeOK
      <2>3. ItemsShaped'
            BY <1>1, <1>2, <1>6, <2>1 DEF DeliveryInv, ItemsShaped, Actor
      <2>4. \A e \in Delivery : Untried(e)' \subseteq Untried(e)
            BY <1>1, <1>2, <1>6, <2>1 DEF Untried, Waits, Actor
      <2>5. TriesLeft'
            BY <1>1, <2>4, TriesStay
      <2>6. ASSUME NEW e \in Delivery \ {d}
            PROVE  Sound(e)'
            <3>1. /\ e \in Actor /\ step'[e] = step[e]
                  /\ \A a \in Actor : item[a] = e => step'[a] = step[a]
                  BY <1>3, <2>1, DeliveryAssumption DEF Actor
            <3> QED BY <1>1, <1>6, <3>1, SoundStays DEF DeliveryInv
      <2>7. Sound(d)'
            <3>1. Blank(d)' /\ EndsDue(d)' /\ NotLost(d)' /\ FailedDue(d)'
                  BY <1>1, <1>4, <1>6, <2>1 DEF Blank, EndsDue, NotLost, FailedDue
            <3>2. Backed(d)'
                  BY <1>1, <1>4, <1>6 DEF Backed, Waits
            <3>3. Alone(d)' /\ FileThere(d)'
                  BY <1>1, <1>4, <1>6 DEF Alone, FileThere, Waits
            <3>5. SendsPaid(d)'
                  BY <1>1, <1>4, <1>6 DEF SendsPaid
            <3>4. CountTrue(d)'
                  BY <1>1, <1>4, <1>6, DeliveryAssumption DEF CountTrue
            <3> QED BY <3>1, <3>2, <3>3, <3>4, <3>5 DEF Sound
      <2> QED BY <2>2, <2>3, <2>5, <2>6, <2>7 DEF DeliveryInv
<1> QED BY <1>5, <1>6 DEF EnqueueDelivery

LEMMA StartPassStep ==
    ASSUME DeliveryInv, NEW p \in Pass, StartPass(p)
    PROVE  DeliveryInv'
<1>0. PICK loaded \in SUBSET {d \in Delivery : file[d] # NoFile} :
          /\ step[p] = "new" /\ step' = [step EXCEPT ![p] = "choosing"]
          /\ faults' = faults \/ CallFails
          /\ marker' \subseteq marker
          /\ pending' = [pending EXCEPT ![p] = {[id |-> d, count |-> file[d]] : d \in loaded}]
          /\ disturbed' = disturbed \cup
                 {d \in loaded : Holders(d) # {} \/ \E q \in Pass : Waits(q, d)}
          /\ file' = file /\ failed' = failed /\ item' = item /\ noted' = noted
          /\ sent' = sent /\ late' = late /\ tried' = tried /\ excused' = excused
      BY DEF StartPass, Waits, sendVars, CallSucceeds
<1> DEFINE rows == {[id |-> d, count |-> file[d]] : d \in loaded}
           inHand(d) == Holders(d) # {} \/ \E q \in Pass : Waits(q, d)
<1>1. /\ step[p] = "new" /\ step' = [step EXCEPT ![p] = "choosing"]
      /\ marker' \subseteq marker /\ pending' = [pending EXCEPT ![p] = rows]
      /\ disturbed' = disturbed \cup {d \in loaded : inHand(d)}
      /\ file' = file /\ failed' = failed /\ item' = item /\ noted' = noted
      /\ sent' = sent /\ late' = late /\ tried' = tried /\ excused' = excused
      BY <1>0
<1>2. /\ p \in Actor /\ p \notin Delivery /\ Delivery \subseteq Actor
      /\ "new" \notin Working /\ "choosing" \notin Working
      BY DeliveryAssumption DEF Actor, Working
<1>3. item[p] = NoDelivery /\ NoDelivery \notin Delivery
      BY <1>1, <1>2, DeliveryAssumption DEF DeliveryInv, DeliveryTypeOK
<1>4. /\ step'[p] = "choosing" /\ \A a \in Actor \ {p} : step'[a] = step[a]
      /\ pending'[p] = rows /\ \A q \in Pass \ {p} : pending'[q] = pending[q]
      BY <1>1, <1>2 DEF DeliveryInv, DeliveryTypeOK
<1>5. /\ \A e \in rows : e.id \in loaded /\ e.count = file[e.id]
      /\ \A e, f \in rows : e.id = f.id => e = f
      /\ rows \subseteq [id : Delivery, count : 0 .. MaxTried]
      BY DEF DeliveryInv, DeliveryTypeOK
<1>6. DeliveryTypeOK'
      <2>1. pending' \in [Pass -> SUBSET [id : Delivery, count : 0 .. MaxTried]]
            BY <1>1, <1>5 DEF DeliveryInv, DeliveryTypeOK
      <2>2. /\ step' \in [Actor -> {"new", "choosing", "done"} \cup Working]
            /\ \A a \in Actor : step'[a] \in Working <=> item'[a] # NoDelivery
            BY <1>1, <1>2, <1>3 DEF DeliveryInv, DeliveryTypeOK
      <2>3. disturbed' \subseteq Delivery
            BY <1>1 DEF DeliveryInv, DeliveryTypeOK
      <2>4. faults' \in 0 .. MaxFaults
            BY <1>0, DeliveryAssumption DEF CallFails, DeliveryInv, DeliveryTypeOK
      <2> QED BY <1>1, <2>1, <2>2, <2>3, <2>4 DEF DeliveryInv, DeliveryTypeOK
<1> HIDE DEF rows, inHand
<1>7. ItemsShaped'
      <2>1. \A e \in rows : e.id # NoDelivery
            BY <1>3, <1>5
      <2> QED BY <1>1, <1>2, <1>3, <1>4, <1>5, <2>1 DEF DeliveryInv, ItemsShaped
<1>8. TriesLeft'
      <2>1. \A d \in Delivery : Untried(d)' \subseteq Untried(d)
            BY <1>1, <1>2, <1>4 DEF Untried, Waits, Actor
      <2> QED BY <1>1, <2>1, TriesStay
<1>9. \A a \in Actor : item[a] \in Delivery => a # p /\ step'[a] = step[a]
      BY <1>3, <1>4
<1>10. ASSUME NEW d \in Delivery, d \notin loaded
       PROVE  Sound(d)'
      <2>1. \A q \in Pass : \A e \in pending'[q] : e.id = d => e \in pending[q]
            BY <1>4, <1>5, <1>10
      <2>2. step'[d] = step[d]
            BY <1>2, <1>4
      <2> QED BY <1>1, <1>9, <2>1, <2>2, SoundStays DEF DeliveryInv
<1>11. ASSUME NEW d \in Delivery, d \in loaded
       PROVE  Sound(d)'
      <2>1. Sound(d) /\ step'[d] = step[d] /\ file[d] # NoFile
            BY <1>2, <1>4, <1>11 DEF DeliveryInv
      <2>2. /\ step[d] # "new" /\ Failing(d)' = Failing(d)
            /\ file[d] \in Nat /\ file[d] <= tried[d]
            BY <1>1, <1>9, <1>11, <2>1, CountsBounded DEF Sound, Blank, Failing
      <2>3. \A q \in Pass : \A e \in pending'[q] :
                e.id = d => e \in pending[q] \/ (q = p /\ e.count = file[d])
            BY <1>4, <1>5
      <2>4. Blank(d)' /\ EndsDue(d)' /\ NotLost(d)' /\ FailedDue(d)'
            BY <1>1, <1>9, <2>1, <2>2 DEF Sound, Blank, EndsDue, NotLost, FailedDue
      <2>5. Backed(d)'
            BY <1>1, <1>9, <2>1, <2>2, <2>3 DEF Sound, Backed
      <2>6. ASSUME d \notin disturbed'
            PROVE  Alone(d)' /\ FileThere(d)' /\ CountTrue(d)' /\ SendsPaid(d)'
            <3>1. d \notin disturbed /\ ~inHand(d)
                  BY <1>1, <1>11, <2>6
            <3>2. /\ \A a \in Actor : item[a] # d
                  /\ \A q \in Pass : ~Waits(q, d)
                  BY <1>3, <3>1 DEF inHand, Holders, DeliveryInv, DeliveryTypeOK
            <3>3. FileThere(d) /\ CountTrue(d) /\ SendsPaid(d)
                  BY <2>1, <3>1 DEF Sound
            <3>4. \A q \in Pass : \A e \in pending'[q] : e.id = d => q = p /\ e.count = file[d]
                  BY <2>3, <3>2 DEF Waits
            <3>5. Alone(d)'
                  BY <1>1, <3>2, <3>4 DEF Alone, Waits
            <3>6. FileThere(d)' /\ CountTrue(d)'
                  BY <1>1, <3>2, <3>3, <3>4 DEF FileThere, CountTrue
            <3>7. ~(sent[d] > late[d])
                  BY <2>1, <3>2, <3>3 DEF SendsPaid
            <3>8. SendsPaid(d)'
                  BY <1>1, <3>3, <3>7 DEF SendsPaid
            <3> QED BY <3>5, <3>6, <3>8
      <2> QED BY <2>4, <2>5, <2>6 DEF Sound
<1> QED BY <1>6, <1>7, <1>8, <1>10, <1>11 DEF DeliveryInv

LEMMA NextPendingStep ==
    ASSUME DeliveryInv, NEW p \in Pass, NextPending(p)
    PROVE  DeliveryInv'
<1>1. PICK e \in pending[p] :
        /\ step[p] = "choosing"
        /\ pending' = [pending EXCEPT ![p] = @ \ {e}]
        /\ \/ /\ step' = [step EXCEPT ![p] = IF GivenUp(e) THEN "moving" ELSE "sending"]
              /\ item' = [item EXCEPT ![p] = e.id]
           \/ step' = step /\ item' = item
      BY DEF NextPending
<1>2. /\ file' = file /\ marker' = marker /\ failed' = failed /\ noted' = noted
      /\ sent' = sent /\ late' = late /\ tried' = tried /\ excused' = excused
      /\ disturbed' = disturbed
      /\ faults' = faults
      BY DEF NextPending, sendVars
<1>3. /\ e.id \in Delivery /\ e.count \in Nat
      /\ pending \in [Pass -> SUBSET [id : Delivery, count : 0 .. MaxTried]]
      BY ActorFinite DEF DeliveryInv, DeliveryTypeOK
<1>4. /\ pending'[p] = pending[p] \ {e} /\ \A q \in Pass \ {p} : pending'[q] = pending[q]
      /\ pending' \in [Pass -> SUBSET [id : Delivery, count : 0 .. MaxTried]]
      BY <1>1, <1>3
<1>5. /\ p \in Actor /\ p \notin Delivery /\ Delivery \subseteq Actor
      /\ "choosing" \notin Working /\ {"moving", "sending"} \subseteq Working
      /\ NoDelivery \notin Delivery
      BY DeliveryAssumption DEF Actor, Working
<1>6. item[p] = NoDelivery
      BY <1>1, <1>5 DEF DeliveryInv, DeliveryTypeOK
<1>7. /\ \A f \in pending'[p] : f.id # e.id
      /\ \A q \in Pass : \A f \in pending'[q] : f \in pending[q]
      BY <1>4 DEF DeliveryInv, ItemsShaped
<1>8. CASE step' = step /\ item' = item
      <2>1. DeliveryTypeOK'
            BY <1>2, <1>4, <1>8 DEF DeliveryInv, DeliveryTypeOK
      <2>2. ItemsShaped'
            BY <1>7, <1>8 DEF DeliveryInv, ItemsShaped
      <2>3. \A d \in Delivery : Untried(d)' \subseteq Untried(d)
            BY <1>7, <1>8 DEF Untried, Waits
      <2>4. TriesLeft'
            BY <1>2, <2>3, TriesStay
      <2>5. \A d \in Delivery : Sound(d)'
            BY <1>2, <1>7, <1>8, SoundStays DEF DeliveryInv
      <2> QED BY <2>1, <2>2, <2>4, <2>5 DEF DeliveryInv
<1>9. CASE /\ step' = [step EXCEPT ![p] = IF GivenUp(e) THEN "moving" ELSE "sending"]
           /\ item' = [item EXCEPT ![p] = e.id]
      <2>1. /\ step'[p] = (IF GivenUp(e) THEN "moving" ELSE "sending") /\ item'[p] = e.id
            /\ \A a \in Actor \ {p} : step'[a] = step[a] /\ item'[a] = item[a]
            BY <1>5, <1>9 DEF DeliveryInv, DeliveryTypeOK
      <2>2. DeliveryTypeOK'
            <3>1. /\ step' \in [Actor -> {"new", "choosing", "done"} \cup Working]
                  /\ item' \in [Actor -> Delivery \cup {NoDelivery}]
                  BY <1>3, <1>5, <1>9 DEF DeliveryInv, DeliveryTypeOK
            <3>2. \A a \in Actor : step'[a] \in Working <=> item'[a] # NoDelivery
                  BY <1>3, <1>5, <2>1 DEF DeliveryInv, DeliveryTypeOK
            <3> QED BY <1>2, <1>4, <3>1, <3>2 DEF DeliveryInv, DeliveryTypeOK
      <2>3. ItemsShaped'
            <3>1. \A d \in Delivery : item'[d] \in {d, NoDelivery} /\ step'[d] # "choosing"
                  BY <1>5, <2>1 DEF DeliveryInv, ItemsShaped
            <3>2. \A q \in Pass : \A f, g \in pending'[q] :
                      f.id # item'[q] /\ (f.id = g.id => f = g)
                  BY <1>4, <1>7, <2>1 DEF DeliveryInv, ItemsShaped, Actor
            <3> QED BY <3>1, <3>2 DEF ItemsShaped
      <2>4. \A d \in Delivery : Untried(d)' \subseteq Untried(d)
            <3> SUFFICES ASSUME NEW d \in Delivery, NEW a \in Untried(d)'
                         PROVE  a \in Untried(d)
                OBVIOUS
            <3>1. CASE a = p
                  <4>1. step'[p] # "new"
                        BY <2>1
                  <4>2. p # d
                        BY <1>5
                  <4> QED BY <1>7, <2>1, <3>1, <4>1, <4>2 DEF Untried, Waits
            <3>2. CASE a # p
                  <4>1. a \in Actor
                        BY DEF Untried, Actor
                  <4> QED BY <1>7, <2>1, <3>2, <4>1 DEF Untried, Waits
            <3> QED BY <3>1, <3>2
      <2>5. TriesLeft'
            BY <1>2, <2>4, TriesStay
      <2>6. ASSUME NEW d \in Delivery \ {e.id}
            PROVE  Sound(d)'
            <3>1. /\ \A a \in Actor : item'[a] = d <=> item[a] = d
                  /\ \A a \in Actor : item[a] = d => step'[a] = step[a]
                  /\ step'[d] = step[d]
                  BY <1>5, <1>6, <2>1
            <3> QED BY <1>2, <1>7, <3>1, SoundStays DEF DeliveryInv
      <2>7. ASSUME NEW d \in Delivery, d = e.id
            PROVE  Sound(d)'
            <3>1. Sound(d) /\ Waits(p, d) /\ step'[d] = step[d]
                  BY <1>5, <2>1, <2>7 DEF DeliveryInv, Waits
            <3>2. /\ step[d] # "new" /\ e.count <= tried[d] /\ tried[d] \in Nat
                  /\ MaxRetries \in Nat
                  BY <2>7, <3>1, CountsBounded, DeliveryAssumption DEF Sound, Blank, Backed
            <3>3. GivenUp(e) => tried[d] >= MaxRetries
                  BY <1>3, <3>2 DEF GivenUp
            <3>4. Failing(d)' = Failing(d)
                  BY <1>6, <2>1, <1>5 DEF Failing
            <3>5. Blank(d)' /\ NotLost(d)' /\ FailedDue(d)'
                  BY <1>2, <3>1, <3>2 DEF Sound, Blank, NotLost, FailedDue
            <3>6. EndsDue(d)'
                  BY <1>2, <2>1, <3>1, <3>3 DEF Sound, EndsDue
            <3>7. Backed(d)'
                  BY <1>2, <1>7, <2>1, <3>1, <3>4 DEF Sound, Backed
            <3>8. ASSUME d \notin disturbed
                  PROVE  Alone(d)' /\ FileThere(d)' /\ CountTrue(d)' /\ SendsPaid(d)'
                  <4>1. Alone(d) /\ FileThere(d) /\ CountTrue(d) /\ SendsPaid(d)
                        BY <3>1, <3>8 DEF Sound
                  <4>2. /\ \A a \in Actor : item[a] # d
                        /\ \A a \in Actor : item'[a] = d => a = p
                        /\ \A q \in Pass : ~Waits(q, d)'
                        <5>1. \A q \in Pass : Waits(q, d) => q = p
                              BY <3>1, <4>1 DEF Alone
                        <5>2. \A q \in Pass : ~Waits(q, d)'
                              BY <1>7, <2>7, <5>1 DEF Waits
                        <5> QED BY <2>1, <3>1, <4>1, <5>2 DEF Alone
                  <4>3. file[d] = e.count /\ file[d] # NoFile
                        BY <1>3, <2>7, <4>1, DeliveryAssumption DEF FileThere
                  <4>4. file[d] = tried[d]
                        BY <4>1, <4>2, <4>3 DEF CountTrue
                  <4>5. ~(sent[d] > late[d])
                        BY <3>1, <4>1 DEF SendsPaid
                  <4>6. Alone(d)'
                        BY <4>2 DEF Alone
                  <4>7. FileThere(d)'
                        BY <1>2, <2>1, <4>1, <4>2, <4>3 DEF FileThere, Waits
                  <4>8. CountTrue(d)'
                        <5>1. step'[p] = "sending" => tried[d] < MaxRetries
                              BY <1>3, <2>1, <3>2, <4>3, <4>4 DEF GivenUp
                        <5> QED BY <1>2, <2>1, <4>1, <4>2, <4>4, <5>1 DEF CountTrue
                  <4>9. SendsPaid(d)'
                        BY <1>2, <4>1, <4>5 DEF SendsPaid
                  <4> QED BY <4>6, <4>7, <4>8, <4>9
            <3> QED BY <1>2, <3>5, <3>6, <3>7, <3>8 DEF Sound
      <2> QED BY <1>3, <2>2, <2>3, <2>5, <2>6, <2>7 DEF DeliveryInv
<1> QED BY <1>1, <1>8, <1>9

LEMMA EndPassStep ==
    ASSUME DeliveryInv, NEW p \in Pass, EndPass(p)
    PROVE  DeliveryInv'
<1>1. /\ step[p] = "choosing" /\ step' = [step EXCEPT ![p] = "done"]
      /\ pending' = [pending EXCEPT ![p] = {}]
      /\ file' = file /\ marker' = marker /\ failed' = failed /\ noted' = noted /\ item' = item
      /\ sent' = sent /\ late' = late /\ tried' = tried /\ excused' = excused
      /\ disturbed' = disturbed
      /\ faults' = faults
      BY DEF EndPass, sendVars
<1>2. /\ p \in Actor /\ p \notin Delivery /\ Delivery \subseteq Actor
      /\ "choosing" \notin Working /\ "done" \notin Working
      BY DeliveryAssumption DEF Actor, Working
<1>3. item[p] = NoDelivery /\ NoDelivery \notin Delivery
      BY <1>1, <1>2, DeliveryAssumption DEF DeliveryInv, DeliveryTypeOK
<1>4. /\ step'[p] = "done" /\ \A a \in Actor \ {p} : step'[a] = step[a]
      /\ \A q \in Pass : \A e \in pending'[q] : e \in pending[q]
      BY <1>1, <1>2 DEF DeliveryInv, DeliveryTypeOK
<1>5. DeliveryTypeOK'
      <2>1. pending' \in [Pass -> SUBSET [id : Delivery, count : 0 .. MaxTried]]
            BY <1>1 DEF DeliveryInv, DeliveryTypeOK
      <2>2. /\ step' \in [Actor -> {"new", "choosing", "done"} \cup Working]
            /\ \A a \in Actor : step'[a] \in Working <=> item'[a] # NoDelivery
            BY <1>1, <1>2, <1>3 DEF DeliveryInv, DeliveryTypeOK
      <2> QED BY <1>1, <2>1, <2>2 DEF DeliveryInv, DeliveryTypeOK
<1>6. ItemsShaped'
      BY <1>1, <1>2, <1>4 DEF DeliveryInv, ItemsShaped
<1>7. \A d \in Delivery : Untried(d)' \subseteq Untried(d)
      BY <1>1, <1>2, <1>4 DEF Untried, Waits, Actor
<1>8. TriesLeft'
      BY <1>1, <1>7, TriesStay
<1>9. ASSUME NEW d \in Delivery
      PROVE  Sound(d)'
      <2>1. /\ step'[d] = step[d]
            /\ \A a \in Actor : item[a] = d => step'[a] = step[a]
            BY <1>2, <1>3, <1>4
      <2> QED BY <1>1, <1>4, <2>1, SoundStays DEF DeliveryInv
<1> QED BY <1>5, <1>6, <1>8, <1>9 DEF DeliveryInv

\* Whom a crash finds at work leaves what it was at.  If that was not yet acknowledged,
\* counted or moved away, the delivery is disturbed.
LEMMA CrashStep ==
    ASSUME DeliveryInv, Crash
    PROVE  DeliveryInv'
<1> DEFINE begun == {a \in Actor : step[a] \in Working \cup {"choosing"}}
           cut   == {a \in begun : step[a] \in {"acking", "failing", "rewriting", "moving"}}
<1>1. /\ step' = [a \in Actor |-> IF a \in begun THEN "done" ELSE step[a]]
      /\ item' = [a \in Actor |-> NoDelivery] /\ noted' = [a \in Actor |-> 0]
      /\ pending' = [p \in Pass |-> {}]
      /\ disturbed' = disturbed \cup {item[a] : a \in cut}
      /\ file' = file /\ marker' = marker /\ failed' = failed
      /\ sent' = sent /\ late' = late /\ tried' = tried /\ excused' = excused
      /\ faults' = faults
      BY DEF Crash, sendVars
<1>2. /\ \A a \in Actor : item'[a] = NoDelivery
      /\ \A p \in Pass : pending'[p] = {}
      /\ NoDelivery \notin Delivery
      BY <1>1, DeliveryAssumption
<1>3. \A a \in Actor : /\ step'[a] = "new" <=> step[a] = "new"
                       /\ step'[a] \in {"new", "done"}
      BY <1>1 DEF Working, DeliveryInv, DeliveryTypeOK
<1>4. "new" \notin Working /\ "done" \notin Working
      BY DEF Working
<1>5. \A a \in cut : a \in Actor /\ item[a] \in Delivery
      BY DEF Working, DeliveryInv, DeliveryTypeOK
<1>6. DeliveryTypeOK'
      <2>1. disturbed' \subseteq Delivery
            BY <1>1, <1>5 DEF DeliveryInv, DeliveryTypeOK
      <2>2. /\ noted' \in [Actor -> 0 .. MaxTried]
            /\ item' \in [Actor -> Delivery \cup {NoDelivery}]
            /\ pending' \in [Pass -> SUBSET [id : Delivery, count : 0 .. MaxTried]]
            BY <1>1, ActorFinite
      <2>3. step' \in [Actor -> {"new", "choosing", "done"} \cup Working]
            BY <1>1 DEF DeliveryInv, DeliveryTypeOK
      <2>4. \A a \in Actor : step'[a] \in Working <=> item'[a] # NoDelivery
            BY <1>2, <1>3, <1>4
      <2> QED BY <1>1, <2>1, <2>2, <2>3, <2>4 DEF DeliveryInv, DeliveryTypeOK
<1> HIDE DEF cut
<1>7. ItemsShaped'
      <2>1. \A d \in Delivery : item'[d] \in {d, NoDelivery} /\ step'[d] # "choosing"
            BY <1>2, <1>3 DEF Actor
      <2> QED BY <1>2, <2>1 DEF ItemsShaped
<1>8. \A d \in Delivery : Untried(d)' \subseteq Untried(d)
      BY <1>2, <1>3 DEF Untried, Waits, Actor
<1>9. TriesLeft'
      BY <1>1, <1>8, TriesStay
<1>10. ASSUME NEW d \in Delivery
       PROVE  Sound(d)'
      <2>1. /\ Sound(d)
            /\ step'[d] = "new" <=> step[d] = "new"
            /\ \A a \in Actor : item'[a] # d
            /\ \A p \in Pass : ~Waits(p, d)'
            BY <1>2, <1>3 DEF DeliveryInv, Waits, Actor
      <2>2. Cardinality(Failing(d)') = 0
            <3>1. Failing(d)' = {}
                  BY <2>1 DEF Failing
            <3> QED BY <3>1, FS_EmptySet
      <2>3. Blank(d)' /\ EndsDue(d)' /\ NotLost(d)' /\ FailedDue(d)'
            BY <1>1, <2>1 DEF Sound, Blank, EndsDue, NotLost, FailedDue
      <2>4. Backed(d)'
            <3>1. file[d] # NoFile => file[d] \in Nat /\ file[d] <= tried[d]
                  BY CountsBounded
            <3> QED BY <1>1, <1>2, <2>1, <2>2, <3>1 DEF Backed
      <2>5. ASSUME d \notin disturbed'
            PROVE  Alone(d)' /\ FileThere(d)' /\ CountTrue(d)' /\ SendsPaid(d)'
            <3>1. /\ Alone(d) /\ FileThere(d) /\ CountTrue(d) /\ SendsPaid(d)
                  /\ \A a \in Actor : a \in cut => item[a] # d
                  BY <1>1, <2>1, <2>5 DEF Sound
            <3>2. \A a \in Actor : item[a] = d =>
                      step[a] \notin {"acking", "failing", "rewriting", "moving"}
                  BY <3>1 DEF cut, Working
            <3>3. Alone(d)' /\ FileThere(d)'
                  BY <1>1, <1>2, <2>1, <3>1 DEF Alone, FileThere
            <3>4. file[d] # NoFile => file[d] = tried[d]
                  BY <3>1, <3>2 DEF CountTrue
            <3>5. CountTrue(d)'
                  BY <1>1, <2>1, <3>1, <3>4 DEF CountTrue
            <3>6. sent[d] > late[d] => file[d] = NoFile
                  BY <3>1, <3>2 DEF SendsPaid, FileThere
            <3>7. SendsPaid(d)'
                  BY <1>1, <2>1, <3>1, <3>6 DEF SendsPaid
            <3> QED BY <3>3, <3>5, <3>7
      <2> QED BY <2>3, <2>4, <2>5 DEF Sound
<1> QED BY <1>6, <1>7, <1>9, <1>10 DEF DeliveryInv

-----------------------------------------------------------------------------
(* The invariant, and what follows.                                        *)

LEMMA InitDeliveryInv == DeliveryInit => DeliveryInv
<1> SUFFICES ASSUME DeliveryInit PROVE DeliveryInv
    OBVIOUS
<1> USE DEF DeliveryInit
<1>1. /\ \A a \in Actor : step[a] = "new" /\ item[a] = NoDelivery
      /\ \A p \in Pass : pending[p] = {}
      /\ \A d \in Delivery : file[d] = NoFile /\ sent[d] = 0 /\ tried[d] = 0 /\ late[d] = 0
      /\ Delivery \subseteq Actor /\ NoDelivery \notin Delivery
      /\ MaxRetries \in Nat /\ 0 <= MaxRetries /\ 0 \in 0 .. MaxFaults
      BY DeliveryAssumption DEF Actor
<1>2. DeliveryTypeOK
      <2>1. "new" \notin Working
            BY DEF Working
      <2> QED BY <1>1, <2>1, ActorFinite DEF DeliveryTypeOK
<1>3. ItemsShaped
      BY <1>1 DEF ItemsShaped
<1>4. ASSUME NEW d \in Delivery
      PROVE  tried[d] + Cardinality(Untried(d)) <= MaxTried
      <2>1. IsFiniteSet(Pass) /\ d \notin Pass
            BY DeliveryAssumption
      <2>2. Cardinality({d} \cup Pass) = Cardinality(Pass) + 1 /\ IsFiniteSet({d} \cup Pass)
            <3>1. {d} \cup Pass = Pass \cup {d}
                  OBVIOUS
            <3> QED BY <2>1, <3>1, FS_AddElement
      <2>3. Untried(d) \subseteq {d} \cup Pass
            BY DEF Untried
      <2>4. Cardinality(Untried(d)) <= Cardinality({d} \cup Pass)
            BY <2>2, <2>3, FS_Subset
      <2>5. Cardinality(Untried(d)) \in Nat /\ Cardinality(Pass) \in Nat
            BY <2>1, FS_CardinalityType, UntriedCount
      <2> QED BY <1>1, <2>2, <2>4, <2>5 DEF MaxTried
<1>5. ASSUME NEW d \in Delivery
      PROVE  Sound(d)
      <2>1. /\ step[d] = "new" /\ (\A a \in Actor : item[a] # d)
            /\ \A p \in Pass : ~Waits(p, d)
            BY <1>1 DEF Waits
      <2>2. Blank(d) /\ EndsDue(d) /\ NotLost(d) /\ FailedDue(d)
            BY <1>1, <2>1 DEF Blank, EndsDue, NotLost, FailedDue
      <2>3. Backed(d)
            BY <1>1, <2>1 DEF Backed
      <2>4. Alone(d) /\ FileThere(d)
            BY <1>1, <2>1 DEF Alone, FileThere
      <2>5. CountTrue(d) /\ SendsPaid(d)
            BY <1>1, <2>1 DEF CountTrue, SendsPaid
      <2> QED BY <2>2, <2>3, <2>4, <2>5 DEF Sound
<1> QED BY <1>2, <1>3, <1>4, <1>5 DEF DeliveryInv, TriesLeft

LEMMA NextDeliveryInv == DeliveryInv /\ [DeliveryNext]_deliveryVars => DeliveryInv'
<1> SUFFICES ASSUME DeliveryInv, [DeliveryNext]_deliveryVars PROVE DeliveryInv'
    OBVIOUS
<1>1. ASSUME NEW a \in Actor, step[a] \in Working
      PROVE  item[a] \in Delivery
      BY <1>1 DEF DeliveryInv, DeliveryTypeOK
<1>2. ASSUME NEW d \in Delivery, EnqueueDelivery(d) PROVE DeliveryInv'
      BY <1>2, EnqueueDeliveryStep
<1>3. ASSUME NEW a \in Actor, Send(a) PROVE DeliveryInv'
      <2>1. item[a] \in Delivery
            BY <1>1, <1>3 DEF Send, Working
      <2> QED BY <1>3, <2>1, SendStep
<1>4. ASSUME NEW a \in Actor, SendFails(a) PROVE DeliveryInv'
      <2>1. item[a] \in Delivery
            BY <1>1, <1>4 DEF SendFails, Working
      <2> QED BY <1>4, <2>1, SendFailsStep
<1>5. ASSUME NEW a \in Actor, SendEnds(a) PROVE DeliveryInv'
      <2>1. item[a] \in Delivery
            BY <1>1, <1>5 DEF SendEnds, Working
      <2> QED BY <1>5, <2>1, SendEndsStep
<1>6. ASSUME NEW a \in Actor, AckRename(a) PROVE DeliveryInv'
      <2>1. item[a] \in Delivery
            BY <1>1, <1>6 DEF AckRename, Working
      <2> QED BY <1>6, <2>1, AckRenameStep
<1>7. ASSUME NEW a \in Actor, AckUnlink(a) PROVE DeliveryInv'
      <2>1. item[a] \in Delivery
            BY <1>1, <1>7 DEF AckUnlink, Working
      <2> QED BY <1>7, <2>1, AckUnlinkStep
<1>8. ASSUME NEW a \in Actor, FailRead(a) PROVE DeliveryInv'
      <2>1. item[a] \in Delivery
            BY <1>1, <1>8 DEF FailRead, Working
      <2> QED BY <1>8, <2>1, FailReadStep
<1>9. ASSUME NEW a \in Actor, FailRename(a) PROVE DeliveryInv'
      <2>1. item[a] \in Delivery
            BY <1>1, <1>9 DEF FailRename, Working
      <2> QED BY <1>9, <2>1, FailRenameStep
<1>10. ASSUME NEW a \in Actor, MoveToFailed(a) PROVE DeliveryInv'
      <2>1. item[a] \in Delivery
            BY <1>1, <1>10 DEF MoveToFailed, Working
      <2> QED BY <1>10, <2>1, MoveToFailedStep
<1>11. ASSUME NEW a \in Actor, MirrorFails(a) PROVE DeliveryInv'
      <2>1. item[a] \in Delivery
            BY <1>1, <1>11 DEF MirrorFails, Working
      <2> QED BY <1>11, <2>1, MirrorFailsStep
<1>12. ASSUME NEW a \in Actor, AckFails(a) PROVE DeliveryInv'
      <2>1. item[a] \in Delivery
            BY <1>1, <1>12 DEF AckFails, Working
      <2> QED BY <1>12, <2>1, AckFailsStep
<1>13. ASSUME NEW a \in Actor, FailFails(a) PROVE DeliveryInv'
      <2>1. item[a] \in Delivery
            BY <1>1, <1>13 DEF FailFails, Working
      <2> QED BY <1>13, <2>1, FailFailsStep
<1>14. ASSUME NEW p \in Pass, StartPass(p) \/ NextPending(p) \/ EndPass(p) PROVE DeliveryInv'
      BY <1>14, StartPassStep, NextPendingStep, EndPassStep
<1>15. CASE UNCHANGED deliveryVars
      <2> USE <1>15 DEF deliveryVars, sendVars
      <2>1. DeliveryTypeOK' /\ ItemsShaped'
            BY DEF DeliveryInv, DeliveryTypeOK, ItemsShaped
      <2>2. \A d \in Delivery : Untried(d)' \subseteq Untried(d)
            BY DEF Untried, Waits
      <2>3. TriesLeft'
            BY <2>2, TriesStay
      <2>4. \A d \in Delivery : Sound(d)'
            BY SoundStays DEF DeliveryInv
      <2> QED BY <2>1, <2>3, <2>4 DEF DeliveryInv
<1> QED BY <1>2, <1>3, <1>4, <1>5, <1>6, <1>7, <1>8, <1>9, <1>10, <1>11,
        <1>12, <1>13, <1>14, <1>15, CrashStep DEF DeliveryNext

\* DeliveryInv holds in every state of the queue.
THEOREM DeliveryInductive == DeliverySpec => []DeliveryInv
BY InitDeliveryInv, NextDeliveryInv, PTL DEF DeliverySpec

\* A set that has one element at most is counted so.
LEMMA OneAtMost ==
    ASSUME NEW S, \A x, y \in S : x = y
    PROVE  Cardinality(S) <= 1
<1>1. CASE S = {}
      BY <1>1, FS_EmptySet
<1>2. CASE S # {}
      <2>1. PICK x \in S : TRUE
            BY <1>2
      <2>2. S = {x}
            BY <2>1
      <2> QED BY <2>2, FS_Singleton
<1> QED BY <1>1, <1>2

\* What is written ahead is kept, counted and given up as it should be, and sent again
\* only for an error behind a send, or if a pass found it in hand, a crash came between
\* its send and the first phase of ackDelivery or a call on its file failed, whatever
\* crashes and whichever passes run beside the senders.
THEOREM DeliveriesAreKept == DeliverySpec => []DeliveriesKept
<1>1. DeliveryInv => DeliveriesKept
      <2> SUFFICES ASSUME DeliveryInv PROVE DeliveriesKept
          OBVIOUS
      <2>1. \A d \in Delivery : Sound(d)
            BY DEF DeliveryInv
      <2>2. NoneLost
            BY <2>1 DEF NoneLost, Sound, NotLost
      <2>3. ASSUME NEW d \in Delivery \ disturbed
            PROVE  /\ file[d] # NoFile
                        /\ (\A a \in Holders(d) : step[a] \notin {"failing", "rewriting"})
                      => file[d] = tried[d]
                   /\ Cardinality({p \in {"json", "delivered", "failed"} :
                            CASE p = "json" -> file[d] # NoFile
                              [] p = "delivered" -> d \in marker
                              [] OTHER -> d \in failed}) <= 1
            <3> DEFINE S == {p \in {"json", "delivered", "failed"} :
                            CASE p = "json" -> file[d] # NoFile
                              [] p = "delivered" -> d \in marker
                              [] OTHER -> d \in failed}
            <3>1. FileThere(d) /\ CountTrue(d)
                  BY <2>1, <2>3 DEF Sound
            <3>2. \A p \in S : \/ p = "json" /\ file[d] # NoFile
                               \/ p = "delivered" /\ d \in marker
                               \/ p = "failed" /\ d \in failed
                  OBVIOUS
            <3>3. \A p, q \in S : p = q
                  <4> HIDE DEF S
                  <4> QED BY <3>1, <3>2 DEF FileThere
            <3>4. Cardinality(S) <= 1
                  <4> HIDE DEF S
                  <4> QED BY <3>3, OneAtMost
            <3>5. file[d] # NoFile
                    /\ (\A a \in Holders(d) : step[a] \notin {"failing", "rewriting"})
                  => file[d] = tried[d]
                  BY <3>1 DEF CountTrue, Holders, Working
            <3> QED BY <3>4, <3>5
      <2>4. FilesHonest
            BY <2>3 DEF FilesHonest
      <2>5. GivesUpInTime
            <3>1. \A d \in Delivery : tried[d] \in Nat /\ MaxRetries \in Nat
                  BY CountsBounded, DeliveryAssumption
            <3> QED BY <2>1, <3>1 DEF GivesUpInTime, Sound, FailedDue, CountTrue
      <2>6. DuplicatesExplained
            <3>1. \A d \in Delivery : sent[d] \in Nat /\ late[d] \in Nat
                  BY DEF DeliveryInv, DeliveryTypeOK
            <3> QED BY <2>1, <3>1 DEF DuplicatesExplained, Sound, SendsPaid
      <2> QED BY <2>2, <2>4, <2>5, <2>6 DEF DeliveriesKept, DeliveryInv
<1> QED BY <1>1, DeliveryInductive, PTL

-----------------------------------------------------------------------------
(* The outbox: every step is one of Outbox, or leaves what it shows alone. *)

Handed == {d \in Delivery : step[d] # "new"}
Filed == {d \in Delivery : file[d] # NoFile}

\* Who has a delivery in hand leaves those that are handed over as they are, and
\* works on one that is due, unless it acknowledges it.
LEMMA HolderOut ==
    ASSUME DeliveryInv, NEW a \in Actor, NEW d \in Delivery, item[a] = d, Moves(a)
    PROVE  /\ Handed' = Handed /\ d \in Handed
           /\ step[a] \notin {"acking", "unlinking"} => Out!Due(d)
           /\ step[a] = "sending" /\ d \notin disturbed => tried[d] < MaxRetries
           /\ step[a] # "unlinking" /\ d \notin disturbed => d \in Filed
<1>1. Sound(d) /\ sent[d] \in Nat /\ late[d] \in Nat
      BY DEF DeliveryInv, DeliveryTypeOK
<1>2. Handed' = Handed /\ d \in Handed
      BY MovesKeep DEF Handed
<1>3. ASSUME d \notin disturbed
      PROVE  FileThere(d) /\ CountTrue(d) /\ SendsPaid(d)
      BY <1>1, <1>3 DEF Sound
<1>4. step[a] # "unlinking" /\ d \notin disturbed => d \in Filed
      BY <1>3 DEF FileThere, Filed
<1>5. step[a] \notin {"acking", "unlinking"} /\ d \notin disturbed => sent[d] = late[d]
      BY <1>1, <1>3 DEF SendsPaid
<1>6. step[a] = "sending" /\ d \notin disturbed => tried[d] < MaxRetries
      BY <1>3 DEF CountTrue
<1>7. step[a] \notin {"acking", "unlinking"} => Out!Due(d)
      BY <1>2, <1>4, <1>5 DEF Out!Due, Handed, Filed
<1> QED BY <1>2, <1>4, <1>6, <1>7

LEMMA OutUnmoved ==
    ASSUME Handed' = Handed, Filed' = Filed, sent' = sent, tried' = tried, late' = late,
           failed' = failed, excused' = excused, disturbed' = disturbed
    PROVE  [Out!Next]_Out!outbox
BY DEF Handed, Filed, Out!outbox

LEMMA SendOut ==
    ASSUME DeliveryInv, NEW a \in Actor, NEW d \in Delivery, item[a] = d,
           Send(a) \/ MirrorFails(a) \/ SendFails(a) \/ SendEnds(a)
    PROVE  [Out!Next]_Out!outbox
<1>1. /\ step[a] = "sending" /\ file' = file /\ failed' = failed
      /\ pending' = pending /\ disturbed' = disturbed
      BY DEF Send, MirrorFails, SendFails, SendEnds
<1>2. Moves(a)
      BY <1>1 DEF Send, MirrorFails, SendFails, SendEnds, Moves, Working
<1>3. /\ Handed' = Handed /\ Filed' = Filed /\ Out!Due(d)
      /\ d \in disturbed \/ tried[d] < MaxRetries
      BY <1>1, <1>2, HolderOut DEF Filed
<1>4. CASE Send(a)
      <2>1. Out!Deliver(d)
            BY <1>1, <1>3, <1>4 DEF Send, Out!Deliver, Handed, Filed
      <2> QED BY <2>1 DEF Out!Next
<1>5. CASE MirrorFails(a)
      <2>1. Out!DeliverLate(d)
            BY <1>1, <1>3, <1>5 DEF MirrorFails, Out!DeliverLate, Handed, Filed
      <2> QED BY <2>1 DEF Out!Next
<1>6. CASE SendFails(a)
      <2>1. CASE tried' = tried
            BY <1>1, <1>3, <1>6, <2>1, OutUnmoved DEF SendFails
      <2>2. CASE tried' = [tried EXCEPT ![d] = @ + 1]
            <3>1. Out!Fail(d)
                  BY <1>1, <1>3, <1>6, <2>2 DEF SendFails, Out!Fail, Handed, Filed
            <3> QED BY <3>1 DEF Out!Next
      <2> QED BY <1>6, <2>1, <2>2 DEF SendFails
<1>7. CASE SendEnds(a)
      <2>1. Out!Excuse(d)
            BY <1>1, <1>3, <1>7 DEF SendEnds, Out!Excuse, Handed, Filed
      <2> QED BY <2>1 DEF Out!Next
<1> QED BY <1>4, <1>5, <1>6, <1>7

LEMMA AckOut ==
    ASSUME DeliveryInv, NEW a \in Actor, NEW d \in Delivery, item[a] = d,
           AckRename(a) \/ AckUnlink(a)
    PROVE  [Out!Next]_Out!outbox
<1>1. /\ step[a] \in {"acking", "unlinking"} /\ failed' = failed
      /\ sent' = sent /\ late' = late /\ tried' = tried
      /\ excused' = excused /\ pending' = pending /\ disturbed' = disturbed
      BY DEF AckRename, AckUnlink, sendVars
<1>2. Moves(a)
      BY <1>1 DEF AckRename, AckUnlink, Moves, Working
<1>3. Handed' = Handed
      BY <1>2, HolderOut
<1>4. CASE file' = file
      <2>1. Filed' = Filed
            BY <1>4 DEF Filed
      <2> QED BY <1>1, <1>3, <2>1, OutUnmoved
<1>5. CASE AckRename(a) /\ file[d] # NoFile
      <2>1. step[a] = "acking" /\ file' = [file EXCEPT ![d] = NoFile]
            BY <1>5 DEF AckRename
      <2>2. d \in Filed /\ Filed' = Filed \ {d}
            BY <1>5, <2>1 DEF Filed, DeliveryInv, DeliveryTypeOK
      <2>3. sent[d] > 0 \/ d \in BestEffort \cup excused
            BY <2>1 DEF DeliveryInv, Sound, EndsDue
      <2>4. Out!Release(d)
            BY <1>1, <1>3, <2>2, <2>3 DEF Out!Release, Handed, Filed
      <2> QED BY <2>4 DEF Out!Next
<1> QED BY <1>4, <1>5 DEF AckRename, AckUnlink

\* An end that cannot be recorded disturbs what is kept.
LEMMA FaultOut ==
    ASSUME DeliveryInv, NEW a \in Actor, NEW d \in Delivery, item[a] = d,
           AckFails(a) \/ FailFails(a)
    PROVE  [Out!Next]_Out!outbox
<1>1. /\ step[a] \in {"acking", "failing", "rewriting"} /\ file' = file /\ failed' = failed
      /\ sent' = sent /\ late' = late /\ excused' = excused
      /\ pending' = pending /\ disturbed' = disturbed \cup {d}
      BY DEF AckFails, FailFails, sendVars
<1>2. Moves(a)
      BY <1>1 DEF AckFails, FailFails, Moves, Working
<1>3. /\ Handed' = Handed /\ Filed' = Filed
      /\ d \notin disturbed => d \in Filed
      BY <1>1, <1>2, HolderOut DEF Filed
<1>4. CASE tried' = tried
      <2>1. Out!Disturb({d})
            BY <1>1, <1>3, <1>4 DEF Out!Disturb, Handed, Filed
      <2> QED BY <2>1 DEF Out!Next
<1>5. CASE tried' = [tried EXCEPT ![d] = @ + 1] /\ file[d] # NoFile
      <2>1. d \in Filed
            BY <1>5 DEF Filed
      <2>2. Out!Misjudge(d)
            BY <1>1, <1>3, <1>5, <2>1 DEF Out!Misjudge, Handed, Filed
      <2> QED BY <2>2 DEF Out!Next
<1> QED BY <1>4, <1>5 DEF AckFails, FailFails, sendVars

LEMMA FailOut ==
    ASSUME DeliveryInv, NEW a \in Actor, NEW d \in Delivery, item[a] = d,
           FailRead(a) \/ FailRename(a)
    PROVE  [Out!Next]_Out!outbox
<1>1. /\ step[a] \in {"failing", "rewriting"} /\ failed' = failed
      /\ sent' = sent /\ late' = late /\ tried' = tried
      /\ excused' = excused /\ pending' = pending /\ disturbed' = disturbed
      BY DEF FailRead, FailRename, sendVars
<1>2. Moves(a)
      BY <1>1 DEF FailRead, FailRename, Moves, Working
<1>3. Handed' = Handed /\ (d \notin disturbed => d \in Filed)
      BY <1>1, <1>2, HolderOut
<1>4. CASE FailRead(a)
      <2>1. Filed' = Filed
            BY <1>4 DEF FailRead, Filed
      <2> QED BY <1>1, <1>3, <2>1, OutUnmoved
<1>5. CASE FailRename(a)
      <2>1. file' = [file EXCEPT ![d] = noted[a]] /\ noted[a] # NoFile
            BY <1>5, DeliveryAssumption, ActorFinite
               DEF FailRename, DeliveryInv, DeliveryTypeOK
      <2>2. Filed' = Filed \cup {d}
            BY <2>1 DEF Filed, DeliveryInv, DeliveryTypeOK
      <2>3. CASE d \in Filed
            BY <1>1, <1>3, <2>2, <2>3, OutUnmoved
      <2>4. CASE d \notin Filed
            <3>1. Out!Return(d)
                  BY <1>1, <1>3, <2>2, <2>4 DEF Out!Return, Handed, Filed
            <3> QED BY <3>1 DEF Out!Next
      <2> QED BY <2>3, <2>4
<1> QED BY <1>4, <1>5

LEMMA MoveOut ==
    ASSUME DeliveryInv, NEW a \in Actor, NEW d \in Delivery, item[a] = d, MoveToFailed(a)
    PROVE  [Out!Next]_Out!outbox
<1>1. /\ step[a] = "moving" /\ sent' = sent /\ late' = late /\ tried' = tried
      /\ excused' = excused /\ pending' = pending /\ disturbed' = disturbed
      BY DEF MoveToFailed, sendVars
<1>2. Moves(a)
      BY <1>1 DEF MoveToFailed, Moves, Working
<1>3. Handed' = Handed /\ Out!Due(d)
      BY <1>1, <1>2, HolderOut
<1>4. CASE file' = file /\ failed' = failed
      <2>1. Filed' = Filed
            BY <1>4 DEF Filed
      <2> QED BY <1>1, <1>3, <1>4, <2>1, OutUnmoved
<1>5. CASE /\ file[d] # NoFile
           /\ file' = [file EXCEPT ![d] = NoFile] /\ failed' = failed \cup {d}
      <2>1. file' = [file EXCEPT ![d] = NoFile] /\ failed' = failed \cup {d}
            BY <1>5
      <2>2. d \in Filed /\ Filed' = Filed \ {d}
            BY <1>5, <2>1 DEF Filed, DeliveryInv, DeliveryTypeOK
      <2>3. tried[d] >= MaxRetries \/ d \in excused
            BY <1>1 DEF DeliveryInv, Sound, EndsDue
      <2>4. Out!GiveUp(d)
            BY <1>1, <1>3, <2>1, <2>2, <2>3 DEF Out!GiveUp, Handed, Filed
      <2> QED BY <2>4 DEF Out!Next
<1> QED BY <1>4, <1>5 DEF MoveToFailed

LEMMA EnqueueOut ==
    ASSUME DeliveryInv, NEW d \in Delivery, EnqueueDelivery(d)
    PROVE  [Out!Next]_Out!outbox
<1>1. /\ step[d] = "new" /\ failed' = failed
      /\ sent' = sent /\ late' = late /\ tried' = tried
      /\ disturbed' = disturbed
      BY DEF EnqueueDelivery
<1>2. d \notin Handed /\ Handed' = Handed \cup {d}
      <2>1. \/ step' = [step EXCEPT ![d] = "sending"]
            \/ step' = [step EXCEPT ![d] = "done"]
            BY DEF EnqueueDelivery
      <2>2. Delivery \subseteq Actor
            BY DEF Actor
      <2> QED BY <1>1, <2>1, <2>2 DEF Handed, DeliveryInv, DeliveryTypeOK
<1>3. \/ Filed' = Filed \cup {d} /\ excused' = excused
      \/ Filed' = Filed /\ excused' = excused \cup {d}
      <2>1. \/ file' = [file EXCEPT ![d] = 0] /\ excused' = excused
            \/ file' = file /\ excused' = excused \cup {d}
            BY DEF EnqueueDelivery
      <2>2. NoFile # 0
            BY DeliveryAssumption
      <2> QED BY <2>1, <2>2 DEF Filed, DeliveryInv, DeliveryTypeOK
<1>4. Out!HandOver(d)
      BY <1>1, <1>2, <1>3 DEF Out!HandOver, Handed, Filed
<1> QED BY <1>4 DEF Out!Next

LEMMA PassOut ==
    ASSUME DeliveryInv, NEW p \in Pass, StartPass(p) \/ NextPending(p) \/ EndPass(p)
    PROVE  [Out!Next]_Out!outbox
<1>1. /\ file' = file /\ failed' = failed /\ excused' = excused
      /\ sent' = sent /\ late' = late /\ tried' = tried
      /\ \E next : step' = [step EXCEPT ![p] = next]
      <2>1. step = [step EXCEPT ![p] = step[p]]
            BY DEF DeliveryInv, DeliveryTypeOK
      <2> QED BY <2>1 DEF StartPass, NextPending, EndPass, sendVars
<1>2. Filed' = Filed
      BY <1>1 DEF Filed
<1>3. Handed' = Handed
      <2>1. Delivery \subseteq Actor /\ p \notin Delivery
            BY DeliveryAssumption DEF Actor
      <2> QED BY <1>1, <2>1 DEF Handed, DeliveryInv, DeliveryTypeOK
<1>4. CASE StartPass(p)
      <2>1. PICK some \in SUBSET Filed : disturbed' = disturbed \cup some
            <3>1. PICK loaded \in SUBSET Filed :
                    disturbed' = disturbed \cup
                        {d \in loaded : \/ Holders(d) # {}
                                        \/ \E q \in Pass : \E e \in pending[q] : e.id = d}
                  BY <1>4 DEF StartPass, Filed
            <3> QED BY <3>1
      <2>2. some \in SUBSET Delivery
            BY <2>1 DEF Filed
      <2>3. Out!Disturb(some)
            BY <1>1, <1>2, <1>3, <2>1 DEF Out!Disturb, Handed, Filed
      <2> QED BY <2>2, <2>3 DEF Out!Next
<1>5. CASE NextPending(p) \/ EndPass(p)
      <2>1. disturbed' = disturbed
            BY <1>5 DEF NextPending, EndPass
      <2> QED BY <1>1, <1>2, <1>3, <2>1, OutUnmoved
<1> QED BY <1>4, <1>5

\* What a crash cuts short has its file, unless it was disturbed before.
LEMMA CrashOut ==
    ASSUME DeliveryInv, Crash
    PROVE  [Out!Next]_Out!outbox
<1> DEFINE begun == {a \in Actor : step[a] \in Working \cup {"choosing"}}
           cut   == {a \in begun : step[a] \in {"acking", "failing", "rewriting", "moving"}}
<1>1. /\ step' = [a \in Actor |-> IF a \in begun THEN "done" ELSE step[a]]
      /\ disturbed' = disturbed \cup {item[a] : a \in cut}
      /\ file' = file /\ failed' = failed
      /\ sent' = sent /\ late' = late /\ tried' = tried /\ excused' = excused
      BY DEF Crash, sendVars
<1>2. Handed' = Handed /\ Filed' = Filed
      <2>1. \A d \in Delivery : d \in Actor /\ (step'[d] = "new" <=> step[d] = "new")
            BY <1>1 DEF Actor, Working
      <2> QED BY <1>1, <2>1 DEF Handed, Filed
<1>3. \A a \in cut : item[a] \in Delivery /\ item[a] \in Filed \cup disturbed
      <2> SUFFICES ASSUME NEW a \in cut
                   PROVE  item[a] \in Delivery /\ item[a] \in Filed \cup disturbed
          OBVIOUS
      <2>1. a \in Actor /\ step[a] \in {"acking", "failing", "rewriting", "moving"}
            OBVIOUS
      <2>2. item[a] \in Delivery
            BY <2>1 DEF DeliveryInv, DeliveryTypeOK, Working
      <2>3. item[a] \notin disturbed => FileThere(item[a])
            BY <2>2 DEF DeliveryInv, Sound
      <2> QED BY <2>1, <2>2, <2>3 DEF FileThere, Filed
<1> HIDE DEF cut
<1> DEFINE some == {item[a] : a \in cut}
<1>4. some \in SUBSET Delivery /\ some \subseteq Filed \cup disturbed
      BY <1>3
<1> HIDE DEF some
<1>5. Out!Disturb(some)
      BY <1>1, <1>2, <1>4 DEF Out!Disturb, Handed, Filed, some
<1> QED BY <1>4, <1>5 DEF Out!Next

LEMMA OutboxStep ==
    ASSUME DeliveryInv, [DeliveryNext]_deliveryVars
    PROVE  [Out!Next]_Out!outbox
<1>1. ASSUME NEW a \in Actor, step[a] \in Working
      PROVE  item[a] \in Delivery
      BY <1>1 DEF DeliveryInv, DeliveryTypeOK
<1>2. ASSUME NEW a \in Actor, Send(a) \/ MirrorFails(a) \/ SendFails(a) \/ SendEnds(a)
      PROVE  [Out!Next]_Out!outbox
      <2>1. item[a] \in Delivery
            BY <1>1, <1>2 DEF Send, MirrorFails, SendFails, SendEnds, Working
      <2> QED BY <1>2, <2>1, SendOut
<1>3. ASSUME NEW a \in Actor, AckRename(a) \/ AckUnlink(a)
      PROVE  [Out!Next]_Out!outbox
      <2>1. item[a] \in Delivery
            BY <1>1, <1>3 DEF AckRename, AckUnlink, Working
      <2> QED BY <1>3, <2>1, AckOut
<1>4. ASSUME NEW a \in Actor, FailRead(a) \/ FailRename(a)
      PROVE  [Out!Next]_Out!outbox
      <2>1. item[a] \in Delivery
            BY <1>1, <1>4 DEF FailRead, FailRename, Working
      <2> QED BY <1>4, <2>1, FailOut
<1>5. ASSUME NEW a \in Actor, MoveToFailed(a)
      PROVE  [Out!Next]_Out!outbox
      <2>1. item[a] \in Delivery
            BY <1>1, <1>5 DEF MoveToFailed, Working
      <2> QED BY <1>5, <2>1, MoveOut
<1>6. ASSUME NEW a \in Actor, AckFails(a) \/ FailFails(a)
      PROVE  [Out!Next]_Out!outbox
      <2>1. item[a] \in Delivery
            BY <1>1, <1>6 DEF AckFails, FailFails, Working
      <2> QED BY <1>6, <2>1, FaultOut
<1>7. CASE UNCHANGED deliveryVars
      BY <1>7, OutUnmoved DEF deliveryVars, sendVars, Handed, Filed
<1> QED BY <1>2, <1>3, <1>4, <1>5, <1>6, <1>7, EnqueueOut, PassOut, CrashOut DEF DeliveryNext

\* The files, markers, counts and actors of the queue do what Outbox promises of
\* each delivery, whatever crashes or fails and whichever passes run beside the senders
\* (enqueueDelivery, ackDelivery, failDelivery, moveToFailed, recoverPendingDeliveries).
THEOREM OutboxImplemented == DeliverySpec => ImplementsOutbox
<1>1. DeliveryInit => Out!Init
      <2> SUFFICES ASSUME DeliveryInit PROVE Out!Init
          OBVIOUS
      <2>1. \A d \in Delivery : step[d] = "new" /\ file[d] = NoFile
            BY DEF DeliveryInit, Actor
      <2> QED BY <2>1 DEF DeliveryInit, Out!Init
<1>2. DeliveryInv /\ [DeliveryNext]_deliveryVars => [Out!Next]_Out!outbox
      BY OutboxStep
<1> QED BY <1>1, <1>2, DeliveryInductive, PTL DEF DeliverySpec, ImplementsOutbox, Out!Spec

=============================================================================
