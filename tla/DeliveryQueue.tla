--------------------------- MODULE DeliveryQueue ---------------------------
(***************************************************************************)
(* The write-ahead queue of outbound messages.  A delivery is written to   *)
(* a file before it is sent, and the file is renamed and removed when it   *)
(* has been.  Every start of the gateway's server, in a new process or in  *)
(* the same one, goes through the files there are and sends them again,    *)
(* beside whatever the process is still sending.                           *)
(***************************************************************************)
EXTENDS Naturals, FiniteSets

CONSTANTS
    Delivery,     \* what is handed to deliverOutboundPayloads, numbered as enqueued
    BestEffort,   \* the deliveries whose send does not raise
    Reported,     \* those of them whose sender passes onError
    Mirrored,     \* those that are written to the transcript of a session once sent
    Pass,         \* runs of recoverPendingDeliveries: one per start of a server
    MaxRetries,   \* MAX_RETRIES
    MaxFaults,    \* bound on the calls of the file system that fail
    NoFile,       \* there is no such file
    NoDelivery    \* an actor is not at work on a delivery

ASSUME DeliveryAssumption ==
    /\ Delivery \subseteq Nat /\ IsFiniteSet(Delivery)
    /\ Reported \subseteq BestEffort /\ BestEffort \subseteq Delivery
    /\ Mirrored \subseteq Delivery
    /\ Pass \subseteq Nat /\ IsFiniteSet(Pass) /\ Pass \cap Delivery = {}
    /\ MaxRetries \in Nat \ {0} /\ MaxFaults \in Nat
    /\ NoFile \notin Nat /\ NoDelivery \notin Delivery

\* Each delivery has its sender, under the same number.
Actor == Delivery \cup Pass

VARIABLES
    file,       \* per delivery, the retryCount in its .json file
    marker,     \* deliveries with a .delivered file
    failed,     \* deliveries with a file in failed/
    step,       \* per actor, what it does next
    item,       \* per actor, the delivery it is at work on
    noted,      \* per actor, the count it is about to write
    pending,    \* per pass, the deliveries it still has to try, with their counts
    sent,       \* history: per delivery, how often it was sent in full
    tried,      \* history: per delivery, how many sends failed or were taken to have
    late,       \* history: per delivery, how many of these had sent it in full before
    faults,     \* history: how many calls of the file system have failed
    excused,    \* history: deliveries aborted, refused for good, or never written
    disturbed   \* history: deliveries that two actors had at a time, that a crash cut
                \* short, or on whose file a call of the file system has failed

sendVars == <<sent, tried, late, excused>>
deliveryVars == <<file, marker, failed, step, item, noted, pending, sendVars, faults, disturbed>>

Working == {"sending", "acking", "unlinking", "failing", "rewriting", "moving"}
MaxTried == 1 + Cardinality(Pass)   \* each actor tries a delivery once

DeliveryTypeOK ==
    /\ file \in [Delivery -> {NoFile} \cup 0 .. MaxTried]
    /\ marker \subseteq Delivery /\ failed \subseteq Delivery
    /\ step \in [Actor -> {"new", "choosing", "done"} \cup Working]
    /\ item \in [Actor -> Delivery \cup {NoDelivery}]
    /\ noted \in [Actor -> 0 .. MaxTried]
    /\ pending \in [Pass -> SUBSET [id : Delivery, count : 0 .. MaxTried]]
    /\ sent \in [Delivery -> Nat] /\ late \in [Delivery -> Nat]
    /\ tried \in [Delivery -> 0 .. MaxTried]
    /\ faults \in 0 .. MaxFaults
    /\ excused \subseteq Delivery /\ disturbed \subseteq Delivery
    /\ \A a \in Actor : step[a] \in Working <=> item[a] # NoDelivery

DeliveryInit ==
    /\ file = [d \in Delivery |-> NoFile]
    /\ marker = {} /\ failed = {}
    /\ step = [a \in Actor |-> "new"]
    /\ item = [a \in Actor |-> NoDelivery]
    /\ noted = [a \in Actor |-> 0]
    /\ pending = [p \in Pass |-> {}]
    /\ sent = [d \in Delivery |-> 0]
    /\ tried = [d \in Delivery |-> 0]
    /\ late = [d \in Delivery |-> 0]
    /\ faults = 0
    /\ excused = {} /\ disturbed = {}

Holders(d) == {a \in Actor : step[a] \in Working /\ item[a] = d}

\* A sender that is through with its delivery returns, a pass takes the next.
Leave(a) ==
    /\ step' = [step EXCEPT ![a] = IF a \in Pass THEN "choosing" ELSE "done"]
    /\ item' = [item EXCEPT ![a] = NoDelivery]

Continue(a, next) == step' = [step EXCEPT ![a] = next] /\ UNCHANGED item

-----------------------------------------------------------------------------
(* Sending.                                                                *)

\* enqueueDelivery.  A delivery whose file cannot be written is sent without.
EnqueueDelivery(d) ==
    /\ step[d] = "new" /\ \A e \in Delivery : e < d => step[e] # "new"
    /\ \/ /\ file' = [file EXCEPT ![d] = 0]
          /\ step' = [step EXCEPT ![d] = "sending"]
          /\ item' = [item EXCEPT ![d] = d]
          /\ UNCHANGED excused
       \/ /\ step' = [step EXCEPT ![d] = "done"]
          /\ excused' = excused \cup {d}
          /\ UNCHANGED <<file, item>>
    /\ UNCHANGED <<marker, failed, noted, pending, sent, tried, late, faults, disturbed>>

\* All of it was sent.
Send(a) ==
    /\ step[a] = "sending"
    /\ sent' = [sent EXCEPT ![item[a]] = @ + 1]
    /\ Continue(a, "acking")
    /\ UNCHANGED <<file, marker, failed, noted, pending, tried, late, excused, faults, disturbed>>

\* All of it was sent, and then the transcript of its session could not be written:
\* the error is handled like one of sending.
MirrorFails(a) ==
    LET d == item[a] IN
    /\ step[a] = "sending" /\ d \in Mirrored
    /\ sent' = [sent EXCEPT ![d] = @ + 1]
    /\ tried' = [tried EXCEPT ![d] = @ + 1]
    /\ late' = [late EXCEPT ![d] = @ + 1]
    /\ Continue(a, "failing")
    /\ UNCHANGED <<file, marker, failed, noted, pending, excused, faults, disturbed>>

\* Mutant: a failure that was reported is taken for a success.
SendFailsUnnoticed(a) ==
    /\ step[a] = "sending"
    /\ Continue(a, "acking")
    /\ UNCHANGED <<file, marker, failed, noted, pending, sendVars, faults, disturbed>>

\* All or part of it could not be sent.  Where the send of a payload fails, a
\* best-effort delivery goes on and returns, and only a sender that passes onError
\* learns of it: a pass passes none.  Any other error is raised.
SendFails(a) ==
    LET d == item[a] IN
    /\ step[a] = "sending"
    /\ \/ Continue(a, "failing") /\ tried' = [tried EXCEPT ![d] = @ + 1]
       \/ /\ d \in BestEffort /\ (a \in Pass \/ d \notin Reported)
          /\ Continue(a, "acking") /\ UNCHANGED tried
    /\ UNCHANGED <<file, marker, failed, noted, pending, sent, late, excused, faults, disturbed>>

\* The sender is aborted, which a best-effort delivery ignores, or the channel
\* refuses what a pass sends for good.
SendEnds(a) ==
    /\ step[a] = "sending" /\ (a \in Pass \/ item[a] \notin BestEffort)
    /\ Continue(a, IF a \in Pass THEN "moving" ELSE "acking")
    /\ excused' = excused \cup {item[a]}
    /\ UNCHANGED <<file, marker, failed, noted, pending, sent, tried, late, faults, disturbed>>

-----------------------------------------------------------------------------
(* The files, one call of the file system at a time, any of which may fail. *)

CallFails == faults < MaxFaults /\ faults' = faults + 1
CallSucceeds == UNCHANGED faults

\* ackDelivery, first phase.  Without a file, what is left is a marker perhaps.
AckRename(a) ==
    LET d == item[a] IN
    /\ step[a] = "acking"
    /\ IF file[d] # NoFile
       THEN /\ file' = [file EXCEPT ![d] = NoFile]
            /\ marker' = marker \cup {d}
            /\ Continue(a, "unlinking")
       ELSE /\ marker' = marker \ {d}
            /\ Leave(a)
            /\ UNCHANGED file
    /\ UNCHANGED <<failed, noted, pending, sendVars, faults, disturbed>>

\* The error of the rename is nothing to a sender.  To a pass it is one of sending.
AckFails(a) ==
    LET d == item[a] IN
    /\ step[a] = "acking" /\ file[d] # NoFile /\ CallFails
    /\ IF a \in Pass
       THEN Continue(a, "failing") /\ tried' = [tried EXCEPT ![d] = @ + 1]
       ELSE Leave(a) /\ UNCHANGED tried
    /\ disturbed' = disturbed \cup {d}
    /\ UNCHANGED <<file, marker, failed, noted, pending, sent, late, excused>>

\* Second phase, best effort.
AckUnlink(a) ==
    /\ step[a] = "unlinking"
    /\ \/ CallSucceeds /\ marker' = marker \ {item[a]}
       \/ CallFails /\ UNCHANGED marker
    /\ Leave(a)
    /\ UNCHANGED <<file, failed, noted, pending, sendVars, disturbed>>

\* failDelivery: the file is read, and later replaced.  It may be gone by then.
FailRead(a) ==
    LET d == item[a] IN
    /\ step[a] = "failing"
    /\ IF file[d] # NoFile
       THEN noted' = [noted EXCEPT ![a] = file[d] + 1] /\ Continue(a, "rewriting")
       ELSE Leave(a) /\ UNCHANGED noted
    /\ UNCHANGED <<file, marker, failed, pending, sendVars, faults, disturbed>>

FailRename(a) ==
    /\ step[a] = "rewriting"
    /\ file' = [file EXCEPT ![item[a]] = noted[a]]
    /\ noted' = [noted EXCEPT ![a] = 0]
    /\ Leave(a)
    /\ UNCHANGED <<marker, failed, pending, sendVars, faults, disturbed>>

\* The file cannot be read, written or replaced.  All who call failDelivery ignore it.
FailFails(a) ==
    /\ step[a] \in {"failing", "rewriting"} /\ CallFails
    /\ noted' = [noted EXCEPT ![a] = 0]
    /\ Leave(a)
    /\ disturbed' = disturbed \cup {item[a]}
    /\ UNCHANGED <<file, marker, failed, pending, sendVars>>

\* The file is moved, if there is one.
MoveToFailed(a) ==
    LET d == item[a] IN
    /\ step[a] = "moving"
    /\ \/ /\ CallSucceeds /\ file[d] # NoFile
          /\ file' = [file EXCEPT ![d] = NoFile]
          /\ failed' = failed \cup {d}
       \/ /\ (file[d] = NoFile /\ CallSucceeds) \/ CallFails
          /\ UNCHANGED <<file, failed>>
    /\ Leave(a)
    /\ UNCHANGED <<marker, noted, pending, sendVars, disturbed>>

-----------------------------------------------------------------------------
(* Recovery.                                                               *)

\* A server starts: the markers are removed and the files are loaded, as far as that
\* succeeds.  Those of deliveries this process still has in hand are among them.
StartPass(p) ==
    LET inHand(d) == Holders(d) # {} \/ \E q \in Pass : \E e \in pending[q] : e.id = d
        there     == {d \in Delivery : file[d] # NoFile}
    IN  \E loaded \in SUBSET there :
        /\ step[p] = "new" /\ \A q \in Pass : q < p => step[q] # "new"
        /\ step' = [step EXCEPT ![p] = "choosing"]
        /\ \/ CallSucceeds /\ loaded = there /\ marker' = {}
           \/ CallFails /\ marker' \in SUBSET marker
        /\ pending' = [pending EXCEPT ![p] = {[id |-> d, count |-> file[d]] : d \in loaded}]
        /\ disturbed' = disturbed \cup {d \in loaded : inHand(d)}
        /\ UNCHANGED <<file, failed, item, noted, sendVars>>

\* Mutant: one failure later.
GivenUpLate(e) == e.count > MaxRetries

GivenUp(e) == e.count >= MaxRetries

\* The oldest delivery is given up, tried again, or put off: its time, if a send
\* of it has failed before, need not have come.
NextPending(p) ==
    \E e \in pending[p] :
        /\ step[p] = "choosing"
        /\ \A f \in pending[p] : e.id <= f.id
        /\ pending' = [pending EXCEPT ![p] = @ \ {e}]
        /\ \/ /\ step' = [step EXCEPT ![p] = IF GivenUp(e) THEN "moving" ELSE "sending"]
              /\ item' = [item EXCEPT ![p] = e.id]
           \/ /\ ~GivenUp(e) /\ e.count > 0
              /\ UNCHANGED <<step, item>>
        /\ UNCHANGED <<file, marker, failed, noted, sendVars, faults, disturbed>>

\* All have been gone through, or the time a pass may take is over.
EndPass(p) ==
    /\ step[p] = "choosing"
    /\ step' = [step EXCEPT ![p] = "done"]
    /\ pending' = [pending EXCEPT ![p] = {}]
    /\ UNCHANGED <<file, marker, failed, item, noted, sendVars, faults, disturbed>>

\* The process dies, and with it whatever it was doing.
Crash ==
    LET begun == {a \in Actor : step[a] \in Working \cup {"choosing"}}
        cut   == {a \in begun : step[a] \in {"acking", "failing", "rewriting", "moving"}}
    IN  /\ begun # {}
        /\ step' = [a \in Actor |-> IF a \in begun THEN "done" ELSE step[a]]
        /\ item' = [a \in Actor |-> NoDelivery]
        /\ noted' = [a \in Actor |-> 0]
        /\ pending' = [p \in Pass |-> {}]
        /\ disturbed' = disturbed \cup {item[a] : a \in cut}
        /\ UNCHANGED <<file, marker, failed, sendVars, faults>>

-----------------------------------------------------------------------------
DeliveryNext ==
    \/ \E d \in Delivery : EnqueueDelivery(d)
    \/ \E a \in Actor :
          \/ Send(a) \/ MirrorFails(a) \/ SendFails(a) \/ SendEnds(a)
          \/ AckRename(a) \/ AckFails(a) \/ AckUnlink(a)
          \/ FailRead(a) \/ FailRename(a) \/ FailFails(a) \/ MoveToFailed(a)
    \/ \E p \in Pass : StartPass(p) \/ NextPending(p) \/ EndPass(p)
    \/ Crash

DeliverySpec == DeliveryInit /\ [][DeliveryNext]_deliveryVars

-----------------------------------------------------------------------------
\* What was written is sent in full before its file is gone for good, or ends among
\* the failed ones: no crash, no pass beside its sender and no pass beside another
\* loses it, unless it was aborted.  A best-effort delivery has no such promise.
NoneLost ==
    \A d \in Delivery \ (BestEffort \cup excused) :
        step[d] # "new" => sent[d] > 0 \/ file[d] # NoFile \/ d \in failed

\* A delivery is sent again only after an error that came behind its send, once for
\* each, unless a pass loaded it while it was in hand, a crash came between its send
\* and the first phase of ackDelivery, or that phase failed.
DuplicatesExplained == \A d \in Delivery \ disturbed : sent[d] <= 1 + late[d]

\* What nobody disturbs is sent once.  The code does not keep this: an error of the
\* transcript (deliver.ts:764) keeps a delivery queued that has been sent.
NeverRepeated == \A d \in Delivery \ disturbed : sent[d] <= 1

\* The count in a file is the number of sends that failed, and a delivery has one
\* file, under the same conditions: otherwise a failure can be written over
\* another, and over an acknowledgement.
FilesHonest ==
    \A d \in Delivery \ disturbed :
        /\ file[d] # NoFile /\ (\A a \in Holders(d) : step[a] \notin {"failing", "rewriting"})
               => file[d] = tried[d]
        /\ Cardinality({p \in {"json", "delivered", "failed"} :
                            CASE p = "json" -> file[d] # NoFile
                              [] p = "delivered" -> d \in marker
                              [] OTHER -> d \in failed}) <= 1

\* A delivery is given up after MAX_RETRIES failures, those behind a send included,
\* neither earlier nor later (recoverPendingDeliveries), or because it was refused
\* for good.
GivesUpInTime ==
    \A d \in Delivery :
        /\ d \in failed => d \in excused \/ tried[d] >= MaxRetries
        /\ tried[d] > MaxRetries => d \in disturbed

\* What is written ahead is kept, counted and given up as it should be, wherever
\* the gateway dies and whoever recovers beside it (delivery-queue.ts).
DeliveriesKept ==
    DeliveryTypeOK /\ NoneLost /\ DuplicatesExplained /\ FilesHonest /\ GivesUpInTime

-----------------------------------------------------------------------------
\* Those who hand over deliveries see neither counts nor markers nor actors.
Out == INSTANCE Outbox WITH
    handed <- {d \in Delivery : step[d] # "new"},
    kept   <- {d \in Delivery : file[d] # NoFile}

\* The queue does what an outbox promises: what is undisturbed is sent once for each
\* error behind a send and once more, or given up in time, and nothing leaves without
\* a reason (ackDelivery, failDelivery, moveToFailed, recoverPendingDeliveries).
ImplementsOutbox == Out!Spec

\* A failure that a sender was told of keeps its delivery in the queue until a
\* send succeeds.  The code does not keep this for best-effort deliveries: a pass
\* does not hear of failures, and acknowledges them.
ReportedKept ==
    \A d \in Reported : tried[d] > 0 => sent[d] > 0 \/ file[d] # NoFile \/ d \in failed

=============================================================================
