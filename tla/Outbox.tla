------------------------------- MODULE Outbox -------------------------------
(***************************************************************************)
(* What the write-ahead queue promises to those who hand it their outbound *)
(* messages.  Each is kept until it is sent or given up.  It is sent once, *)
(* or once more for each send that is taken for a failure, and given up    *)
(* after MaxRetries failures, unless it is disturbed: then it may be sent, *)
(* fail and come back any number of times, and still does not leave        *)
(* without a reason.                                                       *)
(***************************************************************************)
EXTENDS Naturals

CONSTANTS Delivery, BestEffort, MaxRetries

VARIABLES
    handed,     \* deliveries handed over
    kept,       \* those of them the queue answers for
    failed,     \* those it has given up
    sent,       \* how often each was sent in full
    tried,      \* how often each could not be sent, or seemed so
    late,       \* how often it seemed so though it had been
    excused,    \* deliveries that need not be sent
    disturbed   \* deliveries that two actors had at a time, that a crash cut short, or
                \* whose end could not be recorded

outbox == <<handed, kept, failed, sent, tried, late, excused, disturbed>>

Init ==
    /\ handed = {} /\ kept = {} /\ failed = {}
    /\ excused = {} /\ disturbed = {}
    /\ sent = [d \in Delivery |-> 0]
    /\ tried = [d \in Delivery |-> 0]
    /\ late = [d \in Delivery |-> 0]

\* A delivery that is not disturbed has one attempt at a time, while it is kept.
Due(d) == d \in handed /\ (d \in disturbed \/ (d \in kept /\ sent[d] = late[d]))

\* It is kept, or its sender goes on without.
HandOver(d) ==
    /\ d \notin handed
    /\ handed' = handed \cup {d}
    /\ \/ /\ kept' = kept \cup {d}
          /\ UNCHANGED excused
       \/ /\ excused' = excused \cup {d}
          /\ UNCHANGED kept
    /\ UNCHANGED <<failed, sent, tried, late, disturbed>>

Deliver(d) ==
    /\ Due(d)
    /\ sent' = [sent EXCEPT ![d] = @ + 1]
    /\ UNCHANGED <<handed, kept, failed, tried, late, excused, disturbed>>

\* It is sent, and an error that comes then is counted as a failure.
DeliverLate(d) ==
    /\ Due(d)
    /\ d \in disturbed \/ tried[d] < MaxRetries
    /\ sent' = [sent EXCEPT ![d] = @ + 1]
    /\ tried' = [tried EXCEPT ![d] = @ + 1]
    /\ late' = [late EXCEPT ![d] = @ + 1]
    /\ UNCHANGED <<handed, kept, failed, excused, disturbed>>

Fail(d) ==
    /\ Due(d)
    /\ d \in disturbed \/ tried[d] < MaxRetries
    /\ tried' = [tried EXCEPT ![d] = @ + 1]
    /\ UNCHANGED <<handed, kept, failed, sent, late, excused, disturbed>>

Excuse(d) ==
    /\ Due(d)
    /\ excused' = excused \cup {d}
    /\ UNCHANGED <<handed, kept, failed, sent, tried, late, disturbed>>

\* What was sent is let go, and what need not be sent.
Release(d) ==
    /\ d \in kept
    /\ sent[d] > 0 \/ d \in BestEffort \cup excused
    /\ kept' = kept \ {d}
    /\ UNCHANGED <<handed, failed, sent, tried, late, excused, disturbed>>

GiveUp(d) ==
    /\ d \in kept /\ Due(d)
    /\ tried[d] >= MaxRetries \/ d \in excused
    /\ kept' = kept \ {d}
    /\ failed' = failed \cup {d}
    /\ UNCHANGED <<handed, sent, tried, late, excused, disturbed>>

\* A failure that is noted late brings back what was let go.
Return(d) ==
    /\ d \in disturbed
    /\ kept' = kept \cup {d}
    /\ UNCHANGED <<handed, failed, sent, tried, late, excused, disturbed>>

\* That a delivery was sent could not be recorded, and is counted as a failure.
Misjudge(d) ==
    /\ d \in kept
    /\ tried' = [tried EXCEPT ![d] = @ + 1]
    /\ disturbed' = disturbed \cup {d}
    /\ UNCHANGED <<handed, kept, failed, sent, late, excused>>

\* Only what is kept can be loaded beside its sender, be cut short by a crash, or
\* have its end unrecorded.
Disturb(some) ==
    /\ some \subseteq kept \cup disturbed
    /\ disturbed' = disturbed \cup some
    /\ UNCHANGED <<handed, kept, failed, sent, tried, late, excused>>

Next ==
    \/ \E d \in Delivery :
          \/ HandOver(d) \/ Deliver(d) \/ DeliverLate(d) \/ Fail(d) \/ Excuse(d)
          \/ Misjudge(d) \/ Release(d) \/ GiveUp(d) \/ Return(d)
    \/ \E some \in SUBSET Delivery : Disturb(some)

Spec == Init /\ [][Next]_outbox
=============================================================================
