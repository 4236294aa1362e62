--------------------------- MODULE Gateway_proofs ---------------------------
(***************************************************************************)
(* Proofs about two parts of the gateway: the wake layer of the heartbeat, *)
(* for any targets and any number of runners, and the agent and agent.wait *)
(* methods, for any dispatches under any keys.  WakeInv and AgentInv are   *)
(* inductive.                                                              *)
(***************************************************************************)
EXTENDS HeartbeatWake, AgentRuns, FiniteSetTheorems, TLAPS

\* What a batch has still to come to, and what it is at, is of what it took.
BatchesShaped ==
    \A b \in Batches : batch[b].left \subseteq batch[b].all /\ batch[b].now \in batch[b].all

\* Unless a runner was started beside a batch, there is one batch at most, and
\* running is set while there is.
BatchAlone ==
    ~overlapped => /\ \A b, c \in Batches : b = c
                   /\ Batches # {} => busy

WakeInv ==
    /\ WakeTypeOK
    /\ BatchesShaped
    /\ BatchAlone
    /\ WakesKept
    /\ NoWakeSleeps
    /\ CooldownKept

-----------------------------------------------------------------------------
SameKey(c, d) == KeyOf[c] = KeyOf[d]

\* A run, or a call told of one, has an entry unless that was dropped.
EntriesStay ==
    \A d \in Dispatch :
        /\ agentRun[d] # "none" \/ request[d] = "accepted"
        /\ entry[KeyOf[d]] = "none"
        => KeyOf[d] \in dropped

\* A call that found no entry is alone under its key, or that is on record.
UnseenExplained ==
    \A c, d \in Dispatch :
        /\ SameKey(c, d) /\ c # d
        /\ request[d] = "unseen"
        /\ request[c] = "unseen" \/ agentRun[c] # "none"
        => KeyOf[d] \in dropped \cup raced

\* The entry of a run in flight is that of a run that is still to settle.
AcceptedLives ==
    \A k \in Key : entry[k] = "accepted" =>
        \E c \in Dispatch : KeyOf[c] = k /\ agentRun[c] \in Live

\* What a run under the key has emitted or ended with.
Outcome(k) == UNION {outcomes[c] : c \in {d \in Dispatch : KeyOf[d] = k}}

\* What the maps say of a key, or are about to, was an outcome under it.
MapsReal ==
    \A k \in Key :
        /\ entry[k] \in Terminal => entry[k] \in Outcome(k)
        /\ snapshot[k] # "none" => snapshot[k] \in Outcome(k)
        /\ grace[k] => "error" \in Outcome(k)

\* A waiter's timer runs beside the error that set it, in its grace or on record.
TimersBacked ==
    \A d \in timed : grace[KeyOf[d]] \/ snapshot[KeyOf[d]] # "none"

AgentInv ==
    /\ AgentTypeOK
    /\ EntriesStay
    /\ UnseenExplained
    /\ AcceptedLives
    /\ MapsReal
    /\ TimersBacked
    /\ RunsExplained
    /\ AnswersReal
    /\ WaitersHaveRuns
    /\ NoDeafWaiter

-----------------------------------------------------------------------------
(* Wakes.                                                                  *)

BatchRow == [runner : Runner, all : SUBSET Target, left : SUBSET Target, now : Target]

\* A batch under way is told from one that is not by the wake it is at.
LEMMA RowIsBatch == \A r \in BatchRow : r # NoBatch
BY HeartbeatAssumption DEF BatchRow, NoBatch

\* The timer is set by whoever schedules, and one for a retry stays.
LEMMA Scheduled ==
    ASSUME NEW set \in {"none", "normal", "retry"}, NEW kind \in {"normal", "retry"}
    PROVE  /\ AfterSchedule(set, kind) \in {"normal", "retry"}
           /\ set = "retry" => AfterSchedule(set, kind) = "retry"
BY DEF AfterSchedule

LEMMA InitWakeInv == WakeInit => WakeInv
<1> SUFFICES ASSUME WakeInit
             PROVE  WakeInv
    OBVIOUS
<1>1. Batches = {} /\ busy = FALSE
      BY DEF WakeInit, Batches
<1>2. WakeTypeOK
      <2>1. batch \in [Batch -> {NoBatch}] /\ runners \in 0 .. MaxRunners
            BY HeartbeatAssumption DEF WakeInit
      <2> HIDE DEF NoBatch
      <2> QED BY <1>1, <2>1 DEF WakeInit, WakeTypeOK
<1>3. BatchesShaped /\ BatchAlone /\ WakesKept /\ NoWakeSleeps /\ CooldownKept
      BY <1>1 DEF WakeInit, BatchesShaped, BatchAlone, WakesKept, NoWakeSleeps, CooldownKept
<1> QED BY <1>2, <1>3 DEF WakeInv

LEMMA RequestWakeStep ==
    ASSUME WakeInv, NEW t \in Target, RequestWake(t)
    PROVE  WakeInv'
<1>1. /\ wakes' = wakes \cup {t} /\ timer' = AfterSchedule(timer, "normal")
      /\ owed' = owed \cup {t} /\ swallowed' = swallowed \ {t}
      /\ handler' = handler /\ stopped' = stopped /\ runners' = runners /\ busy' = busy
      /\ again' = again /\ batch' = batch /\ cooling' = cooling /\ overlapped' = overlapped
      BY DEF RequestWake
<1>2. Batches' = Batches
      BY <1>1 DEF Batches
<1>3. timer' \in {"normal", "retry"} /\ (timer = "retry" => timer' = "retry")
      BY <1>1, Scheduled DEF WakeInv, WakeTypeOK
<1>4. WakeTypeOK'
      BY <1>1, <1>2, <1>3 DEF WakeInv, WakeTypeOK
<1>5. BatchesShaped' /\ BatchAlone'
      BY <1>1, <1>2 DEF WakeInv, BatchesShaped, BatchAlone
<1>6. WakesKept' /\ NoWakeSleeps' /\ CooldownKept'
      BY <1>1, <1>3 DEF WakeInv, WakesKept, NoWakeSleeps, CooldownKept
<1> QED BY <1>4, <1>5, <1>6 DEF WakeInv

LEMMA StartRunnerStep ==
    ASSUME WakeInv, StartRunner
    PROVE  WakeInv'
<1>1. /\ runners < MaxRunners /\ runners' = runners + 1 /\ handler' = runners + 1
      /\ busy' = FALSE /\ again' = FALSE /\ cooling' = {}
      /\ timer' = IF wakes # {} THEN "normal" ELSE "none"
      /\ overlapped' = (overlapped \/ Batches # {})
      /\ wakes' = wakes /\ stopped' = stopped /\ batch' = batch
      /\ owed' = owed /\ swallowed' = swallowed
      BY DEF StartRunner
<1>2. Batches' = Batches
      BY <1>1 DEF Batches
<1>3. handler' \in Runner /\ runners' \in 0 .. MaxRunners
      BY <1>1, HeartbeatAssumption DEF WakeInv, WakeTypeOK, Runner
<1>4. WakeTypeOK'
      BY <1>1, <1>3 DEF WakeInv, WakeTypeOK
<1>5. BatchesShaped' /\ BatchAlone'
      BY <1>1, <1>2 DEF WakeInv, BatchesShaped, BatchAlone
<1>6. WakesKept' /\ NoWakeSleeps' /\ CooldownKept'
      BY <1>1 DEF WakeInv, WakesKept, NoWakeSleeps, CooldownKept
<1> QED BY <1>4, <1>5, <1>6 DEF WakeInv

LEMMA StopRunnerStep ==
    ASSUME WakeInv, StopRunner
    PROVE  WakeInv'
<1>1. /\ handler # NoRunner /\ stopped' = stopped \cup {handler} /\ handler' = NoRunner
      /\ wakes' = wakes /\ timer' = timer /\ runners' = runners /\ busy' = busy
      /\ again' = again /\ batch' = batch /\ owed' = owed /\ swallowed' = swallowed
      /\ cooling' = cooling /\ overlapped' = overlapped
      BY DEF StopRunner
<1>2. Batches' = Batches
      BY <1>1 DEF Batches
<1>3. WakeTypeOK'
      BY <1>1, <1>2 DEF WakeInv, WakeTypeOK
<1>4. BatchesShaped' /\ BatchAlone' /\ WakesKept' /\ NoWakeSleeps' /\ CooldownKept'
      BY <1>1, <1>2
      DEF WakeInv, BatchesShaped, BatchAlone, WakesKept, NoWakeSleeps, CooldownKept
<1> QED BY <1>3, <1>4 DEF WakeInv

\* A batch that begins, or goes on, is at a wake of those it had left.
LEMMA BeginShape ==
    ASSUME WakeTypeOK, NEW b \in Batch, NEW t \in Target,
           NEW record \in [runner : Runner, all : SUBSET Target, left : SUBSET Target,
                           now : Target \cup {NoTarget}],
           batch' = [batch EXCEPT ![b] = [record EXCEPT !.left = @ \ {t}, !.now = t]]
    PROVE  /\ batch' \in [Batch -> BatchRow \cup {NoBatch}]
           /\ batch'[b].all = record.all
           /\ batch'[b].left = record.left \ {t} /\ batch'[b].now = t
           /\ Batches' = Batches \cup {b}
           /\ \A c \in Batch \ {b} : batch'[c] = batch[c]
<1> DEFINE row == [record EXCEPT !.left = @ \ {t}, !.now = t]
<1>1. row \in BatchRow
      BY DEF BatchRow
<1>2. /\ row.all = record.all /\ row.left = record.left \ {t} /\ row.now = t
      OBVIOUS
<1>3. /\ batch' = [batch EXCEPT ![b] = row]
      /\ batch \in [Batch -> BatchRow \cup {NoBatch}]
      BY DEF WakeTypeOK, BatchRow
<1> HIDE DEF row
<1>4. /\ batch' \in [Batch -> BatchRow \cup {NoBatch}]
      /\ batch'[b] = row
      /\ \A c \in Batch \ {b} : batch'[c] = batch[c]
      BY <1>1, <1>3
<1>5. Batches' = Batches \cup {b}
      BY <1>1, <1>4, RowIsBatch DEF Batches
<1> QED BY <1>2, <1>4, <1>5

\* A batch that is over is none.
LEMMA EndShape ==
    ASSUME WakeTypeOK, NEW b \in Batch, batch' = [batch EXCEPT ![b] = NoBatch]
    PROVE  /\ batch' \in [Batch -> BatchRow \cup {NoBatch}]
           /\ Batches' = Batches \ {b}
           /\ batch'[b].left = {}
           /\ \A c \in Batch \ {b} : batch'[c] = batch[c]
<1>1. batch \in [Batch -> BatchRow \cup {NoBatch}]
      BY DEF WakeTypeOK, BatchRow
<1>2. /\ batch' \in [Batch -> BatchRow \cup {NoBatch}]
      /\ batch'[b] = NoBatch
      /\ \A c \in Batch \ {b} : batch'[c] = batch[c]
      BY <1>1
<1>3. Batches' = Batches \ {b}
      BY <1>2 DEF Batches
<1>4. NoBatch.left = {}
      BY DEF NoBatch
<1> QED BY <1>2, <1>3, <1>4

LEMMA FireStep ==
    ASSUME WakeInv, Fire
    PROVE  WakeInv'
<1>1. /\ timer # "none" /\ handler' = handler /\ stopped' = stopped /\ runners' = runners
      /\ swallowed' = swallowed /\ overlapped' = overlapped
      BY DEF Fire
<1>2. CASE busy /\ handler # NoRunner
      <2>1. /\ again' = TRUE /\ wakes' = wakes /\ timer' = timer /\ busy' = busy
            /\ batch' = batch /\ owed' = owed /\ cooling' = cooling
            BY <1>2 DEF Fire
      <2>2. Batches' = Batches
            BY <2>1 DEF Batches
      <2> QED BY <1>1, <2>1, <2>2 DEF WakeInv, WakeTypeOK, BatchesShaped, BatchAlone, WakesKept,
                                      NoWakeSleeps, CooldownKept
<1>3. CASE ~(busy /\ handler # NoRunner) /\ (handler = NoRunner \/ wakes = {})
      <2>1. /\ again' = FALSE /\ wakes' = wakes /\ timer' = "none" /\ busy' = busy
            /\ batch' = batch /\ owed' = owed /\ cooling' = {}
            BY <1>3 DEF Fire
      <2>2. Batches' = Batches
            BY <2>1 DEF Batches
      <2> QED BY <1>1, <1>3, <2>1, <2>2 DEF WakeInv, WakeTypeOK, BatchesShaped, BatchAlone,
                                            WakesKept, NoWakeSleeps, CooldownKept
<1>4. CASE ~busy /\ handler # NoRunner /\ wakes # {}
      <2>1. /\ again' = FALSE /\ wakes' = {} /\ timer' = "none" /\ busy' = TRUE /\ cooling' = {}
            BY <1>4 DEF Fire
      <2>2. PICK b \in Batch \ Batches, t \in wakes : Begin(b, Taken(wakes), t, owed)
            BY <1>4 DEF Fire
      <2>3. t \in Target /\ wakes \subseteq Target /\ handler \in Runner
            BY <1>4 DEF WakeInv, WakeTypeOK
      <2>4. batch' = [batch EXCEPT ![b] = [Taken(wakes) EXCEPT !.left = @ \ {t}, !.now = t]]
            BY <2>2 DEF Begin
      <2>5. /\ Taken(wakes) \in [runner : Runner, all : SUBSET Target, left : SUBSET Target,
                                 now : Target \cup {NoTarget}]
            /\ Taken(wakes).all = wakes /\ Taken(wakes).left = wakes
            BY <2>3 DEF Taken
      <2>6. /\ batch' \in [Batch -> BatchRow \cup {NoBatch}]
            /\ batch'[b].all = wakes /\ batch'[b].left = wakes \ {t} /\ batch'[b].now = t
            /\ Batches' = Batches \cup {b}
            /\ \A c \in Batch \ {b} : batch'[c] = batch[c]
            BY <2>3, <2>4, <2>5, BeginShape DEF WakeInv
      <2>7. owed' = owed \ {t}
            BY <2>2 DEF Begin
      <2>8. batch[b].left = {}
            BY DEF Batches, NoBatch
      <2>9. WakeTypeOK'
            BY <1>1, <2>1, <2>6, <2>7 DEF WakeInv, WakeTypeOK, BatchRow
      <2>10. BatchesShaped'
            BY <2>6 DEF WakeInv, BatchesShaped, Batches
      <2>11. BatchAlone'
            BY <1>1, <1>4, <2>1, <2>6 DEF WakeInv, BatchAlone
      <2>12. WakesKept'
            BY <1>1, <2>1, <2>6, <2>7, <2>8 DEF WakeInv, WakesKept
      <2>13. NoWakeSleeps' /\ CooldownKept'
            BY <2>1 DEF NoWakeSleeps, CooldownKept
      <2> QED BY <2>9, <2>10, <2>11, <2>12, <2>13 DEF WakeInv
<1> QED BY <1>2, <1>3, <1>4 DEF WakeInv, WakeTypeOK

\* The timer that is set when a batch ends, from the one that was.
LEMMA EndTimer ==
    ASSUME NEW b, NEW pend, NEW set \in {"none", "normal", "retry"}, EndBatch(b, pend, set)
    PROVE  /\ timer' \in {"none", "normal", "retry"}
           /\ pend # {} => timer' # "none"
           /\ set = "retry" => timer' = "retry"
BY Scheduled DEF EndBatch

LEMMA AnsweredStep ==
    ASSUME WakeInv, NEW b \in Batch, NEW mainBusy \in BOOLEAN, Answered(b, mainBusy)
    PROVE  WakeInv'
<1> DEFINE r      == batch[b]
           retry  == {t \in {r.now} : mainBusy}
           set    == IF mainBusy THEN AfterSchedule(timer, "retry") ELSE timer
           halted == r.runner \in stopped
<1>1. /\ r # NoBatch
      /\ wakes' = wakes \cup retry
      /\ cooling' = cooling \cup {t \in retry : set = "retry"}
      /\ swallowed' = swallowed \cup {t \in r.left : halted}
      /\ handler' = handler /\ stopped' = stopped /\ runners' = runners /\ again' = again
      /\ overlapped' = overlapped
      BY DEF Answered
<1>2. /\ r \in BatchRow /\ b \in Batches
      /\ r.now \in Target /\ r.left \subseteq Target /\ r.all \subseteq Target
      BY <1>1 DEF WakeInv, WakeTypeOK, BatchRow, Batches
<1>3. r.left \subseteq r.all /\ r.now \in r.all
      BY <1>2 DEF WakeInv, BatchesShaped
<1>4. /\ set \in {"none", "normal", "retry"}
      /\ timer = "retry" => set = "retry"
      /\ retry # {} => set # "none"
      /\ set = "none" => timer = "none"
      BY Scheduled DEF WakeInv, WakeTypeOK, AfterSchedule
<1>5. IF halted \/ r.left = {}
      THEN EndBatch(b, wakes \cup retry, set) /\ owed' = owed \cup retry
      ELSE /\ \E t \in r.left : Begin(b, r, t, owed \cup retry)
           /\ timer' = set
           /\ busy' = busy
      BY DEF Answered
<1>6. retry \subseteq Target
      BY <1>2
<1>7. set = "retry" \/ cooling' = {}
      BY <1>1, <1>4 DEF WakeInv, CooldownKept
<1>8. CASE halted \/ r.left = {}
      <2>1. EndBatch(b, wakes \cup retry, set) /\ owed' = owed \cup retry
            BY <1>5, <1>8
      <2>2. {t \in r.left : halted} = r.left
            BY <1>8
      <2> HIDE DEF r, retry, set, halted
      <2>3. /\ timer' \in {"none", "normal", "retry"}
            /\ wakes \cup retry # {} => timer' # "none"
            /\ set = "retry" => timer' = "retry"
            BY <1>4, <2>1, EndTimer
      <2>4. batch' = [batch EXCEPT ![b] = NoBatch] /\ busy' = FALSE
            BY <2>1 DEF EndBatch
      <2>5. /\ batch' \in [Batch -> BatchRow \cup {NoBatch}]
            /\ Batches' = Batches \ {b}
            /\ batch'[b].left = {}
            /\ \A c \in Batch \ {b} : batch'[c] = batch[c]
            BY <2>4, EndShape DEF WakeInv
      <2>6. WakeTypeOK'
            BY <1>1, <1>2, <1>6, <2>1, <2>2, <2>3, <2>4, <2>5 DEF WakeInv, WakeTypeOK, BatchRow
      <2>7. BatchesShaped'
            BY <2>5 DEF WakeInv, BatchesShaped, Batches
      <2>8. BatchAlone'
            BY <1>1, <1>2, <2>5 DEF WakeInv, BatchAlone
      <2>9. WakesKept'
            <3> SUFFICES ASSUME NEW t \in owed \cup retry
                         PROVE  t \in wakes \cup retry \cup swallowed'
                                      \cup UNION {batch'[c].left : c \in Batch}
                BY <1>1, <2>1 DEF WakesKept
            <3>1. CASE t \in r.left
                  BY <1>1, <2>2, <3>1
            <3>2. CASE t \notin r.left
                  BY <1>1, <2>5, <3>2 DEF WakeInv, WakesKept, r
            <3> QED BY <3>1, <3>2
      <2>10. NoWakeSleeps' /\ CooldownKept'
            BY <1>1, <1>7, <2>3 DEF NoWakeSleeps, CooldownKept
      <2> QED BY <2>6, <2>7, <2>8, <2>9, <2>10 DEF WakeInv
<1>9. CASE ~(halted \/ r.left = {})
      <2>1. PICK t \in r.left : Begin(b, r, t, owed \cup retry)
            BY <1>5, <1>9
      <2>2. timer' = set /\ busy' = busy /\ swallowed' = swallowed
            BY <1>1, <1>5, <1>9
      <2>3. /\ batch' = [batch EXCEPT ![b] = [r EXCEPT !.left = @ \ {t}, !.now = t]]
            /\ owed' = (owed \cup retry) \ {t}
            BY <2>1 DEF Begin
      <2>4. r \in [runner : Runner, all : SUBSET Target, left : SUBSET Target,
                   now : Target \cup {NoTarget}]
            BY <1>2 DEF BatchRow
      <2> HIDE DEF r, retry, set, halted
      <2>5. /\ batch' \in [Batch -> BatchRow \cup {NoBatch}]
            /\ batch'[b].all = r.all /\ batch'[b].left = r.left \ {t} /\ batch'[b].now = t
            /\ Batches' = Batches \cup {b}
            /\ \A c \in Batch \ {b} : batch'[c] = batch[c]
            <3>1. t \in Target
                  BY <1>2, <2>1
            <3> QED BY <1>2, <2>3, <2>4, <3>1, BeginShape DEF WakeInv
      <2>6. Batches' = Batches
            BY <1>2, <2>5
      <2>7. WakeTypeOK'
            BY <1>1, <1>4, <1>6, <2>2, <2>3, <2>5, <2>6 DEF WakeInv, WakeTypeOK, BatchRow
      <2>8. BatchesShaped'
            <3> SUFFICES ASSUME NEW c \in Batches
                         PROVE  batch'[c].left \subseteq batch'[c].all /\ batch'[c].now \in batch'[c].all
                BY <2>6 DEF BatchesShaped
            <3>1. CASE c = b
                  BY <1>3, <2>1, <2>5, <3>1
            <3>2. CASE c # b
                  BY <2>5, <3>2 DEF WakeInv, BatchesShaped, Batches
            <3> QED BY <3>1, <3>2
      <2>9. BatchAlone'
            BY <1>1, <2>2, <2>6 DEF WakeInv, BatchAlone
      <2>10. WakesKept'
            <3> SUFFICES ASSUME NEW u \in (owed \cup retry) \ {t}
                         PROVE  u \in wakes \cup retry \cup swallowed
                                      \cup UNION {batch'[c].left : c \in Batch}
                BY <1>1, <2>2, <2>3 DEF WakesKept
            <3>1. CASE u \in r.left
                  BY <2>5, <3>1
            <3>2. CASE u \notin r.left
                  BY <2>5, <3>2 DEF WakeInv, WakesKept, r
            <3> QED BY <3>1, <3>2
      <2>11. NoWakeSleeps' /\ CooldownKept'
            BY <1>1, <1>2, <1>7, <2>2, <2>6 DEF NoWakeSleeps, CooldownKept
      <2> QED BY <2>7, <2>8, <2>9, <2>10, <2>11 DEF WakeInv
<1> QED BY <1>8, <1>9

LEMMA RaisedStep ==
    ASSUME WakeInv, NEW b \in Batch, Raised(b)
    PROVE  WakeInv'
<1> DEFINE r   == batch[b]
           set == AfterSchedule(timer, "retry")
<1>1. /\ r # NoBatch
      /\ wakes' = wakes \cup r.all /\ owed' = owed \cup r.all
      /\ cooling' = cooling \cup {t \in r.all : set = "retry"}
      /\ EndBatch(b, wakes \cup r.all, set)
      /\ handler' = handler /\ stopped' = stopped /\ runners' = runners /\ again' = again
      /\ swallowed' = swallowed /\ overlapped' = overlapped
      BY DEF Raised
<1>2. r \in BatchRow /\ b \in Batches /\ r.all \subseteq Target /\ r.left \subseteq r.all
      BY <1>1 DEF WakeInv, WakeTypeOK, BatchRow, Batches, BatchesShaped
<1>3. set \in {"normal", "retry"} /\ (timer = "retry" => set = "retry")
      BY Scheduled DEF WakeInv, WakeTypeOK
<1> HIDE DEF set
<1>4. set = "retry" \/ cooling' = {}
      BY <1>1, <1>3 DEF WakeInv, CooldownKept
<1>5. /\ timer' \in {"none", "normal", "retry"}
      /\ wakes \cup r.all # {} => timer' # "none"
      /\ set = "retry" => timer' = "retry"
      BY <1>1, <1>3, EndTimer
<1>6. batch' = [batch EXCEPT ![b] = NoBatch] /\ busy' = FALSE
      BY <1>1 DEF EndBatch
<1>7. /\ batch' \in [Batch -> BatchRow \cup {NoBatch}]
      /\ Batches' = Batches \ {b}
      /\ batch'[b].left = {}
      /\ \A c \in Batch \ {b} : batch'[c] = batch[c]
      BY <1>6, EndShape DEF WakeInv
<1>8. WakeTypeOK'
      BY <1>1, <1>2, <1>5, <1>6, <1>7 DEF WakeInv, WakeTypeOK, BatchRow
<1>9. BatchesShaped'
      BY <1>7 DEF WakeInv, BatchesShaped, Batches
<1>10. BatchAlone'
      BY <1>1, <1>2, <1>7 DEF WakeInv, BatchAlone
<1>11. WakesKept'
      <2> SUFFICES ASSUME NEW t \in owed \cup r.all
                   PROVE  t \in wakes \cup r.all \cup swallowed
                                \cup UNION {batch'[c].left : c \in Batch}
          BY <1>1 DEF WakesKept
      <2>1. CASE t \in r.left
            BY <1>2, <2>1
      <2>2. CASE t \notin r.left
            BY <1>7, <2>2 DEF WakeInv, WakesKept
      <2> QED BY <2>1, <2>2
<1>12. NoWakeSleeps' /\ CooldownKept'
      BY <1>1, <1>4, <1>5 DEF NoWakeSleeps, CooldownKept
<1> QED BY <1>8, <1>9, <1>10, <1>11, <1>12 DEF WakeInv

LEMMA NextWakeInv == WakeInv /\ [WakeNext]_wakeVars => WakeInv'
<1> SUFFICES ASSUME WakeInv, [WakeNext]_wakeVars
             PROVE  WakeInv'
    OBVIOUS
<1>1. CASE UNCHANGED wakeVars
      BY <1>1 DEF wakeVars, WakeInv, WakeTypeOK, BatchesShaped, BatchAlone, Batches, WakesKept,
                  NoWakeSleeps, CooldownKept
<1>2. CASE WakeNext
      BY <1>2, RequestWakeStep, StartRunnerStep, StopRunnerStep, FireStep, RaisedStep,
         AnsweredStep DEF WakeNext
<1> QED BY <1>1, <1>2

\* WakeInv holds in every state of every instance.
THEOREM WakeInductive == WakeSpec => []WakeInv
<1> QED BY InitWakeInv, NextWakeInv, PTL DEF WakeSpec

\* A wake that is owed is pending, left to a batch, or was brought to a runner that
\* was stopped; and what is pending beside a handler has a timer or a batch that
\* will set one (schedule, requestHeartbeatNow).
THEOREM WakesAreHeld == WakeSpec => []WakesHeld
<1>1. WakeInv => WakesHeld
      BY DEF WakeInv, WakesHeld
<1> QED BY <1>1, WakeInductive, PTL

\* Batches come one at a time unless a runner was started beside one, and a retry
\* is not brought forward (schedule).
THEOREM BatchesComeApart == WakeSpec => []BatchesApart
<1>1. WakeInv => BatchesApart
      <2> SUFFICES ASSUME WakeInv, ~overlapped
                   PROVE  ~(Cardinality(Batches) > 1)
          BY DEF BatchesApart, OneBatch, WakeInv
      <2>1. CASE Batches = {}
            BY <2>1, FS_EmptySet
      <2>2. CASE Batches # {}
            <3>1. PICK b \in Batches : TRUE
                  BY <2>2
            <3>2. Batches = {b}
                  BY <3>1 DEF WakeInv, BatchAlone
            <3> QED BY <3>2, FS_Singleton
      <2> QED BY <2>1, <2>2
<1> QED BY <1>1, WakeInductive, PTL

-----------------------------------------------------------------------------
(* Agent runs.                                                             *)

LEMMA KeyTyped == \A d \in Dispatch : KeyOf[d] \in Key
BY KeyAssumption

\* What runs have ended with is not forgotten.
LEMMA OutcomesGrow ==
    ASSUME AgentTypeOK, \A d \in Dispatch : outcomes[d] \subseteq outcomes'[d]
    PROVE  \A k \in Key : Outcome(k) \subseteq Outcome(k)'
BY DEF Outcome

\* The answers of callers are among the outcomes under their keys.
LEMMA AnswersAreOutcomes ==
    AnswersReal <=> \A d \in Dispatch : request[d] \in Terminal => request[d] \in Outcome(KeyOf[d])
BY DEF AnswersReal, Outcome

LEMMA InitAgentInv == AgentInit => AgentInv
<1> SUFFICES ASSUME AgentInit
             PROVE  AgentInv
    OBVIOUS
<1>1. /\ \A d \in Dispatch : request[d] = "idle" /\ agentRun[d] = "none"
      /\ \A k \in Key : entry[k] = "none" /\ snapshot[k] = "none" /\ grace[k] = FALSE
      /\ timed = {}
      BY DEF AgentInit
<1>2. AgentTypeOK
      BY DEF AgentInit, AgentTypeOK, Terminal, Told, Live
<1>3. EntriesStay /\ UnseenExplained /\ AcceptedLives /\ MapsReal /\ TimersBacked
      BY <1>1, KeyTyped
      DEF EntriesStay, UnseenExplained, AcceptedLives, MapsReal, TimersBacked, Terminal
<1>4. RunsExplained /\ AnswersReal /\ WaitersHaveRuns /\ NoDeafWaiter
      BY <1>1 DEF RunsExplained, AnswersReal, WaitersHaveRuns, NoDeafWaiter, Terminal
<1> QED BY <1>2, <1>3, <1>4 DEF AgentInv

LEMMA LookUpKeyStep ==
    ASSUME AgentInv, NEW d \in Dispatch, LookUpKey(d)
    PROVE  AgentInv'
<1> DEFINE k   == KeyOf[d]
           new == CASE entry[k] = "none" -> "unseen"
                    [] entry[k] = "error" -> "error"
                    [] OTHER -> "accepted"
<1>1. /\ request[d] = "idle" /\ request' = [request EXCEPT ![d] = new]
      /\ raced' = raced \cup {i \in {k} : entry[i] = "none" /\
                                 \E c \in Dispatch : KeyOf[c] = i /\ request[c] = "unseen"}
      /\ entry' = entry /\ snapshot' = snapshot /\ grace' = grace /\ timed' = timed
      /\ agentRun' = agentRun /\ outcomes' = outcomes /\ dropped' = dropped
      BY DEF LookUpKey, Goto
<1>2. /\ k \in Key
      /\ entry[k] = "none" => new = "unseen"
      /\ entry[k] = "error" => new = "error"
      /\ entry[k] \notin {"none", "error"} => new = "accepted"
      BY KeyTyped
<1> HIDE DEF new
<1>3. /\ request'[d] = new
      /\ \A c \in Dispatch \ {d} : request'[c] = request[c]
      /\ raced \subseteq raced' /\ raced' \subseteq raced \cup {k}
      BY <1>1 DEF AgentInv, AgentTypeOK
<1>4. AgentTypeOK'
      BY <1>1, <1>2, <1>3 DEF AgentInv, AgentTypeOK, Told, Terminal
<1>5. EntriesStay'
      BY <1>1, <1>2, <1>3 DEF AgentInv, EntriesStay
<1>6. UnseenExplained'
      <2> SUFFICES ASSUME NEW c \in Dispatch, NEW e \in Dispatch, SameKey(c, e), c # e,
                          request'[e] = "unseen",
                          request'[c] = "unseen" \/ agentRun[c] # "none"
                   PROVE  KeyOf[e] \in dropped \cup raced'
          BY <1>1 DEF UnseenExplained, SameKey
      <2>1. CASE e = d
            <3>1. entry[k] = "none" /\ KeyOf[c] = k /\ request'[c] = request[c]
                  BY <1>2, <1>3, <2>1 DEF SameKey
            <3> QED BY <1>1, <2>1, <3>1 DEF AgentInv, EntriesStay
      <2>2. CASE c = d /\ request'[d] = "unseen"
            <3>1. entry[k] = "none" /\ KeyOf[e] = k /\ request[e] = "unseen"
                  BY <1>2, <1>3, <2>2 DEF SameKey
            <3> QED BY <1>1, <3>1
      <2>3. CASE e # d /\ ~(c = d /\ request'[d] = "unseen")
            BY <1>3, <2>3 DEF AgentInv, UnseenExplained
      <2> QED BY <2>1, <2>2, <2>3
<1>7. AcceptedLives' /\ MapsReal' /\ TimersBacked'
      BY <1>1 DEF AgentInv, AcceptedLives, MapsReal, TimersBacked, Outcome
<1>8. RunsExplained'
      BY <1>1, <1>3 DEF AgentInv, RunsExplained
<1>9. AnswersReal'
      <2>1. new = "error" => new \in Outcome(k)
            BY <1>2 DEF AgentInv, AgentTypeOK, MapsReal, Terminal
      <2> QED BY <1>1, <1>2, <1>3, <2>1 DEF AgentInv, AnswersReal, Outcome, Terminal
<1>10. WaitersHaveRuns' /\ NoDeafWaiter'
      BY <1>1, <1>2, <1>3 DEF AgentInv, WaitersHaveRuns, NoDeafWaiter
<1> QED BY <1>4, <1>5, <1>6, <1>7, <1>8, <1>9, <1>10 DEF AgentInv

LEMMA AcceptRunStep ==
    ASSUME AgentInv, NEW d \in Dispatch, AcceptRun(d)
    PROVE  AgentInv'
<1> DEFINE k == KeyOf[d]
<1>1. /\ request[d] = "unseen" /\ request' = [request EXCEPT ![d] = "accepted"]
      /\ entry' = [entry EXCEPT ![k] = "accepted"]
      /\ agentRun' = [agentRun EXCEPT ![d] = "queued"]
      /\ raced' = raced /\ snapshot' = snapshot /\ grace' = grace /\ timed' = timed
      /\ outcomes' = outcomes /\ dropped' = dropped
      BY DEF AcceptRun, Goto
<1>2. /\ k \in Key /\ entry'[k] = "accepted" /\ agentRun'[d] = "queued"
      /\ request'[d] = "accepted"
      /\ \A c \in Dispatch \ {d} : request'[c] = request[c] /\ agentRun'[c] = agentRun[c]
      /\ \A j \in Key \ {k} : entry'[j] = entry[j]
      BY <1>1, KeyTyped DEF AgentInv, AgentTypeOK
<1>3. AgentTypeOK'
      BY <1>1, <1>2 DEF AgentInv, AgentTypeOK, Live
<1>4. EntriesStay'
      BY <1>1, <1>2, KeyTyped DEF AgentInv, EntriesStay
<1>5. UnseenExplained'
      BY <1>1, <1>2 DEF AgentInv, UnseenExplained, SameKey
<1>6. AcceptedLives'
      BY <1>1, <1>2 DEF AgentInv, AcceptedLives, Live
<1>7. MapsReal' /\ TimersBacked'
      BY <1>1, <1>2 DEF AgentInv, MapsReal, TimersBacked, Outcome, Terminal
<1>8. RunsExplained'
      BY <1>1, <1>2 DEF AgentInv, RunsExplained, UnseenExplained, SameKey
<1>9. AnswersReal'
      BY <1>1, <1>2 DEF AgentInv, AnswersReal, Terminal
<1>10. WaitersHaveRuns'
      BY <1>1, <1>2 DEF AgentInv, WaitersHaveRuns, Live
<1>11. NoDeafWaiter'
      BY <1>1, <1>2, KeyTyped DEF AgentInv, NoDeafWaiter, Terminal
<1> QED BY <1>3, <1>4, <1>5, <1>6, <1>7, <1>8, <1>9, <1>10, <1>11 DEF AgentInv

\* Those who are told a status have it, and no timer.
LEMMA ToldStatus ==
    ASSUME AgentTypeOK, NEW told \in SUBSET Dispatch, NEW status, Tell(told, status)
    PROVE  /\ \A d \in told : request'[d] = status
           /\ \A d \in Dispatch \ told : request'[d] = request[d]
           /\ timed' = timed \ told
           /\ status \in Told =>
                 /\ request' \in [Dispatch -> {"idle", "unseen", "accepted", "waiting"} \cup Told]
                 /\ timed' \subseteq {d \in Dispatch : request'[d] = "waiting"}
<1>1. /\ request' = [d \in Dispatch |-> IF d \in told THEN status ELSE request[d]]
      /\ timed' = timed \ told
      BY DEF Tell
<1>2. /\ request \in [Dispatch -> {"idle", "unseen", "accepted", "waiting"} \cup Told]
      /\ timed \subseteq {d \in Dispatch : request[d] = "waiting"}
      BY DEF AgentTypeOK
<1> QED BY <1>1, <1>2

LEMMA OneToldStatus ==
    ASSUME AgentTypeOK, NEW d \in Dispatch, NEW status \in Told, Tell({d}, status)
    PROVE  /\ request'[d] = status
           /\ \A c \in Dispatch \ {d} : request'[c] = request[c]
           /\ timed' = timed \ {d}
           /\ request' \in [Dispatch -> {"idle", "unseen", "accepted", "waiting"} \cup Told]
           /\ timed' \subseteq {c \in Dispatch : request'[c] = "waiting"}
<1> DEFINE told == {d}
<1>1. told \in SUBSET Dispatch /\ d \in told /\ Tell(told, status)
      OBVIOUS
<1>2. /\ \A c \in told : request'[c] = status
      /\ \A c \in Dispatch \ told : request'[c] = request[c]
      /\ timed' = timed \ told
      /\ request' \in [Dispatch -> {"idle", "unseen", "accepted", "waiting"} \cup Told]
      /\ timed' \subseteq {c \in Dispatch : request'[c] = "waiting"}
      <2> HIDE DEF told
      <2> QED BY <1>1, ToldStatus
<1> QED BY <1>1, <1>2

\* When calls are told a status that was an outcome, and nothing else happens.
LEMMA TellStep ==
    ASSUME AgentInv, NEW k \in Key, NEW status \in Told,
           NEW told \in SUBSET {d \in Dispatch : KeyOf[d] = k},
           status \in Terminal => status \in Outcome(k),
           Tell(told, status),
           UNCHANGED <<entry, snapshot, grace, agentRun, outcomes, dropped, raced>>
    PROVE  AgentInv'
<1>1. /\ entry' = entry /\ snapshot' = snapshot /\ grace' = grace /\ agentRun' = agentRun
      /\ outcomes' = outcomes /\ dropped' = dropped /\ raced' = raced
      OBVIOUS
<1>2. told \subseteq Dispatch /\ \A d \in told : KeyOf[d] = k
      OBVIOUS
<1>3. /\ \A d \in told : request'[d] = status
      /\ \A d \in Dispatch \ told : request'[d] = request[d]
      /\ timed' = timed \ told
      /\ request' \in [Dispatch -> {"idle", "unseen", "accepted", "waiting"} \cup Told]
      /\ timed' \subseteq {d \in Dispatch : request'[d] = "waiting"}
      BY <1>2, ToldStatus DEF AgentInv
<1>4. status \notin {"idle", "unseen", "accepted", "waiting"}
      BY DEF Told, Terminal
<1>5. \A d \in Dispatch : request'[d] \in {"unseen", "accepted", "waiting"} =>
          d \notin told /\ request'[d] = request[d]
      BY <1>3, <1>4
<1>6. AgentTypeOK'
      BY <1>1, <1>3 DEF AgentInv, AgentTypeOK
<1>7. EntriesStay' /\ UnseenExplained' /\ AcceptedLives' /\ RunsExplained'
      BY <1>1, <1>5 DEF AgentInv, EntriesStay, UnseenExplained, AcceptedLives, RunsExplained
<1>8. MapsReal' /\ TimersBacked'
      BY <1>1, <1>3 DEF AgentInv, MapsReal, TimersBacked, Outcome
<1>9. AnswersReal'
      BY <1>1, <1>2, <1>3, AnswersAreOutcomes DEF AgentInv, AnswersReal, Outcome
<1>10. WaitersHaveRuns' /\ NoDeafWaiter'
      BY <1>1, <1>3, <1>5 DEF AgentInv, WaitersHaveRuns, NoDeafWaiter
<1> QED BY <1>6, <1>7, <1>8, <1>9, <1>10 DEF AgentInv

LEMMA BeginWaitStep ==
    ASSUME AgentInv, NEW d \in Dispatch, BeginWait(d)
    PROVE  AgentInv'
<1> DEFINE k == KeyOf[d]
<1>1. /\ request[d] = "accepted" /\ k \in Key
      /\ entry' = entry /\ snapshot' = snapshot /\ grace' = grace /\ agentRun' = agentRun
      /\ outcomes' = outcomes /\ dropped' = dropped /\ raced' = raced
      BY KeyTyped DEF BeginWait
<1>2. CASE Stored(k) # "none"
      <2>1. Stored(k) \in Terminal /\ Stored(k) \in Told /\ Stored(k) \in Outcome(k)
            BY <1>1, <1>2 DEF Stored, AgentInv, AgentTypeOK, MapsReal, Told
      <2>2. Tell({d}, Stored(k))
            BY <1>2 DEF BeginWait
      <2> QED BY <1>1, <2>1, <2>2, TellStep
<1>3. CASE Stored(k) = "none"
      <2>1. /\ request' = [request EXCEPT ![d] = "waiting"]
            /\ timed' = timed \cup {w \in {d} : grace[k]}
            BY <1>3 DEF BeginWait, Goto
      <2>2. /\ request'[d] = "waiting"
            /\ \A c \in Dispatch \ {d} : request'[c] = request[c]
            BY <2>1 DEF AgentInv, AgentTypeOK
      <2>3. entry[k] \notin Terminal /\ snapshot[k] = "none"
            BY <1>3 DEF Stored, Terminal
      <2>4. AgentTypeOK'
            BY <1>1, <2>1, <2>2 DEF AgentInv, AgentTypeOK
      <2>5. EntriesStay' /\ UnseenExplained' /\ AcceptedLives' /\ RunsExplained'
            BY <1>1, <2>2 DEF AgentInv, EntriesStay, UnseenExplained, AcceptedLives, RunsExplained
      <2>6. MapsReal' /\ TimersBacked'
            BY <1>1, <2>1 DEF AgentInv, MapsReal, TimersBacked, Outcome
      <2>7. AnswersReal'
            BY <1>1, <2>2 DEF AgentInv, AnswersReal, Terminal
      <2>8. WaitersHaveRuns'
            <3>1. entry[k] \in {"none", "accepted"}
                  BY <1>1, <2>3 DEF AgentInv, AgentTypeOK, Terminal
            <3>2. k \in dropped \/ \E c \in Dispatch : KeyOf[c] = k /\ agentRun[c] \in Live
                  BY <1>1, <3>1 DEF AgentInv, EntriesStay, AcceptedLives
            <3> QED BY <1>1, <2>1, <2>2, <3>2 DEF AgentInv, WaitersHaveRuns
      <2>9. NoDeafWaiter'
            BY <1>1, <2>1, <2>2, <2>3 DEF AgentInv, NoDeafWaiter
      <2> QED BY <2>4, <2>5, <2>6, <2>7, <2>8, <2>9 DEF AgentInv
<1> QED BY <1>2, <1>3

LEMMA WaitExpiresStep ==
    ASSUME AgentInv, NEW d \in Dispatch, WaitExpires(d)
    PROVE  AgentInv'
<1>1. "expired" \in Told /\ "expired" \notin Terminal
      BY DEF Told, Terminal
<1> QED BY <1>1, TellStep, KeyTyped DEF WaitExpires

LEMMA WaitErrorDueStep ==
    ASSUME AgentInv, NEW d \in Dispatch, WaitErrorDue(d)
    PROVE  AgentInv'
<1> DEFINE k   == KeyOf[d]
           new == IF snapshot[k] = "none" THEN "error" ELSE snapshot[k]
<1>1. /\ d \in timed /\ request[d] = "waiting" /\ k \in Key
      /\ snapshot' = [snapshot EXCEPT ![k] = new]
      /\ Tell({d}, snapshot'[k])
      /\ entry' = entry /\ grace' = grace /\ agentRun' = agentRun
      /\ outcomes' = outcomes /\ dropped' = dropped /\ raced' = raced
      BY KeyTyped DEF WaitErrorDue, AgentInv, AgentTypeOK
<1>2. new \in Terminal /\ new \in Told /\ new \in Outcome(k)
      BY <1>1 DEF AgentInv, AgentTypeOK, TimersBacked, MapsReal, Terminal, Told
<1> HIDE DEF new
<1>3. snapshot'[k] = new /\ \A j \in Key \ {k} : snapshot'[j] = snapshot[j]
      BY <1>1 DEF AgentInv, AgentTypeOK
<1>4. /\ request'[d] = new
      /\ \A c \in Dispatch \ {d} : request'[c] = request[c]
      /\ timed' = timed \ {d}
      /\ request' \in [Dispatch -> {"idle", "unseen", "accepted", "waiting"} \cup Told]
      /\ timed' \subseteq {c \in Dispatch : request'[c] = "waiting"}
      BY <1>1, <1>2, <1>3, OneToldStatus DEF AgentInv
<1>5. \A c \in Dispatch : request'[c] \in {"unseen", "accepted", "waiting"} =>
          c # d /\ request'[c] = request[c]
      BY <1>2, <1>4 DEF Terminal
<1>6. AgentTypeOK'
      BY <1>1, <1>2, <1>3, <1>4 DEF AgentInv, AgentTypeOK
<1>7. EntriesStay' /\ UnseenExplained' /\ AcceptedLives' /\ RunsExplained'
      BY <1>1, <1>5 DEF AgentInv, EntriesStay, UnseenExplained, AcceptedLives, RunsExplained
<1>8. MapsReal'
      BY <1>1, <1>2, <1>3 DEF AgentInv, MapsReal, Outcome
<1>9. TimersBacked'
      BY <1>1, <1>2, <1>3, <1>4, KeyTyped
      DEF AgentInv, AgentTypeOK, TimersBacked, Terminal
<1>10. AnswersReal'
      BY <1>1, <1>2, <1>4 DEF AgentInv, AnswersReal, Outcome
<1>11. WaitersHaveRuns'
      BY <1>1, <1>4, <1>5 DEF AgentInv, WaitersHaveRuns
<1>12. NoDeafWaiter'
      <2> SUFFICES ASSUME NEW c \in Dispatch, request'[c] = "waiting"
                   PROVE  /\ entry[KeyOf[c]] \notin Terminal
                          /\ snapshot'[KeyOf[c]] # "none" \/ grace[KeyOf[c]] => c \in timed'
          BY <1>1 DEF NoDeafWaiter
      <2>1. c # d /\ request[c] = "waiting"
            BY <1>5
      <2>2. CASE KeyOf[c] = k
            <3>1. c \in timed
                  BY <1>1, <2>1, <2>2 DEF AgentInv, TimersBacked, NoDeafWaiter
            <3> QED BY <1>4, <2>1, <3>1 DEF AgentInv, NoDeafWaiter
      <2>3. CASE KeyOf[c] # k
            BY <1>3, <1>4, <2>1, <2>3, KeyTyped DEF AgentInv, NoDeafWaiter
      <2> QED BY <2>2, <2>3
<1> QED BY <1>6, <1>7, <1>8, <1>9, <1>10, <1>11, <1>12 DEF AgentInv

LEMMA StartAttemptStep ==
    ASSUME AgentInv, NEW d \in Dispatch, StartAttempt(d)
    PROVE  AgentInv'
<1> DEFINE k == KeyOf[d]
<1>1. /\ agentRun[d] \in {"queued", "paused"} /\ k \in Key
      /\ agentRun' = [agentRun EXCEPT ![d] = "active"]
      /\ grace' = [grace EXCEPT ![k] = FALSE]
      /\ snapshot' = [snapshot EXCEPT ![k] = "none"]
      /\ timed' = timed \ Waiters(k)
      /\ entry' = entry /\ request' = request /\ outcomes' = outcomes
      /\ dropped' = dropped /\ raced' = raced
      BY KeyTyped DEF StartAttempt, SetRun
<1>2. /\ agentRun'[d] = "active" /\ \A c \in Dispatch \ {d} : agentRun'[c] = agentRun[c]
      /\ grace'[k] = FALSE /\ \A j \in Key \ {k} : grace'[j] = grace[j]
      /\ snapshot'[k] = "none" /\ \A j \in Key \ {k} : snapshot'[j] = snapshot[j]
      BY <1>1 DEF AgentInv, AgentTypeOK
<1>3. \A c \in Dispatch : /\ agentRun'[c] # "none" <=> agentRun[c] # "none"
                          /\ agentRun[c] \in Live <=> agentRun'[c] \in Live
      BY <1>1, <1>2 DEF Live
<1>4. AgentTypeOK'
      BY <1>1 DEF AgentInv, AgentTypeOK, Live
<1>5. EntriesStay' /\ UnseenExplained' /\ AcceptedLives' /\ RunsExplained'
      BY <1>1, <1>3 DEF AgentInv, EntriesStay, UnseenExplained, AcceptedLives, RunsExplained
<1>6. MapsReal'
      BY <1>1, <1>2 DEF AgentInv, MapsReal, Outcome
<1>7. TimersBacked'
      BY <1>1, <1>2, KeyTyped DEF AgentInv, AgentTypeOK, TimersBacked, Waiters
<1>8. AnswersReal'
      BY <1>1 DEF AgentInv, AnswersReal
<1>9. WaitersHaveRuns'
      BY <1>1, <1>2, <1>3 DEF AgentInv, WaitersHaveRuns, Waiters, Live
<1>10. NoDeafWaiter'
      BY <1>1, <1>2, KeyTyped DEF AgentInv, NoDeafWaiter, Waiters
<1> QED BY <1>4, <1>5, <1>6, <1>7, <1>8, <1>9, <1>10 DEF AgentInv

LEMMA EndAttemptStep ==
    ASSUME AgentInv, NEW d \in Dispatch, NEW o \in {"ok", "timeout"}, EndAttempt(d, o)
    PROVE  AgentInv'
<1> DEFINE k == KeyOf[d]
<1>1. /\ agentRun[d] \in {"queued", "active"} /\ k \in Key
      /\ agentRun' = [agentRun EXCEPT ![d] = "paused"]
      /\ grace' = [grace EXCEPT ![k] = FALSE]
      /\ snapshot' = [snapshot EXCEPT ![k] = o]
      /\ outcomes' = [outcomes EXCEPT ![d] = @ \cup {o}]
      /\ Tell(Waiters(k), o)
      /\ entry' = entry /\ dropped' = dropped /\ raced' = raced
      BY KeyTyped DEF EndAttempt, SetRun, Emitted
<1>2. /\ agentRun'[d] = "paused" /\ \A c \in Dispatch \ {d} : agentRun'[c] = agentRun[c]
      /\ grace'[k] = FALSE /\ \A j \in Key \ {k} : grace'[j] = grace[j]
      /\ snapshot'[k] = o /\ \A j \in Key \ {k} : snapshot'[j] = snapshot[j]
      /\ \A c \in Dispatch : outcomes[c] \subseteq outcomes'[c]
      /\ o \in outcomes'[d] /\ o \in Terminal /\ o \in Told
      BY <1>1 DEF AgentInv, AgentTypeOK, Terminal, Told
<1>3. \A c \in Dispatch : /\ agentRun'[c] # "none" <=> agentRun[c] # "none"
                          /\ agentRun[c] \in Live <=> agentRun'[c] \in Live
      BY <1>1, <1>2 DEF Live
<1>4. /\ \A c \in Waiters(k) : request'[c] = o
      /\ \A c \in Dispatch \ Waiters(k) : request'[c] = request[c]
      /\ timed' = timed \ Waiters(k)
      /\ request' \in [Dispatch -> {"idle", "unseen", "accepted", "waiting"} \cup Told]
      /\ timed' \subseteq {c \in Dispatch : request'[c] = "waiting"}
      BY <1>1, <1>2, ToldStatus DEF AgentInv, Waiters
<1>5. \A c \in Dispatch : request'[c] \in {"unseen", "accepted", "waiting"} =>
          c \notin Waiters(k) /\ request'[c] = request[c]
      BY <1>2, <1>4 DEF Terminal
<1>6. \A j \in Key : Outcome(j) \subseteq Outcome(j)'
      BY <1>2, OutcomesGrow DEF AgentInv
<1>7. o \in Outcome(k)'
      BY <1>2 DEF Outcome
<1>8. AgentTypeOK'
      <2>1. /\ agentRun' \in [Dispatch -> {"none", "settled"} \cup Live]
            /\ outcomes' \in [Dispatch -> SUBSET Terminal]
            /\ snapshot' \in [Key -> {"none"} \cup Terminal] /\ grace' \in [Key -> BOOLEAN]
            BY <1>1, <1>2 DEF AgentInv, AgentTypeOK, Live
      <2> QED BY <1>1, <1>4, <2>1 DEF AgentInv, AgentTypeOK
<1>9. EntriesStay' /\ UnseenExplained' /\ AcceptedLives' /\ RunsExplained'
      BY <1>1, <1>3, <1>5 DEF AgentInv, EntriesStay, UnseenExplained, AcceptedLives, RunsExplained
<1>10. MapsReal'
      BY <1>1, <1>2, <1>6, <1>7 DEF AgentInv, MapsReal
<1>11. TimersBacked'
      BY <1>2, <1>4, <1>5, KeyTyped DEF AgentInv, AgentTypeOK, TimersBacked, Waiters
<1>12. AnswersReal'
      BY <1>2, <1>4 DEF AgentInv, AnswersReal, Waiters
<1>13. WaitersHaveRuns' /\ NoDeafWaiter'
      BY <1>1, <1>2, <1>3, <1>4, <1>5, KeyTyped DEF AgentInv, WaitersHaveRuns, NoDeafWaiter, Waiters
<1> QED BY <1>8, <1>9, <1>10, <1>11, <1>12, <1>13 DEF AgentInv

LEMMA FailAttemptStep ==
    ASSUME AgentInv, NEW d \in Dispatch, FailAttempt(d)
    PROVE  AgentInv'
<1> DEFINE k == KeyOf[d]
<1>1. /\ agentRun[d] \in {"queued", "active"} /\ k \in Key
      /\ agentRun' = [agentRun EXCEPT ![d] = "paused"]
      /\ grace' = [grace EXCEPT ![k] = TRUE]
      /\ outcomes' = [outcomes EXCEPT ![d] = @ \cup {"error"}]
      /\ entry' = entry /\ snapshot' = snapshot /\ dropped' = dropped /\ raced' = raced
      BY KeyTyped DEF FailAttempt, SetRun, Emitted
<1>2. /\ agentRun'[d] = "paused" /\ \A c \in Dispatch \ {d} : agentRun'[c] = agentRun[c]
      /\ grace'[k] = TRUE /\ \A j \in Key \ {k} : grace'[j] = grace[j]
      /\ \A c \in Dispatch : outcomes[c] \subseteq outcomes'[c]
      /\ "error" \in outcomes'[d]
      BY <1>1 DEF AgentInv, AgentTypeOK
<1>3. \A c \in Dispatch : /\ agentRun'[c] # "none" <=> agentRun[c] # "none"
                          /\ agentRun[c] \in Live <=> agentRun'[c] \in Live
      BY <1>1, <1>2 DEF Live
<1>4. \A j \in Key : Outcome(j) \subseteq Outcome(j)'
      BY <1>2, OutcomesGrow DEF AgentInv
<1>5. "error" \in Outcome(k)'
      BY <1>2 DEF Outcome
<1>6. AcceptedLives' /\ RunsExplained' /\ MapsReal'
      BY <1>1, <1>2, <1>3, <1>4, <1>5 DEF AgentInv, AcceptedLives, RunsExplained, MapsReal
<1>7. agentRun' \in [Dispatch -> {"none", "settled"} \cup Live]
      /\ outcomes' \in [Dispatch -> SUBSET Terminal] /\ grace' \in [Key -> BOOLEAN]
      BY <1>1 DEF AgentInv, AgentTypeOK, Live, Terminal
<1>8. CASE snapshot[k] # "none"
      <2>1. snapshot[k] \in Terminal /\ snapshot[k] \in Told /\ snapshot[k] \in Outcome(k)
            BY <1>1, <1>8 DEF AgentInv, AgentTypeOK, MapsReal, Told
      <2>2. Tell(Waiters(k), snapshot[k])
            BY <1>8 DEF FailAttempt
      <2>3. /\ \A c \in Waiters(k) : request'[c] = snapshot[k]
            /\ \A c \in Dispatch \ Waiters(k) : request'[c] = request[c]
            /\ timed' = timed \ Waiters(k)
            /\ request' \in [Dispatch -> {"idle", "unseen", "accepted", "waiting"} \cup Told]
            /\ timed' \subseteq {c \in Dispatch : request'[c] = "waiting"}
            BY <2>1, <2>2, ToldStatus DEF AgentInv, Waiters
      <2>4. \A c \in Dispatch : request'[c] \in {"unseen", "accepted", "waiting"} =>
                c \notin Waiters(k) /\ request'[c] = request[c]
            BY <2>1, <2>3 DEF Terminal
      <2>5. AgentTypeOK'
            BY <1>1, <1>7, <2>3 DEF AgentInv, AgentTypeOK
      <2>6. EntriesStay' /\ UnseenExplained'
            BY <1>1, <1>3, <2>4 DEF AgentInv, EntriesStay, UnseenExplained
      <2>7. TimersBacked'
            BY <1>1, <1>2, <2>3, KeyTyped DEF AgentInv, AgentTypeOK, TimersBacked
      <2>8. AnswersReal'
            <3> SUFFICES ASSUME NEW c \in Dispatch, request'[c] \in Terminal
                         PROVE  request'[c] \in Outcome(KeyOf[c])'
                BY DEF AnswersReal, Outcome
            <3>1. request'[c] \in Outcome(KeyOf[c])
                  BY <2>1, <2>3, AnswersAreOutcomes DEF AgentInv, Waiters
            <3> QED BY <1>4, <3>1, KeyTyped
      <2>9. WaitersHaveRuns' /\ NoDeafWaiter'
            BY <1>1, <1>2, <1>3, <2>3, <2>4, KeyTyped
            DEF AgentInv, WaitersHaveRuns, NoDeafWaiter, Waiters
      <2> QED BY <1>6, <2>5, <2>6, <2>7, <2>8, <2>9 DEF AgentInv
<1>9. CASE snapshot[k] = "none"
      <2>1. timed' = timed \cup Waiters(k) /\ request' = request
            BY <1>9 DEF FailAttempt
      <2>2. AgentTypeOK'
            BY <1>1, <1>7, <2>1 DEF AgentInv, AgentTypeOK, Waiters
      <2>3. EntriesStay' /\ UnseenExplained'
            BY <1>1, <1>3, <2>1 DEF AgentInv, EntriesStay, UnseenExplained
      <2>4. TimersBacked'
            BY <1>1, <1>2, <2>1, KeyTyped DEF AgentInv, AgentTypeOK, TimersBacked, Waiters
      <2>5. AnswersReal'
            BY <1>2, <2>1 DEF AgentInv, AnswersReal
      <2>6. WaitersHaveRuns' /\ NoDeafWaiter'
            BY <1>1, <1>2, <1>3, <2>1, KeyTyped
            DEF AgentInv, WaitersHaveRuns, NoDeafWaiter, Waiters
      <2> QED BY <1>6, <2>2, <2>3, <2>4, <2>5, <2>6 DEF AgentInv
<1> QED BY <1>8, <1>9

LEMMA GraceOverStep ==
    ASSUME AgentInv, NEW k \in Key, GraceOver(k)
    PROVE  AgentInv'
<1>1. /\ grace[k] /\ grace' = [grace EXCEPT ![k] = FALSE]
      /\ snapshot' = [snapshot EXCEPT ![k] = "error"]
      /\ entry' = entry /\ request' = request /\ timed' = timed /\ agentRun' = agentRun
      /\ outcomes' = outcomes /\ dropped' = dropped /\ raced' = raced
      BY DEF GraceOver
<1>2. /\ grace'[k] = FALSE /\ \A j \in Key \ {k} : grace'[j] = grace[j]
      /\ snapshot'[k] = "error" /\ \A j \in Key \ {k} : snapshot'[j] = snapshot[j]
      BY <1>1 DEF AgentInv, AgentTypeOK
<1>3. AgentTypeOK'
      BY <1>1 DEF AgentInv, AgentTypeOK, Terminal
<1>4. EntriesStay' /\ UnseenExplained' /\ AcceptedLives' /\ RunsExplained' /\ AnswersReal'
      /\ WaitersHaveRuns'
      BY <1>1 DEF AgentInv, EntriesStay, UnseenExplained, AcceptedLives, RunsExplained,
                  AnswersReal, WaitersHaveRuns
<1>5. MapsReal'
      BY <1>1, <1>2 DEF AgentInv, MapsReal, Outcome
<1>6. TimersBacked'
      BY <1>1, <1>2, KeyTyped DEF AgentInv, AgentTypeOK, TimersBacked
<1>7. NoDeafWaiter'
      BY <1>1, <1>2, KeyTyped DEF AgentInv, NoDeafWaiter
<1> QED BY <1>3, <1>4, <1>5, <1>6, <1>7 DEF AgentInv

LEMMA SettleRunStep ==
    ASSUME AgentInv, NEW d \in Dispatch, NEW o \in {"ok", "error"}, SettleRun(d, o)
    PROVE  AgentInv'
<1> DEFINE k == KeyOf[d]
<1>1. /\ agentRun[d] \in {"queued", "paused"} /\ k \in Key
      /\ agentRun' = [agentRun EXCEPT ![d] = "settled"]
      /\ entry' = [entry EXCEPT ![k] = o]
      /\ outcomes' = [outcomes EXCEPT ![d] = @ \cup {o}]
      /\ Tell(Waiters(k), o)
      /\ snapshot' = snapshot /\ grace' = grace /\ dropped' = dropped /\ raced' = raced
      BY KeyTyped DEF SettleRun, SetRun, Emitted
<1>2. /\ agentRun'[d] = "settled" /\ \A c \in Dispatch \ {d} : agentRun'[c] = agentRun[c]
      /\ entry'[k] = o /\ \A j \in Key \ {k} : entry'[j] = entry[j]
      /\ \A c \in Dispatch : outcomes[c] \subseteq outcomes'[c]
      /\ o \in outcomes'[d] /\ o \in Terminal /\ o \in Told
      BY <1>1 DEF AgentInv, AgentTypeOK, Terminal, Told
<1>3. \A c \in Dispatch : /\ agentRun'[c] # "none" <=> agentRun[c] # "none"
                          /\ c # d => (agentRun[c] \in Live <=> agentRun'[c] \in Live)
      BY <1>1, <1>2
<1>4. /\ \A c \in Waiters(k) : request'[c] = o
      /\ \A c \in Dispatch \ Waiters(k) : request'[c] = request[c]
      /\ timed' = timed \ Waiters(k)
      /\ request' \in [Dispatch -> {"idle", "unseen", "accepted", "waiting"} \cup Told]
      /\ timed' \subseteq {c \in Dispatch : request'[c] = "waiting"}
      <2>1. Waiters(k) \in SUBSET Dispatch
            BY DEF Waiters
      <2> QED BY <1>1, <1>2, <2>1, ToldStatus DEF AgentInv
<1>5. \A c \in Dispatch : request'[c] \in {"unseen", "accepted", "waiting"} =>
          c \notin Waiters(k) /\ request'[c] = request[c]
      BY <1>2, <1>4 DEF Terminal
<1>6. \A j \in Key : Outcome(j) \subseteq Outcome(j)'
      BY <1>2, OutcomesGrow DEF AgentInv
<1>7. o \in Outcome(k)'
      BY <1>2 DEF Outcome
<1>8. AgentTypeOK'
      <2>1. /\ agentRun' \in [Dispatch -> {"none", "settled"} \cup Live]
            /\ outcomes' \in [Dispatch -> SUBSET Terminal]
            /\ entry' \in [Key -> {"none", "accepted", "ok", "error"}]
            BY <1>1, <1>2 DEF AgentInv, AgentTypeOK
      <2> QED BY <1>1, <1>4, <2>1 DEF AgentInv, AgentTypeOK
<1>9. EntriesStay'
      BY <1>1, <1>2, <1>3, <1>5, KeyTyped DEF AgentInv, EntriesStay
<1>10. UnseenExplained' /\ RunsExplained'
      BY <1>1, <1>3, <1>5 DEF AgentInv, UnseenExplained, RunsExplained
<1>11. AcceptedLives'
      BY <1>2, <1>3 DEF AgentInv, AcceptedLives
<1>12. MapsReal'
      BY <1>1, <1>2, <1>6, <1>7 DEF AgentInv, MapsReal
<1>13. TimersBacked'
      BY <1>1, <1>4 DEF AgentInv, TimersBacked
<1>14. AnswersReal'
      BY <1>2, <1>4 DEF AgentInv, AnswersReal, Waiters
<1>15. WaitersHaveRuns'
      BY <1>1, <1>3, <1>4, <1>5 DEF AgentInv, WaitersHaveRuns, Waiters
<1>16. NoDeafWaiter'
      BY <1>1, <1>2, <1>4, <1>5, KeyTyped DEF AgentInv, NoDeafWaiter, Waiters
<1> QED BY <1>8, <1>9, <1>10, <1>11, <1>12, <1>13, <1>14, <1>15, <1>16 DEF AgentInv

LEMMA DropEntryStep ==
    ASSUME AgentInv, NEW k \in Key, DropEntry(k)
    PROVE  AgentInv'
<1>1. /\ entry' = [entry EXCEPT ![k] = "none"] /\ dropped' = dropped \cup {k}
      /\ snapshot' = snapshot /\ grace' = grace /\ request' = request /\ timed' = timed
      /\ agentRun' = agentRun /\ outcomes' = outcomes /\ raced' = raced
      BY DEF DropEntry
<1>2. entry'[k] = "none" /\ \A j \in Key \ {k} : entry'[j] = entry[j]
      BY <1>1 DEF AgentInv, AgentTypeOK
<1>3. AgentTypeOK'
      BY <1>1 DEF AgentInv, AgentTypeOK
<1>4. EntriesStay' /\ UnseenExplained' /\ RunsExplained'
      BY <1>1, <1>2, KeyTyped DEF AgentInv, EntriesStay, UnseenExplained, RunsExplained
<1>5. AcceptedLives' /\ MapsReal' /\ TimersBacked' /\ AnswersReal' /\ WaitersHaveRuns'
      BY <1>1, <1>2 DEF AgentInv, AcceptedLives, MapsReal, TimersBacked, AnswersReal,
                        WaitersHaveRuns, Outcome, Terminal
<1>6. NoDeafWaiter'
      BY <1>1, <1>2, KeyTyped DEF AgentInv, NoDeafWaiter, Terminal
<1> QED BY <1>3, <1>4, <1>5, <1>6 DEF AgentInv

LEMMA DropSnapshotStep ==
    ASSUME AgentInv, NEW k \in Key, DropSnapshot(k)
    PROVE  AgentInv'
<1>1. /\ snapshot' = [snapshot EXCEPT ![k] = "none"] /\ timed \cap Waiters(k) = {}
      /\ entry' = entry /\ grace' = grace /\ request' = request /\ timed' = timed
      /\ agentRun' = agentRun /\ outcomes' = outcomes /\ dropped' = dropped /\ raced' = raced
      BY DEF DropSnapshot
<1>2. snapshot'[k] = "none" /\ \A j \in Key \ {k} : snapshot'[j] = snapshot[j]
      BY <1>1 DEF AgentInv, AgentTypeOK
<1>3. AgentTypeOK'
      BY <1>1 DEF AgentInv, AgentTypeOK
<1>4. EntriesStay' /\ UnseenExplained' /\ AcceptedLives' /\ RunsExplained' /\ AnswersReal'
      /\ WaitersHaveRuns'
      BY <1>1 DEF AgentInv, EntriesStay, UnseenExplained, AcceptedLives, RunsExplained,
                  AnswersReal, WaitersHaveRuns
<1>5. MapsReal'
      BY <1>1, <1>2 DEF AgentInv, MapsReal, Outcome
<1>6. TimersBacked'
      BY <1>1, <1>2, KeyTyped DEF AgentInv, AgentTypeOK, TimersBacked, Waiters
<1>7. NoDeafWaiter'
      BY <1>1, <1>2, KeyTyped DEF AgentInv, NoDeafWaiter
<1> QED BY <1>3, <1>4, <1>5, <1>6, <1>7 DEF AgentInv

LEMMA NextAgentInv == AgentInv /\ [AgentNext]_agentVars => AgentInv'
<1> SUFFICES ASSUME AgentInv, [AgentNext]_agentVars
             PROVE  AgentInv'
    OBVIOUS
<1>1. CASE UNCHANGED agentVars
      BY <1>1 DEF agentVars, AgentInv, AgentTypeOK, EntriesStay, UnseenExplained, AcceptedLives,
                  MapsReal, Outcome, TimersBacked, RunsExplained, AnswersReal, WaitersHaveRuns,
                  NoDeafWaiter
<1>2. CASE AgentNext
      <2>1. ASSUME NEW d \in Dispatch,
                   \/ LookUpKey(d) \/ AcceptRun(d) \/ BeginWait(d) \/ WaitErrorDue(d)
                   \/ WaitExpires(d) \/ StartAttempt(d) \/ FailAttempt(d)
                   \/ \E o \in {"ok", "timeout"} : EndAttempt(d, o)
                   \/ \E o \in {"ok", "error"} : SettleRun(d, o)
            PROVE  AgentInv'
            BY <2>1, LookUpKeyStep, AcceptRunStep, BeginWaitStep, WaitErrorDueStep,
               WaitExpiresStep, StartAttemptStep, FailAttemptStep, EndAttemptStep, SettleRunStep
      <2>2. ASSUME NEW k \in Key, GraceOver(k) \/ DropEntry(k) \/ DropSnapshot(k)
            PROVE  AgentInv'
            BY <2>2, GraceOverStep, DropEntryStep, DropSnapshotStep
      <2> QED BY <1>2, <2>1, <2>2 DEF AgentNext
<1> QED BY <1>1, <1>2

\* AgentInv holds in every state of every instance.
THEOREM AgentInductive == AgentSpec => []AgentInv
<1> QED BY InitAgentInv, NextAgentInv, PTL DEF AgentSpec

\* A second run under an idempotency key has an explanation: the key's entry was
\* dropped, or two calls were about to be accepted at once (agent).
THEOREM RunsAreExplained == AgentSpec => []RunsExplained
<1>1. AgentInv => RunsExplained
      BY DEF AgentInv
<1> QED BY <1>1, AgentInductive, PTL

\* Who waits has a run or a timer to wait for, does not sleep beside an outcome,
\* and is told one that was (waitForAgentJob, waitForTerminalGatewayDedupe).
THEOREM WaitersAreServed == AgentSpec => []WaitersServed
<1>1. AgentInv => WaitersServed
      BY DEF AgentInv, WaitersServed
<1> QED BY <1>1, AgentInductive, PTL

=============================================================================
