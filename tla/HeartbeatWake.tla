--------------------------- MODULE HeartbeatWake ---------------------------
(***************************************************************************)
(* The wake layer of the heartbeat.  Wakes are requested per target, held  *)
(* until a timer fires, and then handed one by one to the handler that the *)
(* heartbeat runner of the running server has registered.  A restart of    *)
(* the gateway inside its process stops that runner and registers another, *)
(* while wakes are pending and while a batch of them is being run.         *)
(***************************************************************************)
EXTENDS Naturals, FiniteSets

CONSTANTS
    Target,      \* pairs of an agent and a session, or all agents
    MaxRunners,  \* bound: heartbeat runners, one per start of the server
    NoRunner,    \* no handler is registered
    NoTarget     \* a batch is not running a wake

ASSUME HeartbeatAssumption ==
    MaxRunners \in Nat \ {0} /\ NoRunner \notin Nat /\ NoTarget \notin Target

Runner == 1 .. MaxRunners
Batch == Runner   \* at most one more batch at a time with each runner

VARIABLES
    wakes,      \* pendingWakes: the targets a wake is pending for
    timer,      \* the kind of the timer that is set, if one is
    handler,    \* the runner whose handler is registered
    stopped,    \* the runners that were stopped
    runners,    \* runners started so far
    busy,       \* running
    again,      \* scheduled: a timer fired while a batch was running
    batch,      \* the batches that are being run
    owed,       \* history: targets woken since an attempt at them began
    swallowed,  \* history: targets whose wake came to a runner that was stopped
    cooling,    \* history: targets that wait for a retry timer
    overlapped  \* history: a runner was started while a batch was being run

wakeVars == <<wakes, timer, handler, stopped, runners, busy, again, batch,
              owed, swallowed, cooling, overlapped>>

NoBatch == [runner |-> NoRunner, all |-> {}, left |-> {}, now |-> NoTarget]

Batches == {b \in Batch : batch[b] # NoBatch}

WakeTypeOK ==
    /\ wakes \subseteq Target
    /\ timer \in {"none", "normal", "retry"}
    /\ handler \in Runner \cup {NoRunner}
    /\ stopped \subseteq Runner /\ runners \in 0 .. MaxRunners
    /\ busy \in BOOLEAN /\ again \in BOOLEAN
    /\ batch \in [Batch -> [runner : Runner, all : SUBSET Target, left : SUBSET Target, now : Target]
                           \cup {NoBatch}]
    /\ owed \subseteq Target /\ swallowed \subseteq Target /\ cooling \subseteq Target
    /\ overlapped \in BOOLEAN
    /\ busy => Batches # {}

WakeInit ==
    /\ wakes = {} /\ timer = "none"
    /\ handler = NoRunner /\ stopped = {} /\ runners = 0
    /\ busy = FALSE /\ again = FALSE
    /\ batch = [b \in Batch |-> NoBatch]
    /\ owed = {} /\ swallowed = {} /\ cooling = {} /\ overlapped = FALSE

\* schedule.  A timer that is set stays: one for a retry in any case, and the
\* delays in use never bring a retry before a normal timer that was set earlier.
AfterSchedule(set, kind) == IF set = "none" THEN kind ELSE set

-----------------------------------------------------------------------------
\* requestHeartbeatNow: by hooks, cron, finished commands, and the runner itself.
RequestWake(t) ==
    /\ wakes' = wakes \cup {t}
    /\ timer' = AfterSchedule(timer, "normal")
    /\ owed' = owed \cup {t}
    /\ swallowed' = swallowed \ {t}
    /\ UNCHANGED <<handler, stopped, runners, busy, again, batch, cooling, overlapped>>

\* startHeartbeatRunner.  What the runner before left of timers and flags is reset.
StartRunner ==
    /\ runners < MaxRunners /\ handler = NoRunner /\ stopped = 1 .. runners
    /\ runners' = runners + 1
    /\ handler' = runners + 1
    /\ busy' = FALSE /\ again' = FALSE
    /\ timer' = IF wakes # {} THEN "normal" ELSE "none"
    /\ cooling' = {}
    /\ overlapped' = (overlapped \/ Batches # {})
    /\ UNCHANGED <<wakes, stopped, batch, owed, swallowed>>

\* The server closes: the runner is stopped and its handler disposed of.
StopRunner ==
    /\ handler # NoRunner
    /\ stopped' = stopped \cup {handler}
    /\ handler' = NoRunner
    /\ UNCHANGED <<wakes, timer, runners, busy, again, batch, owed, swallowed, cooling, overlapped>>

-----------------------------------------------------------------------------
(* A batch.  Its runner is asked about one wake after the other.           *)

Begin(b, record, t, owing) ==
    /\ batch' = [batch EXCEPT ![b] = [record EXCEPT !.left = @ \ {t}, !.now = t]]
    /\ owed' = owing \ {t}

Taken(targets) == [runner |-> handler, all |-> targets, left |-> targets, now |-> NoTarget]

\* Mutant: running is not reset.
EndBatchBusy(b, pend, set) ==
    /\ batch' = [batch EXCEPT ![b] = NoBatch]
    /\ UNCHANGED busy
    /\ timer' = IF pend # {} \/ again THEN AfterSchedule(set, "normal") ELSE set

\* The batch is over, whoever set running in the meantime.
EndBatch(b, pend, set) ==
    /\ batch' = [batch EXCEPT ![b] = NoBatch]
    /\ busy' = FALSE
    /\ timer' = IF pend # {} \/ again THEN AfterSchedule(set, "normal") ELSE set

\* Mutant: the batch is the first pending wake, and all are cleared.
FireFirst ==
    \E b \in Batch \ Batches, t \in wakes :
        /\ timer # "none" /\ handler # NoRunner /\ ~busy
        /\ timer' = "none" /\ again' = FALSE
        /\ wakes' = {} /\ cooling' = {} /\ busy' = TRUE
        /\ Begin(b, Taken({t}), t, owed)
        /\ UNCHANGED <<handler, stopped, runners, swallowed, overlapped>>

\* Mutant: a batch begins beside the one that is being run.
FireBeside ==
    \E b \in Batch \ Batches, t \in wakes :
        /\ timer # "none" /\ handler # NoRunner
        /\ timer' = "none" /\ again' = FALSE
        /\ wakes' = {} /\ cooling' = {} /\ busy' = TRUE
        /\ Begin(b, Taken(wakes), t, owed)
        /\ UNCHANGED <<handler, stopped, runners, swallowed, overlapped>>

\* The timer fires.  Without a handler the wakes stay pending; while a batch is
\* being run the timer is set again; otherwise a batch takes all that is pending.
Fire ==
    /\ timer # "none"
    /\ IF busy /\ handler # NoRunner
       THEN again' = TRUE /\ UNCHANGED <<wakes, timer, busy, batch, owed, cooling>>
       ELSE /\ timer' = "none" /\ again' = FALSE /\ cooling' = {}
            /\ IF handler = NoRunner \/ wakes = {} THEN UNCHANGED <<wakes, busy, batch, owed>>
               ELSE /\ wakes' = {} /\ busy' = TRUE
                    /\ \E b \in Batch \ Batches, t \in wakes : Begin(b, Taken(wakes), t, owed)
    /\ UNCHANGED <<handler, stopped, runners, swallowed, overlapped>>

\* The runner has answered: the wake was run or skipped, or the main lane is busy
\* and it is pending again.  Then comes the next wake of the batch, unless the
\* runner was stopped in the meantime: it skips all that are left.
Answered(b, mainBusy) ==
    LET r      == batch[b]
        retry  == {t \in {r.now} : mainBusy}
        set    == IF mainBusy THEN AfterSchedule(timer, "retry") ELSE timer
        halted == r.runner \in stopped
    IN  /\ r # NoBatch
        /\ wakes' = wakes \cup retry
        /\ cooling' = cooling \cup {t \in retry : set = "retry"}
        /\ swallowed' = swallowed \cup {t \in r.left : halted}
        /\ IF halted \/ r.left = {}
           THEN EndBatch(b, wakes \cup retry, set) /\ owed' = owed \cup retry
           ELSE /\ \E t \in r.left : Begin(b, r, t, owed \cup retry)
                /\ timer' = set
                /\ UNCHANGED busy
        /\ UNCHANGED <<handler, stopped, runners, again, overlapped>>

\* The handler raises: all wakes of the batch are pending again.
Raised(b) ==
    LET r == batch[b] IN
    /\ r # NoBatch
    /\ wakes' = wakes \cup r.all
    /\ owed' = owed \cup r.all
    /\ cooling' = cooling \cup {t \in r.all : AfterSchedule(timer, "retry") = "retry"}
    /\ EndBatch(b, wakes \cup r.all, AfterSchedule(timer, "retry"))
    /\ UNCHANGED <<handler, stopped, runners, again, swallowed, overlapped>>

-----------------------------------------------------------------------------
WakeNext ==
    \/ \E t \in Target : RequestWake(t)
    \/ StartRunner \/ StopRunner \/ Fire
    \/ \E b \in Batch : Raised(b) \/ \E mainBusy \in BOOLEAN : Answered(b, mainBusy)

\* Timers fire, a handler that is asked returns, and it does not raise every time:
\* the runner catches what goes wrong in a heartbeat.
WakeFairness ==
    /\ WF_wakeVars(Fire)
    /\ \A b \in Batch : SF_wakeVars(\E mainBusy \in BOOLEAN : Answered(b, mainBusy))

WakeSpec == WakeInit /\ [][WakeNext]_wakeVars /\ WakeFairness

-----------------------------------------------------------------------------
\* A wake that is owed is pending, or the batch that took it has still to come to
\* it: over retries, errors and restarts none is lost but those a batch brings
\* to a runner that was stopped.
WakesKept == owed \subseteq wakes \cup swallowed \cup UNION {batch[b].left : b \in Batch}

\* Nothing pending sleeps beside a handler: a timer is set, or a batch that is
\* being run sets one when it ends.
NoWakeSleeps == wakes # {} /\ handler # NoRunner => timer # "none" \/ Batches # {}

\* No wake that is owed is lost, nor left without a timer (heartbeat-wake.ts).
WakesHeld == WakeTypeOK /\ WakesKept /\ NoWakeSleeps

\* One batch at a time, unless a runner was started while one was being run: then
\* the end of the old batch takes the flag of the new one away (schedule, finally).
OneBatch == Cardinality(Batches) > 1 => overlapped

\* A wake that set the timer for its retry is not run before that timer fires: no
\* request and no end of a batch brings it forward (schedule: a hard minimum delay).
CooldownKept == cooling # {} => timer = "retry"

\* Batches come one after the other, and not before their time (schedule).
BatchesApart == OneBatch /\ CooldownKept

\* While there is a handler, a wake that is owed is attempted in the end, or it is
\* brought to a runner that was stopped.
WakesRun == \A t \in Target : t \in owed ~> t \notin owed \/ t \in swallowed \/ handler = NoRunner

=============================================================================
