------------------------------ MODULE AgentRuns ------------------------------
(***************************************************************************)
(* The agent and agent.wait methods of the gateway, as the coordinators of *)
(* the research plugin call them: a dispatch asks for a run under an       *)
(* idempotency key, which is also the id of the run, and waits for its     *)
(* outcome.  The gateway remembers the answer it gave under each key, and, *)
(* apart from that, the last lifecycle event of each run id.  Both are     *)
(* dropped after a while, and a waiter takes whichever speaks first.       *)
(***************************************************************************)
EXTENDS Naturals, FiniteSets

CONSTANTS
    Key,        \* idempotency keys: one per task
    Dispatch,   \* calls under way: first dispatches, retries, other callers
    KeyOf       \* the key of a dispatch

ASSUME KeyAssumption == KeyOf \in [Dispatch -> Key]

VARIABLES
    entry,      \* per key, what the dedupe map says
    snapshot,   \* per run id, agentRunCache
    grace,      \* per run id, whether pendingAgentRunErrors holds an error
    request,    \* per dispatch, how far its call has come or what it was told
    timed,      \* dispatches whose wait ends with an error when its timer fires
    agentRun,   \* per dispatch, the run accepted for it
    outcomes,   \* history: per dispatch, what its run has emitted or ended with
    dropped,    \* history: keys whose entry was dropped
    raced       \* history: keys two calls were about to accept at once

agentVars == <<entry, snapshot, grace, request, timed, agentRun, outcomes, dropped, raced>>

Terminal == {"ok", "error", "timeout"}
Told == Terminal \cup {"expired"}
Live == {"queued", "active", "paused"}

AgentTypeOK ==
    /\ entry \in [Key -> {"none", "accepted", "ok", "error"}]
    /\ snapshot \in [Key -> {"none"} \cup Terminal]
    /\ grace \in [Key -> BOOLEAN]
    /\ request \in [Dispatch -> {"idle", "unseen", "accepted", "waiting"} \cup Told]
    /\ timed \subseteq {d \in Dispatch : request[d] = "waiting"}
    /\ agentRun \in [Dispatch -> {"none", "settled"} \cup Live]
    /\ outcomes \in [Dispatch -> SUBSET Terminal]
    /\ dropped \subseteq Key /\ raced \subseteq Key

AgentInit ==
    /\ entry = [k \in Key |-> "none"]
    /\ snapshot = [k \in Key |-> "none"]
    /\ grace = [k \in Key |-> FALSE]
    /\ request = [d \in Dispatch |-> "idle"]
    /\ timed = {}
    /\ agentRun = [d \in Dispatch |-> "none"]
    /\ outcomes = [d \in Dispatch |-> {}]
    /\ dropped = {} /\ raced = {}

Waiters(k) == {d \in Dispatch : KeyOf[d] = k /\ request[d] = "waiting"}

\* Those who wait under a key are told a status and forget their timers.
Tell(told, status) ==
    /\ request' = [d \in Dispatch |-> IF d \in told THEN status ELSE request[d]]
    /\ timed' = timed \ told

Goto(d, step) == request' = [request EXCEPT ![d] = step]

-----------------------------------------------------------------------------
(* agent: the key is looked up, the call waits for the session store, and  *)
(* then the entry is written, whoever wrote it in between.                 *)

\* What is in the map is the answer.  An error in it raises in the caller.
LookUpKey(d) ==
    LET k == KeyOf[d] IN
    /\ request[d] = "idle"
    /\ Goto(d, CASE entry[k] = "none" -> "unseen"
                 [] entry[k] = "error" -> "error"
                 [] OTHER -> "accepted")
    /\ raced' = raced \cup {i \in {k} : entry[i] = "none" /\
                               \E c \in Dispatch : KeyOf[c] = i /\ request[c] = "unseen"}
    /\ UNCHANGED <<entry, snapshot, grace, timed, agentRun, outcomes, dropped>>

\* Mutant: the acknowledgement of the run in flight is not stored.
AcceptRunUnstored(d) ==
    /\ request[d] = "unseen"
    /\ agentRun' = [agentRun EXCEPT ![d] = "queued"]
    /\ Goto(d, "accepted")
    /\ UNCHANGED <<entry, snapshot, grace, timed, outcomes, dropped, raced>>

AcceptRun(d) ==
    /\ request[d] = "unseen"
    /\ entry' = [entry EXCEPT ![KeyOf[d]] = "accepted"]
    /\ agentRun' = [agentRun EXCEPT ![d] = "queued"]
    /\ Goto(d, "accepted")
    /\ UNCHANGED <<snapshot, grace, timed, outcomes, dropped, raced>>

-----------------------------------------------------------------------------
(* agent.wait: a terminal entry, then a snapshot of the lifecycle, then    *)
(* whichever of the two comes first.                                       *)

Stored(k) == IF entry[k] \in Terminal THEN entry[k] ELSE snapshot[k]

\* Mutant: an error in its grace is not looked for.
BeginWaitUntimed(d) ==
    /\ request[d] = "accepted"
    /\ IF Stored(KeyOf[d]) # "none"
       THEN Tell({d}, Stored(KeyOf[d]))
       ELSE Goto(d, "waiting") /\ UNCHANGED timed
    /\ UNCHANGED <<entry, snapshot, grace, agentRun, outcomes, dropped, raced>>

BeginWait(d) ==
    /\ request[d] = "accepted"
    /\ IF Stored(KeyOf[d]) # "none"
       THEN Tell({d}, Stored(KeyOf[d]))
       ELSE Goto(d, "waiting") /\ timed' = timed \cup {w \in {d} : grace[KeyOf[d]]}
    /\ UNCHANGED <<entry, snapshot, grace, agentRun, outcomes, dropped, raced>>

\* The grace of an error this wait has seen is over.
WaitErrorDue(d) ==
    LET k == KeyOf[d] IN
    /\ d \in timed
    /\ snapshot' = [snapshot EXCEPT ![k] = IF @ = "none" THEN "error" ELSE @]
    /\ Tell({d}, snapshot'[k])
    /\ UNCHANGED <<entry, grace, agentRun, outcomes, dropped, raced>>

WaitExpires(d) ==
    /\ request[d] = "waiting"
    /\ Tell({d}, "expired")
    /\ UNCHANGED <<entry, snapshot, grace, agentRun, outcomes, dropped, raced>>

-----------------------------------------------------------------------------
(* The run: attempts that start and end, then the end of agentCommand.     *)

Emitted(d, outcome) == outcomes' = [outcomes EXCEPT ![d] = @ \cup {outcome}]

SetRun(d, status) == agentRun' = [agentRun EXCEPT ![d] = status]

\* An attempt, the first or another after a failover or a compaction, drops
\* what the one before left.
StartAttempt(d) ==
    LET k == KeyOf[d] IN
    /\ agentRun[d] \in {"queued", "paused"}
    /\ SetRun(d, "active")
    /\ grace' = [grace EXCEPT ![k] = FALSE]
    /\ snapshot' = [snapshot EXCEPT ![k] = "none"]
    /\ timed' = timed \ Waiters(k)
    /\ UNCHANGED <<entry, request, outcomes, dropped, raced>>

\* An attempt ends, by itself or aborted: all who wait are told.
EndAttempt(d, outcome) ==
    LET k == KeyOf[d] IN
    /\ agentRun[d] \in {"queued", "active"}
    /\ SetRun(d, "paused")
    /\ grace' = [grace EXCEPT ![k] = FALSE]
    /\ snapshot' = [snapshot EXCEPT ![k] = outcome]
    /\ Tell(Waiters(k), outcome)
    /\ Emitted(d, outcome)
    /\ UNCHANGED <<entry, dropped, raced>>

\* An attempt fails: another may follow within the grace.  Those who wait
\* start a timer each, unless a snapshot of another run is there to be told.
FailAttempt(d) ==
    LET k == KeyOf[d] IN
    /\ agentRun[d] \in {"queued", "active"}
    /\ SetRun(d, "paused")
    /\ grace' = [grace EXCEPT ![k] = TRUE]
    /\ IF snapshot[k] # "none"
       THEN Tell(Waiters(k), snapshot[k])
       ELSE timed' = timed \cup Waiters(k) /\ UNCHANGED request
    /\ Emitted(d, "error")
    /\ UNCHANGED <<entry, snapshot, dropped, raced>>

GraceOver(k) ==
    /\ grace[k]
    /\ grace' = [grace EXCEPT ![k] = FALSE]
    /\ snapshot' = [snapshot EXCEPT ![k] = "error"]
    /\ UNCHANGED <<entry, request, timed, agentRun, outcomes, dropped, raced>>

\* agentCommand returns or raises, after its last event or before its first
\* one.  What it returns need not be what that event said.
SettleRun(d, outcome) ==
    LET k == KeyOf[d] IN
    /\ agentRun[d] \in (IF outcome = "error" THEN {"queued", "paused"} ELSE {"paused"})
    /\ SetRun(d, "settled")
    /\ entry' = [entry EXCEPT ![k] = outcome]
    /\ Tell(Waiters(k), outcome)
    /\ Emitted(d, outcome)
    /\ UNCHANGED <<snapshot, grace, dropped, raced>>

-----------------------------------------------------------------------------
(* Entries are dropped five minutes after they were written, whatever they *)
(* say, and snapshots after ten, when the timers of fifteen seconds that   *)
(* ran beside them are long over.  A restart drops the entries as well.    *)

DropEntry(k) ==
    /\ entry[k] # "none"
    /\ entry' = [entry EXCEPT ![k] = "none"]
    /\ dropped' = dropped \cup {k}
    /\ UNCHANGED <<snapshot, grace, request, timed, agentRun, outcomes, raced>>

DropSnapshot(k) ==
    /\ snapshot[k] # "none" /\ timed \cap Waiters(k) = {}
    /\ snapshot' = [snapshot EXCEPT ![k] = "none"]
    /\ UNCHANGED <<entry, grace, request, timed, agentRun, outcomes, dropped, raced>>

-----------------------------------------------------------------------------
AgentNext ==
    \/ \E d \in Dispatch :
          \/ LookUpKey(d) \/ AcceptRun(d) \/ BeginWait(d) \/ WaitErrorDue(d) \/ WaitExpires(d)
          \/ StartAttempt(d) \/ FailAttempt(d)
          \/ \E o \in {"ok", "timeout"} : EndAttempt(d, o)
          \/ \E o \in {"ok", "error"} : SettleRun(d, o)
    \/ \E k \in Key : GraceOver(k) \/ DropEntry(k) \/ DropSnapshot(k)

AgentSpec == AgentInit /\ [][AgentNext]_agentVars

-----------------------------------------------------------------------------
\* One run per key (agent.ts: retries do not spawn a second run).
\* The code does not keep this: entries of runs in flight are dropped too.
OneRunPerKey ==
    \A c, d \in Dispatch :
        KeyOf[c] = KeyOf[d] /\ {agentRun[c], agentRun[d]} \cap {"none"} = {} => c = d

\* It does as long as no entry of the key was dropped, and no two calls looked
\* the key up before either was accepted.
RunsExplained ==
    \A c, d \in Dispatch :
        /\ KeyOf[c] = KeyOf[d] /\ c # d
        /\ agentRun[c] # "none" /\ agentRun[d] # "none"
        => KeyOf[d] \in dropped \cup raced

\* A caller is told what a run under its key has emitted or ended with, however
\* events, entries, timers and other callers of the key cross (agent.wait).
AnswersReal ==
    \A d \in Dispatch : request[d] \in Terminal =>
        \E c \in Dispatch : KeyOf[c] = KeyOf[d] /\ request[d] \in outcomes[c]

\* Nobody waits for nothing: a run under the key of a waiter is still to end, or
\* the waiter's own timer runs, unless what it should have found was dropped.
WaitersHaveRuns ==
    \A d \in Dispatch : request[d] = "waiting" =>
        \/ d \in timed
        \/ \E c \in Dispatch : KeyOf[c] = KeyOf[d] /\ agentRun[c] \in Live
        \/ KeyOf[d] \in dropped

\* No waiter sleeps beside an outcome: no terminal entry is stored under its key,
\* and if an error is on record or in its grace, its timer runs.
NoDeafWaiter ==
    \A d \in Dispatch : request[d] = "waiting" =>
        /\ entry[KeyOf[d]] \notin Terminal
        /\ snapshot[KeyOf[d]] # "none" \/ grace[KeyOf[d]] => d \in timed

\* Who waits has something to wait for, and is told the truth (waitForAgentJob,
\* waitForTerminalGatewayDedupe).
WaitersServed == AgentTypeOK /\ AnswersReal /\ WaitersHaveRuns /\ NoDeafWaiter

=============================================================================
