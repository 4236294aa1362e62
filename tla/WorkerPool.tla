----------------------------- MODULE WorkerPool -----------------------------
(***************************************************************************)
(* createResearchCoordinatorService: the service keeps, per role, a pool   *)
(* of worker loops, and makes its size follow the role's routing, which it *)
(* fetches from FastAPI at every tick of a timer.  Roles do not share      *)
(* state; the module has one.  JavaScript runs a callback to its next      *)
(* await without interruption: one action.                                 *)
(***************************************************************************)
EXTENDS Naturals, FiniteSets, Sequences, SequencesExt

CONSTANTS
    Handle,      \* worker handles; one may be used again once its loop is over
    Fetch,       \* routing requests that may be under way at the same time
    MaxWorkers,  \* largest max_concurrency an operator chooses
    MaxChanges   \* bound: routing changes, starts, stops and failed requests

ASSUME PoolAssumption == MaxWorkers \in Nat \ {0} /\ MaxChanges \in Nat

Routing == [active : BOOLEAN, max_concurrency : 1..MaxWorkers]

DefaultRouting == [active |-> TRUE, max_concurrency |-> 1]

\* A request for the routing: none, sent, or what has come of it.
Response  == [state : {"none", "sent", "failed", "answered"}, row : Routing]
NoRequest == [state |-> "none", row |-> DefaultRouting]

VARIABLES
    served,   \* the role's row in agent_routing
    route,    \* routingByRole, the plugin's copy
    fetch,    \* requests for the routing under way
    service,  \* on, stopping (stop() waits for its workers) or off
    pool,     \* the role's Set of handles, in insertion order
    loop,     \* per handle, what its loop is doing
    flagged,  \* handles with stopRequested
    awaited,  \* handles stop() waits for
    shrunk,   \* history: live handles that left the pool because it shrank
    changes   \* history: counts towards MaxChanges

poolVars == <<served, route, fetch, service, pool, loop, flagged, awaited, shrunk, changes>>

PoolTypeOK ==
    /\ served \in Routing /\ route \in Routing
    /\ fetch \in [Fetch -> Response]
    /\ service \in {"on", "stopping", "off"}
    /\ pool \in Seq(Handle)
    /\ loop \in [Handle -> {"unused", "pass", "sleep", "ending"}]
    /\ flagged \subseteq Handle /\ awaited \subseteq Handle /\ shrunk \subseteq Handle
    /\ changes \in Nat

-----------------------------------------------------------------------------
PoolInit ==
    /\ served = DefaultRouting /\ route = DefaultRouting
    /\ fetch = [f \in Fetch |-> NoRequest]
    /\ service = "off"
    /\ pool = <<>>
    /\ loop = [h \in Handle |-> "unused"]
    /\ flagged = {} /\ awaited = {} /\ shrunk = {}
    /\ changes = 0

Desired(r) == IF service' = "on" /\ r.active THEN r.max_concurrency ELSE 0

Without(q, h) == IF h \in Range(q) THEN RemoveAt(q, CHOOSE i \in DOMAIN q : q[i] = h) ELSE q

\* Mutant: a handle in excess is dropped, its loop is not told to stop.
ReconcileUnflagged(q, state, r) ==
    LET missing == Desired(r) - Len(q)
        excess  == Len(q) - Desired(r)
    IN  IF Len(q) >= Desired(r)
        THEN /\ pool' = SubSeq(q, excess + 1, Len(q))
             /\ loop' = state
             /\ shrunk' = shrunk \cup Range(SubSeq(q, 1, excess))
             /\ UNCHANGED flagged
        ELSE \E new \in Injection(1..missing, {h \in Handle : state[h] = "unused"}) :
                /\ pool' = q \o new
                /\ loop' = [h \in Handle |-> IF h \in Range(new) THEN "pass" ELSE state[h]]
                /\ UNCHANGED <<flagged, shrunk>>

\* reconcileWorkers: the oldest handles in excess leave the pool with
\* stopRequested set, their loops still going; missing ones start a pass.
Reconcile(q, state, r) ==
    LET missing == Desired(r) - Len(q)
        excess  == Len(q) - Desired(r)
        over    == {h \in Handle : state[h] = "unused"}
    IN  IF Len(q) >= Desired(r)
        THEN /\ pool' = SubSeq(q, excess + 1, Len(q))
             /\ loop' = state
             /\ flagged' = (flagged \cup Range(SubSeq(q, 1, excess))) \ over
             /\ shrunk' = (shrunk \cup Range(SubSeq(q, 1, excess))) \ over
        ELSE \E new \in Injection(1..missing, over) :
                /\ pool' = q \o new
                /\ loop' = [h \in Handle |-> IF h \in Range(new) THEN "pass" ELSE state[h]]
                /\ flagged' = flagged \ over
                /\ shrunk' = shrunk \ over

\* The while condition of a worker's loop, and the check that follows it.
LoopNext(h) ==
    IF service # "on" \/ h \in flagged \/ ~route.active THEN "ending" ELSE "pass"

-----------------------------------------------------------------------------
Send == \E f \in Fetch : /\ fetch[f].state = "none"
                         /\ fetch' = [fetch EXCEPT ![f].state = "sent"]

Start ==
    /\ service = "off"
    /\ changes < MaxChanges
    /\ Send
    /\ service' = "on"
    /\ changes' = changes + 1
    /\ UNCHANGED <<served, route, pool, loop, flagged, awaited, shrunk>>

\* The timer, which does not wait for the previous request.
Tick ==
    /\ service = "on"
    /\ Send
    /\ UNCHANGED <<served, route, service, pool, loop, flagged, awaited, shrunk, changes>>

AnswerFetch(f) ==
    /\ fetch[f].state = "sent"
    /\ fetch' = [fetch EXCEPT ![f] = [state |-> "answered", row |-> served]]
    /\ UNCHANGED <<served, route, service, pool, loop, flagged, awaited, shrunk, changes>>

FailFetch(f) ==
    /\ fetch[f].state = "sent"
    /\ changes < MaxChanges
    /\ fetch' = [fetch EXCEPT ![f].state = "failed"]
    /\ changes' = changes + 1
    /\ UNCHANGED <<served, route, service, pool, loop, flagged, awaited, shrunk>>

\* Mutant: only a change of the row leads to a new reconciliation.
RefreshRoutingIfNew(f) ==
    /\ fetch[f].state \in {"failed", "answered"}
    /\ route' = IF fetch[f].state = "failed" THEN route ELSE fetch[f].row
    /\ fetch' = [fetch EXCEPT ![f] = NoRequest]
    /\ UNCHANGED <<served, service, awaited, changes>>
    /\ IF route' # route THEN Reconcile(pool, loop, route')
                         ELSE UNCHANGED <<pool, loop, flagged, shrunk>>

\* refreshRouting, after its await: requests may come back in any order, and
\* after stop().
RefreshRouting(f) ==
    /\ fetch[f].state \in {"failed", "answered"}
    /\ route' = IF fetch[f].state = "failed" THEN route ELSE fetch[f].row
    /\ fetch' = [fetch EXCEPT ![f] = NoRequest]
    /\ UNCHANGED <<served, service, awaited, changes>>
    /\ Reconcile(pool, loop, route')

\* A pass found a task or not, or raised.
PassEnds(h) ==
    /\ loop[h] = "pass"
    /\ loop' = [loop EXCEPT ![h] = LoopNext(h)] \/ loop' = [loop EXCEPT ![h] = "sleep"]
    /\ UNCHANGED <<served, route, fetch, service, pool, flagged, awaited, shrunk, changes>>

WakeUp(h) ==
    /\ loop[h] = "sleep"
    /\ loop' = [loop EXCEPT ![h] = LoopNext(h)]
    /\ UNCHANGED <<served, route, fetch, service, pool, flagged, awaited, shrunk, changes>>

\* Mutant: the promise stop() waits for is not settled.
WorkerEndsUnsettled(h) ==
    LET state == [loop EXCEPT ![h] = "unused"] IN
    /\ loop[h] = "ending"
    /\ UNCHANGED <<served, route, fetch, service, awaited, changes>>
    /\ IF service = "on"
       THEN Reconcile(Without(pool, h), state, route)
       ELSE /\ pool' = Without(pool, h)
            /\ loop' = state
            /\ flagged' = flagged \ {h}
            /\ shrunk' = shrunk \ {h}

\* The finally clause of a worker: it leaves the pool, which is made complete.
WorkerEnds(h) ==
    LET state == [loop EXCEPT ![h] = "unused"] IN
    /\ loop[h] = "ending"
    /\ awaited' = awaited \ {h}
    /\ UNCHANGED <<served, route, fetch, service, changes>>
    /\ IF service = "on"
       THEN Reconcile(Without(pool, h), state, route)
       ELSE /\ pool' = Without(pool, h)
            /\ loop' = state
            /\ flagged' = flagged \ {h}
            /\ shrunk' = shrunk \ {h}

Stop ==
    /\ service = "on"
    /\ changes < MaxChanges
    /\ service' = "stopping"
    /\ flagged' = flagged \cup Range(pool)
    /\ awaited' = Range(pool)
    /\ pool' = <<>>
    /\ changes' = changes + 1
    /\ UNCHANGED <<served, route, fetch, loop, shrunk>>

\* All promises stop() waits for are settled.
Stopped ==
    /\ service = "stopping"
    /\ awaited = {}
    /\ service' = "off"
    /\ UNCHANGED <<served, route, fetch, pool, loop, flagged, awaited, shrunk, changes>>

\* POST /v1/control/agent-routing or agent-activation.
ChangeRouting ==
    /\ changes < MaxChanges
    /\ served' \in Routing \ {served}
    /\ changes' = changes + 1
    /\ UNCHANGED <<route, fetch, service, pool, loop, flagged, awaited, shrunk>>

-----------------------------------------------------------------------------
Network(f) == AnswerFetch(f) \/ RefreshRouting(f)

Work(h) == PassEnds(h) \/ WakeUp(h) \/ WorkerEnds(h)

PoolNext ==
    \/ Start \/ Tick \/ Stop \/ Stopped \/ ChangeRouting
    \/ \E f \in Fetch : Network(f) \/ FailFetch(f)
    \/ \E h \in Handle : Work(h)

PoolSpec == PoolInit /\ [][PoolNext]_poolVars

\* The timer ticks, requests are answered, passes end (a subagent run has a
\* timeout).
PoolFairness ==
    /\ WF_poolVars(Tick) /\ WF_poolVars(Stopped)
    /\ \A f \in Fetch : WF_poolVars(Network(f))
    /\ \A h \in Handle : WF_poolVars(Work(h))

FairPoolSpec == PoolSpec /\ PoolFairness

-----------------------------------------------------------------------------
\* The pool is the set of the loops that go on and were not told to stop, none
\* twice, and not more than the routing asks for: no loop runs on that nobody
\* could stop (reconcileWorkers).
PoolIsLive ==
    /\ Range(pool) = {h \in Handle : loop[h] # "unused"} \ flagged
    /\ Cardinality(Range(pool)) = Len(pool)
    /\ Len(pool) <= IF service = "on" /\ route.active THEN route.max_concurrency ELSE 0

\* When stop() has returned, no worker is left but those that had left the pool
\* before, when it shrank (stop waits for the pool only).
StopWaits == service = "off" => \A h \in Handle : loop[h] = "unused" \/ h \in shrunk

\* At no time is there a worker that neither the pool nor its own flag can stop.
PoolSound == PoolIsLive /\ StopWaits

\* Not more passes at a time than the largest max_concurrency (reconcileWorkers).
\* The code does not keep this; the README has the steps that break it.
ConcurrencyBound == Cardinality({h \in Handle : loop[h] = "pass"}) <= MaxWorkers

\* In the end there are as many loops as the role's row asks for, in whatever
\* order the answers came back (refreshRouting).  Under FairPoolSpec.
PoolConverges ==
    <>[](service = "on" =>
            Cardinality({h \in Handle : loop[h] # "unused"}) =
                IF served.active THEN served.max_concurrency ELSE 0)

\* stop() returns (it waits for every worker of the pool).  Under FairPoolSpec.
StopReturns == service = "stopping" ~> service = "off"

=============================================================================
