------------------------- MODULE Coordination_proofs -------------------------
(***************************************************************************)
(* Proofs about who works on the tasks: the worker pool of the OpenClaw    *)
(* service, for any handles, requests and changes of the routing, and the  *)
(* review loop of the Python coordinators.  PoolInv, FileInv, RoundsInv    *)
(* and ScriptInv are inductive.  PoolInv adds to PoolSound which loops may *)
(* go on outside the pool; FileInv adds to the single file what each pass  *)
(* knows of its task, RoundsInv the decision of the review that is under   *)
(* way, and ScriptInv how far a loop nobody disturbs has come.             *)
(***************************************************************************)
EXTENDS WorkerPool, ReviewLoop, FunctionTheorems, FiniteSetTheorems, SequenceTheorems, TLAPS

-----------------------------------------------------------------------------
(* The worker pool.                                                        *)

LoopState == {"unused", "pass", "sleep", "ending"}

Live == {h \in Handle : loop[h] # "unused"}

\* Which loops go on although the pool does not hold them: those that left it when
\* it shrank, and while stop() waits, those it waits for.
Leaving ==
    /\ service = "on" => Live \cap flagged \subseteq shrunk
    /\ service = "stopping" => Live \subseteq awaited \cup shrunk
    /\ service = "off" => Live \subseteq shrunk

PoolInv ==
    /\ PoolTypeOK
    /\ Range(pool) = Live \ flagged
    /\ IsInjective(pool)
    /\ Len(pool) <= IF service = "on" /\ route.active THEN route.max_concurrency ELSE 0
    /\ Leaving

LEMMA SubSeqFacts ==
    ASSUME NEW q \in Seq(Handle), NEW m \in 1 .. Len(q) + 1, NEW n \in 0 .. Len(q), m <= n + 1
    PROVE  /\ SubSeq(q, m, n) \in Seq(Handle)
           /\ Len(SubSeq(q, m, n)) = n - m + 1
           /\ \A i \in 1 .. n - m + 1 : SubSeq(q, m, n)[i] = q[m + i - 1]
<1>1. \A i \in m .. n : q[i] \in Handle
      BY ElementOfSeq
<1>2. m = n + 1 \/ m <= n
      OBVIOUS
<1> QED BY <1>1, <1>2, SubSeqProperties, ElementOfSeq

LEMMA RangeFacts ==
    ASSUME NEW q \in Seq(Handle)
    PROVE  /\ \A h : h \in Range(q) <=> \E i \in 1 .. Len(q) : q[i] = h
           /\ Range(q) \subseteq Handle
           /\ IsInjective(q) <=> \A i, j \in 1 .. Len(q) : q[i] = q[j] => i = j
BY LenProperties, ElementOfSeq DEF Range, IsInjective

\* Deleting a handle from the pool takes out that one and keeps the order.
LEMMA WithoutFacts ==
    ASSUME NEW q \in Seq(Handle), IsInjective(q), NEW h
    PROVE  /\ Without(q, h) \in Seq(Handle) /\ IsInjective(Without(q, h))
           /\ Range(Without(q, h)) = Range(q) \ {h}
           /\ Len(Without(q, h)) <= Len(q)
<1>0. Len(q) \in Nat /\ DOMAIN q = 1 .. Len(q)
      BY LenProperties
<1>1. CASE h \notin Range(q)
      BY <1>0, <1>1 DEF Without
<1>2. CASE h \in Range(q)
      <2>1. PICK i \in 1 .. Len(q) : i = CHOOSE j \in DOMAIN q : q[j] = h
            BY <1>0, <1>2, RangeFacts
      <2>2. q[i] = h
            BY <1>0, <1>2, <2>1, RangeFacts
      <2> DEFINE front == SubSeq(q, 1, i - 1)
                 back  == SubSeq(q, i + 1, Len(q))
                 new   == front \o back
      <2>3. /\ front \in Seq(Handle) /\ Len(front) = i - 1
            /\ \A j \in 1 .. i - 1 : front[j] = q[j]
            BY <1>0, SubSeqFacts
      <2>4. /\ back \in Seq(Handle) /\ Len(back) = Len(q) - i
            /\ \A j \in 1 .. Len(q) - i : back[j] = q[i + j]
            <3>1. i + 1 \in 1 .. Len(q) + 1 /\ Len(q) \in 0 .. Len(q) /\ i + 1 <= Len(q) + 1
                  BY <1>0
            <3>2. /\ back \in Seq(Handle) /\ Len(back) = Len(q) - (i + 1) + 1
                  /\ \A j \in 1 .. Len(q) - (i + 1) + 1 : back[j] = q[(i + 1) + j - 1]
                  BY <3>1, SubSeqFacts
            <3>3. /\ Len(q) - (i + 1) + 1 = Len(q) - i
                  /\ \A j \in 1 .. Len(q) - i : (i + 1) + j - 1 = i + j
                  BY <1>0
            <3> HIDE DEF back
            <3> QED BY <3>2, <3>3
      <2>5. Without(q, h) = new
            BY <1>2, <2>1 DEF Without, RemoveAt
      <2> HIDE DEF front, back
      <2>6. /\ new \in Seq(Handle) /\ Len(new) = Len(q) - 1
            /\ \A j \in 1 .. Len(q) - 1 : new[j] = IF j < i THEN q[j] ELSE q[j + 1]
            <3>1. new \in Seq(Handle) /\ Len(new) = Len(front) + Len(back)
                  BY <2>3, <2>4, ConcatProperties
            <3>2. ASSUME NEW j \in 1 .. Len(q) - 1
                  PROVE  new[j] = IF j < i THEN q[j] ELSE q[j + 1]
                  <4>1. new[j] = IF j <= Len(front) THEN front[j] ELSE back[j - Len(front)]
                        BY <1>0, <2>3, <2>4, ConcatProperties
                  <4>2. CASE j < i
                        BY <1>0, <2>3, <4>1, <4>2
                  <4>3. CASE ~(j < i)
                        <5>1. j - (i - 1) \in 1 .. Len(q) - i /\ ~(j <= i - 1)
                              BY <1>0, <4>3
                        <5>2. new[j] = back[j - (i - 1)]
                              BY <2>3, <4>1, <5>1
                        <5>3. back[j - (i - 1)] = q[i + (j - (i - 1))]
                              BY <2>4, <5>1
                        <5>4. i + (j - (i - 1)) = j + 1
                              BY <1>0
                        <5> QED BY <4>3, <5>2, <5>3, <5>4
                  <4> QED BY <4>2, <4>3
            <3> QED BY <1>0, <2>3, <2>4, <3>1, <3>2
      <2> HIDE DEF new
      <2>7. \A j, k \in 1 .. Len(q) : q[j] = q[k] => j = k
            BY RangeFacts
      <2>8. IsInjective(new)
            <3>1. ASSUME NEW j \in 1 .. Len(new), NEW k \in 1 .. Len(new), new[j] = new[k]
                  PROVE  j = k
                  BY <1>0, <2>6, <2>7, <3>1
            <3> QED BY <2>6, <3>1, RangeFacts
      <2>9. Range(new) = Range(q) \ {h}
            <3>1. ASSUME NEW g \in Range(new)
                  PROVE  g \in Range(q) \ {h}
                  <4>1. PICK j \in 1 .. Len(q) - 1 : new[j] = g
                        BY <2>6, <3>1, RangeFacts
                  <4>2. PICK k \in 1 .. Len(q) : k # i /\ q[k] = g
                        BY <1>0, <2>6, <4>1
                  <4> QED BY <2>2, <2>7, <4>2, RangeFacts
            <3>2. ASSUME NEW g \in Range(q), g # h
                  PROVE  g \in Range(new)
                  <4>1. PICK k \in 1 .. Len(q) : q[k] = g
                        BY <3>2, RangeFacts
                  <4>2. k # i
                        BY <2>2, <3>2, <4>1
                  <4>3. PICK j \in 1 .. Len(q) - 1 : k = IF j < i THEN j ELSE j + 1
                        <5>1. CASE k < i
                              BY <1>0, <5>1
                        <5>2. CASE k > i
                              <6>1. k - 1 \in 1 .. Len(q) - 1 /\ ~(k - 1 < i) /\ (k - 1) + 1 = k
                                    BY <1>0, <5>2
                              <6> QED BY <6>1
                        <5> QED BY <1>0, <4>2, <5>1, <5>2
                  <4>4. new[j] = g
                        BY <2>6, <4>1, <4>3
                  <4> QED BY <2>6, <4>4, RangeFacts
            <3> QED BY <3>1, <3>2
      <2> QED BY <1>0, <2>5, <2>6, <2>8, <2>9
<1> QED BY <1>1, <1>2

\* The handles that leave the pool and those that stay share it between them.
LEMMA SplitFacts ==
    ASSUME NEW q \in Seq(Handle), IsInjective(q), NEW n \in 0 .. Len(q)
    PROVE  LET out  == SubSeq(q, 1, n)
               rest == SubSeq(q, n + 1, Len(q))
           IN  /\ rest \in Seq(Handle) /\ IsInjective(rest) /\ Len(rest) = Len(q) - n
               /\ Range(out) \subseteq Handle
               /\ Range(rest) = Range(q) \ Range(out)
               /\ Range(out) \subseteq Range(q)
<1>0. Len(q) \in Nat
      BY LenProperties
<1> DEFINE out  == SubSeq(q, 1, n)
           rest == SubSeq(q, n + 1, Len(q))
<1>1. out \in Seq(Handle) /\ Len(out) = n /\ \A i \in 1 .. n : out[i] = q[i]
      BY <1>0, SubSeqFacts
<1>2. /\ rest \in Seq(Handle) /\ Len(rest) = Len(q) - n
      /\ \A i \in 1 .. Len(q) - n : rest[i] = q[n + i]
      BY <1>0, SubSeqFacts
<1> HIDE DEF out, rest
<1>3. \A j, k \in 1 .. Len(q) : q[j] = q[k] => j = k
      BY RangeFacts
<1>4. IsInjective(rest)
      <2>1. ASSUME NEW j \in 1 .. Len(rest), NEW k \in 1 .. Len(rest), rest[j] = rest[k]
            PROVE  j = k
            BY <1>0, <1>2, <1>3, <2>1
      <2> QED BY <1>2, <2>1, RangeFacts
<1>5. ASSUME NEW g \in Range(rest)
      PROVE  g \in Range(q) /\ g \notin Range(out)
      <2>1. PICK j \in 1 .. Len(q) - n : rest[j] = g
            BY <1>2, <1>5, RangeFacts
      <2>2. n + j \in 1 .. Len(q) /\ q[n + j] = g
            BY <1>0, <1>2, <2>1
      <2>3. ASSUME NEW i \in 1 .. n, out[i] = g
            PROVE  FALSE
            BY <1>0, <1>1, <1>3, <2>1, <2>2, <2>3
      <2> QED BY <1>1, <2>2, <2>3, RangeFacts
<1>6. ASSUME NEW g \in Range(q), g \notin Range(out)
      PROVE  g \in Range(rest)
      <2>1. PICK k \in 1 .. Len(q) : q[k] = g
            BY <1>6, RangeFacts
      <2>2. ~(k <= n)
            BY <1>0, <1>1, <1>6, <2>1, RangeFacts
      <2>3. k - n \in 1 .. Len(q) - n /\ n + (k - n) = k
            BY <1>0, <2>2
      <2>4. rest[k - n] = g
            BY <1>2, <2>1, <2>3
      <2> QED BY <1>2, <2>3, <2>4, RangeFacts
<1>7. Range(out) \subseteq Range(q)
      BY <1>0, <1>1, RangeFacts
<1> QED BY <1>1, <1>2, <1>4, <1>5, <1>6, <1>7, RangeFacts DEF out, rest

\* New handles join the pool behind the old ones.
LEMMA JoinFacts ==
    ASSUME NEW q \in Seq(Handle), IsInjective(q), NEW n \in Nat, NEW over \in SUBSET Handle,
           Range(q) \cap over = {}, NEW new \in Injection(1 .. n, over)
    PROVE  /\ q \o new \in Seq(Handle) /\ IsInjective(q \o new) /\ Len(q \o new) = Len(q) + n
           /\ Range(q \o new) = Range(q) \cup Range(new)
           /\ Range(new) \subseteq over
<1>0. Len(q) \in Nat
      BY LenProperties
<1>1. new \in [1 .. n -> over] /\ \A i, j \in 1 .. n : new[i] = new[j] => i = j
      BY DEF Injection, IsInjective
<1>2. new \in Seq(over) /\ new \in Seq(Handle) /\ Len(new) = n
      BY <1>1, IsASeq, LenProperties
<1>3. /\ \A h : h \in Range(new) <=> \E i \in 1 .. n : new[i] = h
      /\ Range(new) \subseteq over
      BY <1>1 DEF Range
<1> DEFINE s == q \o new
<1>4. s \in Seq(Handle) /\ Len(s) = Len(q) + n
      BY <1>2, ConcatProperties
<1>5. \A i \in 1 .. Len(q) + n : s[i] = IF i <= Len(q) THEN q[i] ELSE new[i - Len(q)]
      BY <1>2, ConcatProperties
<1> HIDE DEF s
<1>6. \A j, k \in 1 .. Len(q) : q[j] = q[k] => j = k
      BY RangeFacts
<1>7. \A i \in 1 .. Len(q), j \in 1 .. n : q[i] # new[j]
      BY <1>1, RangeFacts
<1>8. IsInjective(s)
      <2>1. ASSUME NEW j \in 1 .. Len(s), NEW k \in 1 .. Len(s), s[j] = s[k]
            PROVE  j = k
            <3>1. CASE j <= Len(q) /\ k <= Len(q)
                  BY <1>0, <1>4, <1>5, <1>6, <2>1, <3>1
            <3>2. CASE j <= Len(q) /\ ~(k <= Len(q))
                  <4>1. k - Len(q) \in 1 .. n /\ j \in 1 .. Len(q)
                        BY <1>0, <1>4, <3>2
                  <4> QED BY <1>4, <1>5, <1>7, <2>1, <3>2, <4>1
            <3>3. CASE ~(j <= Len(q)) /\ k <= Len(q)
                  <4>1. j - Len(q) \in 1 .. n /\ k \in 1 .. Len(q)
                        BY <1>0, <1>4, <3>3
                  <4> QED BY <1>4, <1>5, <1>7, <2>1, <3>3, <4>1
            <3>4. CASE ~(j <= Len(q)) /\ ~(k <= Len(q))
                  <4>1. j - Len(q) \in 1 .. n /\ k - Len(q) \in 1 .. n
                        BY <1>0, <1>4, <3>4
                  <4>2. j - Len(q) = k - Len(q)
                        BY <1>1, <1>4, <1>5, <2>1, <3>4, <4>1
                  <4> QED BY <1>0, <4>2
            <3> QED BY <3>1, <3>2, <3>3, <3>4
      <2> QED BY <1>4, <2>1, RangeFacts
<1>9. Range(s) = Range(q) \cup Range(new)
      <2>1. ASSUME NEW h \in Range(s)
            PROVE  h \in Range(q) \cup Range(new)
            <3>1. PICK i \in 1 .. Len(q) + n : s[i] = h
                  BY <1>4, <2>1, RangeFacts
            <3>2. CASE i <= Len(q)
                  BY <1>0, <1>5, <3>1, <3>2, RangeFacts
            <3>3. CASE ~(i <= Len(q))
                  <4>1. i - Len(q) \in 1 .. n /\ new[i - Len(q)] = h
                        BY <1>0, <1>5, <3>1, <3>3
                  <4> QED BY <1>3, <4>1
            <3> QED BY <3>2, <3>3
      <2>2. ASSUME NEW h \in Range(q)
            PROVE  h \in Range(s)
            <3>1. PICK i \in 1 .. Len(q) : q[i] = h
                  BY RangeFacts
            <3>2. i \in 1 .. Len(s) /\ s[i] = h
                  BY <1>0, <1>4, <1>5, <3>1
            <3> QED BY <1>4, <3>2, RangeFacts
      <2>3. ASSUME NEW h \in Range(new)
            PROVE  h \in Range(s)
            <3>1. PICK i \in 1 .. n : new[i] = h
                  BY <1>3
            <3>2. /\ Len(q) + i \in 1 .. Len(s) /\ ~(Len(q) + i <= Len(q))
                  /\ (Len(q) + i) - Len(q) = i
                  BY <1>0, <1>4
            <3>3. s[Len(q) + i] = h
                  BY <1>4, <1>5, <3>1, <3>2
            <3> QED BY <1>4, <3>2, <3>3, RangeFacts
      <2> QED BY <2>1, <2>2, <2>3
<1> QED BY <1>3, <1>4, <1>8, <1>9 DEF s

\* What reconcileWorkers makes of a pool q that holds what goes on unflagged.
LEMMA ReconcileFacts ==
    ASSUME PoolTypeOK, NEW q \in Seq(Handle), IsInjective(q),
           NEW state \in [Handle -> LoopState], NEW r \in Routing,
           Range(q) = {h \in Handle : state[h] # "unused"} \ flagged,
           Reconcile(q, state, r)
    PROVE  /\ pool' \in Seq(Handle) /\ IsInjective(pool') /\ Len(pool') <= Desired(r)
           /\ loop' \in [Handle -> LoopState]
           /\ flagged' \subseteq Handle /\ shrunk' \subseteq Handle
           /\ Range(pool') = {h \in Handle : loop'[h] # "unused"} \ flagged'
           /\ \A h \in Handle :
                 /\ loop'[h] # "unused" /\ h \in flagged' =>
                       state[h] # "unused" /\ (h \in flagged \/ h \in shrunk')
                 /\ state[h] # "unused" /\ h \in shrunk => h \in shrunk'
                 /\ Desired(r) = 0 /\ loop'[h] # "unused" => state[h] # "unused"
<1>0. Len(q) \in Nat /\ Desired(r) \in Nat /\ MaxWorkers \in Nat
      <2>1. r.max_concurrency \in 1 .. MaxWorkers
            BY DEF Routing
      <2> QED BY <2>1, PoolAssumption, LenProperties DEF Desired
<1>1. flagged \subseteq Handle /\ shrunk \subseteq Handle
      BY DEF PoolTypeOK
<1> DEFINE over == {h \in Handle : state[h] = "unused"}
<1>2. CASE Len(q) >= Desired(r)
      <2> DEFINE excess == Len(q) - Desired(r)
                 out  == SubSeq(q, 1, excess)
                 rest == SubSeq(q, excess + 1, Len(q))
      <2>1. /\ pool' = rest /\ loop' = state
            /\ flagged' = (flagged \cup Range(out)) \ over
            /\ shrunk' = (shrunk \cup Range(out)) \ over
            BY <1>2 DEF Reconcile
      <2>2. excess \in 0 .. Len(q)
            BY <1>0, <1>2
      <2> HIDE DEF excess
      <2>3. /\ rest \in Seq(Handle) /\ IsInjective(rest) /\ Len(rest) = Len(q) - excess
            /\ Range(out) \subseteq Handle
            /\ Range(rest) = Range(q) \ Range(out)
            /\ Range(out) \subseteq Range(q)
            BY <2>2, SplitFacts
      <2>4. Len(rest) <= Desired(r)
            BY <1>0, <2>3 DEF excess
      <2> HIDE DEF out, rest
      <2> QED BY <1>1, <2>1, <2>3, <2>4
<1>3. CASE ~(Len(q) >= Desired(r))
      <2> DEFINE missing == Desired(r) - Len(q)
      <2>1. PICK new \in Injection(1 .. missing, over) :
               /\ pool' = q \o new
               /\ loop' = [h \in Handle |-> IF h \in Range(new) THEN "pass" ELSE state[h]]
               /\ flagged' = flagged \ over
               /\ shrunk' = shrunk \ over
            BY <1>3 DEF Reconcile
      <2>2. missing \in Nat /\ Len(q) + missing = Desired(r)
            BY <1>0, <1>3
      <2>3. over \in SUBSET Handle /\ Range(q) \cap over = {}
            OBVIOUS
      <2> HIDE DEF missing
      <2>4. /\ q \o new \in Seq(Handle) /\ IsInjective(q \o new) /\ Len(q \o new) = Len(q) + missing
            /\ Range(q \o new) = Range(q) \cup Range(new)
            /\ Range(new) \subseteq over
            BY <2>2, <2>3, JoinFacts
      <2>5. Desired(r) # 0
            BY <1>0, <1>3
      <2>6. loop' \in [Handle -> LoopState]
            BY <2>1 DEF LoopState
      <2>7. \A h \in Handle : loop'[h] = IF h \in Range(new) THEN "pass" ELSE state[h]
            BY <2>1
      <2>8. Len(pool') <= Desired(r)
            BY <1>0, <2>1, <2>2, <2>4
      <2> QED BY <1>1, <2>1, <2>3, <2>4, <2>5, <2>6, <2>7, <2>8
<1> QED BY <1>2, <1>3

-----------------------------------------------------------------------------
(* The steps of the pool.                                                  *)

LEMMA InjectiveEmpty == <<>> \in Seq(Handle) /\ IsInjective(<<>>) /\ Range(<<>>) = {} /\ Len(<<>>) = 0
<1>1. <<>> \in Seq(Handle) /\ Len(<<>>) = 0
      BY EmptySeq
<1>2. 1 .. 0 = {}
      OBVIOUS
<1> QED BY <1>1, <1>2, RangeFacts

\* Steps that concern requests and the operator's row only.
LEMMA NetworkStep ==
    ASSUME PoolInv, UNCHANGED <<route, service, pool, loop, flagged, awaited, shrunk>>,
           served' \in Routing, fetch' \in [Fetch -> Response], changes' \in Nat
    PROVE  PoolInv'
BY DEF PoolInv, PoolTypeOK, Live, Leaving

LEMMA SendType ==
    ASSUME PoolTypeOK, Send PROVE fetch' \in [Fetch -> Response]
<1>1. PICK f \in Fetch : fetch' = [fetch EXCEPT ![f].state = "sent"]
      BY DEF Send
<1> QED BY <1>1 DEF PoolTypeOK, Response

LEMMA DefaultType == DefaultRouting \in Routing /\ NoRequest \in Response
BY PoolAssumption DEF DefaultRouting, Routing, NoRequest, Response

LEMMA PoolEmpty ==
    ASSUME PoolInv, service # "on"
    PROVE  pool = <<>> /\ Range(pool) = {}
<1>1. pool \in Seq(Handle) /\ Len(pool) <= 0
      BY DEF PoolInv, PoolTypeOK
<1>2. Len(pool) \in Nat
      BY <1>1, LenProperties
<1>3. Len(pool) = 0
      BY <1>1, <1>2
<1>4. pool = <<>>
      BY <1>1, <1>3, EmptySeq
<1> QED BY <1>4, InjectiveEmpty

LEMMA BoundType ==
    ASSUME NEW r \in Routing PROVE r.max_concurrency \in Nat
BY PoolAssumption DEF Routing

LEMMA StartStep ==
    ASSUME PoolInv, Start PROVE PoolInv'
<1>1. PoolTypeOK'
      BY SendType DEF PoolInv, PoolTypeOK, Start
<1>2. pool = <<>> /\ Len(pool) = 0
      BY PoolEmpty, InjectiveEmpty DEF Start
<1>3. Len(pool') <= IF service' = "on" /\ route'.active THEN route'.max_concurrency ELSE 0
      BY <1>1, <1>2, BoundType DEF Start, PoolTypeOK
<1> QED BY <1>1, <1>3 DEF PoolInv, Live, Leaving, Start

LEMMA RefreshRoutingStep ==
    ASSUME PoolInv, NEW f \in Fetch, RefreshRouting(f) PROVE PoolInv'
<1>1. /\ route' = IF fetch[f].state = "failed" THEN route ELSE fetch[f].row
      /\ fetch' = [fetch EXCEPT ![f] = NoRequest]
      /\ UNCHANGED <<served, service, awaited, changes>>
      /\ Reconcile(pool, loop, route')
      BY DEF RefreshRouting
<1>2. route' \in Routing /\ fetch' \in [Fetch -> Response]
      BY <1>1, DefaultType DEF PoolInv, PoolTypeOK, Response
<1>3. PICK r \in Routing : r = route'
      BY <1>2
<1>4. /\ pool \in Seq(Handle) /\ IsInjective(pool) /\ loop \in [Handle -> LoopState]
      /\ Range(pool) = {h \in Handle : loop[h] # "unused"} \ flagged
      BY DEF PoolInv, PoolTypeOK, Live, LoopState
<1>5. Reconcile(pool, loop, r)
      BY <1>1, <1>3
<1>6. /\ pool' \in Seq(Handle) /\ IsInjective(pool') /\ Len(pool') <= Desired(r)
      /\ loop' \in [Handle -> LoopState] /\ flagged' \subseteq Handle /\ shrunk' \subseteq Handle
      /\ Range(pool') = {h \in Handle : loop'[h] # "unused"} \ flagged'
      /\ \A h \in Handle :
            /\ loop'[h] # "unused" /\ h \in flagged' =>
                  loop[h] # "unused" /\ (h \in flagged \/ h \in shrunk')
            /\ loop[h] # "unused" /\ h \in shrunk => h \in shrunk'
            /\ Desired(r) = 0 /\ loop'[h] # "unused" => loop[h] # "unused"
      BY <1>4, <1>5, ReconcileFacts DEF PoolInv, LoopState
<1>7. Desired(r) = IF service' = "on" /\ route'.active THEN route'.max_concurrency ELSE 0
      BY <1>3 DEF Desired
<1>8. PoolTypeOK'
      BY <1>1, <1>2, <1>6 DEF PoolInv, PoolTypeOK, LoopState
<1>9. Leaving'
      <2>1. CASE service = "on"
            BY <1>1, <1>6, <2>1 DEF PoolInv, Leaving, Live
      <2>2. CASE service # "on"
            <3>1. Desired(r) = 0
                  BY <1>1, <1>7, <2>2
            <3> QED BY <1>1, <1>6, <2>2, <3>1 DEF PoolInv, Leaving, Live
      <2> QED BY <2>1, <2>2
<1> QED BY <1>6, <1>7, <1>8, <1>9 DEF PoolInv, Live

LEMMA LoopStep ==
    ASSUME PoolInv, NEW h \in Handle, loop[h] # "unused",
           NEW next \in {"pass", "sleep", "ending"}, loop' = [loop EXCEPT ![h] = next],
           UNCHANGED <<served, route, fetch, service, pool, flagged, awaited, shrunk, changes>>
    PROVE  PoolInv'
<1>1. PoolTypeOK'
      BY DEF PoolInv, PoolTypeOK
<1>2. Live' = Live
      BY DEF PoolInv, PoolTypeOK, Live
<1> QED BY <1>1, <1>2 DEF PoolInv, Leaving

LEMMA PassStep ==
    ASSUME PoolInv, NEW h \in Handle, PassEnds(h) \/ WakeUp(h) PROVE PoolInv'
<1>1. /\ loop[h] # "unused"
      /\ UNCHANGED <<served, route, fetch, service, pool, flagged, awaited, shrunk, changes>>
      BY DEF PassEnds, WakeUp
<1>2. PICK next \in {"pass", "sleep", "ending"} : loop' = [loop EXCEPT ![h] = next]
      BY DEF PassEnds, WakeUp, LoopNext
<1> QED BY <1>1, <1>2, LoopStep

LEMMA WorkerEndsStep ==
    ASSUME PoolInv, NEW h \in Handle, WorkerEnds(h) PROVE PoolInv'
<1> DEFINE state == [loop EXCEPT ![h] = "unused"]
           q == Without(pool, h)
<1>1. /\ loop[h] = "ending" /\ awaited' = awaited \ {h}
      /\ UNCHANGED <<served, route, fetch, service, changes>>
      BY DEF WorkerEnds
<1>2. /\ state \in [Handle -> LoopState]
      /\ {g \in Handle : state[g] # "unused"} = Live \ {h}
      /\ \A g \in Handle : state[g] # "unused" <=> (loop[g] # "unused" /\ g # h)
      BY DEF PoolInv, PoolTypeOK, LoopState, Live
<1>3. /\ q \in Seq(Handle) /\ IsInjective(q) /\ Range(q) = Range(pool) \ {h} /\ Len(q) <= Len(pool)
      BY WithoutFacts DEF PoolInv, PoolTypeOK
<1>4. Range(q) = {g \in Handle : state[g] # "unused"} \ flagged
      BY <1>2, <1>3 DEF PoolInv
<1>5. CASE service = "on"
      <2>1. Reconcile(q, state, route)
            BY <1>5 DEF WorkerEnds
      <2>2. route \in Routing
            BY DEF PoolInv, PoolTypeOK
      <2> HIDE DEF q, state
      <2>3. /\ pool' \in Seq(Handle) /\ IsInjective(pool') /\ Len(pool') <= Desired(route)
            /\ loop' \in [Handle -> LoopState] /\ flagged' \subseteq Handle /\ shrunk' \subseteq Handle
            /\ Range(pool') = {g \in Handle : loop'[g] # "unused"} \ flagged'
            /\ \A g \in Handle :
                  /\ loop'[g] # "unused" /\ g \in flagged' =>
                        state[g] # "unused" /\ (g \in flagged \/ g \in shrunk')
                  /\ state[g] # "unused" /\ g \in shrunk => g \in shrunk'
            BY <1>2, <1>3, <1>4, <2>1, <2>2, ReconcileFacts DEF PoolInv, LoopState
      <2>4. Desired(route) = IF service' = "on" /\ route'.active THEN route'.max_concurrency ELSE 0
            BY <1>1 DEF Desired
      <2>5. PoolTypeOK'
            BY <1>1, <2>3 DEF PoolInv, PoolTypeOK, LoopState
      <2>6. Leaving'
            BY <1>1, <1>2, <1>5, <2>3 DEF PoolInv, Leaving, Live
      <2> QED BY <2>3, <2>4, <2>5, <2>6 DEF PoolInv, Live
<1>6. CASE service # "on"
      <2>1. pool' = q /\ loop' = state /\ flagged' = flagged \ {h} /\ shrunk' = shrunk \ {h}
            BY <1>6 DEF WorkerEnds
      <2>2. q = <<>>
            BY <1>6, PoolEmpty DEF Without
      <2> HIDE DEF q, state
      <2>3. PoolTypeOK'
            BY <1>1, <1>2, <1>3, <2>1 DEF PoolInv, PoolTypeOK, LoopState
      <2>4. Live' = Live \ {h}
            BY <1>2, <2>1 DEF Live
      <2>5. Range(pool') = Live' \ flagged'
            BY <1>2, <1>3, <1>4, <2>1, <2>4
      <2>6. Leaving'
            BY <1>1, <1>6, <2>1, <2>4 DEF PoolInv, Leaving
      <2>7. Len(pool') <= IF service' = "on" /\ route'.active THEN route'.max_concurrency ELSE 0
            BY <1>1, <1>6, <2>1, <2>2, InjectiveEmpty
      <2> QED BY <1>3, <2>1, <2>3, <2>5, <2>6, <2>7 DEF PoolInv
<1> QED BY <1>5, <1>6

LEMMA StopStep ==
    ASSUME PoolInv, Stop PROVE PoolInv'
<1>1. Range(pool) \subseteq Handle
      BY RangeFacts DEF PoolInv, PoolTypeOK
<1>2. PoolTypeOK'
      BY <1>1, InjectiveEmpty DEF PoolInv, PoolTypeOK, Stop
<1>3. Range(pool') = {} /\ IsInjective(pool') /\ Len(pool') = 0
      BY InjectiveEmpty DEF Stop
<1>4. Live' = Live
      BY DEF Live, Stop
<1> QED BY <1>2, <1>3, <1>4 DEF PoolInv, Leaving, Stop

LEMMA StoppedStep ==
    ASSUME PoolInv, Stopped PROVE PoolInv'
BY DEF PoolInv, PoolTypeOK, Live, Leaving, Stopped

LEMMA InitPool ==
    ASSUME PoolInit PROVE PoolInv
<1>1. PoolTypeOK
      BY DefaultType, InjectiveEmpty DEF PoolInit, PoolTypeOK
<1>2. Live = {}
      BY DEF Live, PoolInit
<1> QED BY <1>1, <1>2, InjectiveEmpty DEF PoolInit, PoolInv, Leaving

LEMMA NextPool ==
    ASSUME PoolInv, [PoolNext]_poolVars PROVE PoolInv'
<1> USE DEF PoolInv, PoolTypeOK
<1>1. CASE Tick
      BY <1>1, SendType, NetworkStep DEF Tick
<1>2. CASE ChangeRouting
      BY <1>2, NetworkStep DEF ChangeRouting
<1>3. ASSUME NEW f \in Fetch, AnswerFetch(f)
      PROVE  PoolInv'
      <2>1. fetch' \in [Fetch -> Response]
            BY <1>3 DEF AnswerFetch, Response
      <2> QED BY <1>3, <2>1, NetworkStep DEF AnswerFetch
<1>4. ASSUME NEW f \in Fetch, FailFetch(f)
      PROVE  PoolInv'
      <2>1. fetch' \in [Fetch -> Response]
            BY <1>4 DEF FailFetch, Response
      <2> QED BY <1>4, <2>1, NetworkStep DEF FailFetch
<1>5. CASE UNCHANGED poolVars
      BY <1>5, NetworkStep DEF poolVars
<1> QED BY <1>1, <1>2, <1>3, <1>4, <1>5, StartStep, RefreshRoutingStep, PassStep, WorkerEndsStep,
           StopStep, StoppedStep DEF PoolNext, Network, Work

\* PoolInv holds in every state of every pool.
THEOREM PoolInductive == PoolSpec => []PoolInv
<1>1. PoolInit => PoolInv
      BY InitPool
<1>2. PoolInv /\ [PoolNext]_poolVars => PoolInv'
      BY NextPool
<1> QED BY <1>1, <1>2, PTL DEF PoolSpec

LEMMA InjectiveCount ==
    ASSUME NEW q \in Seq(Handle), IsInjective(q)
    PROVE  Cardinality(Range(q)) = Len(q)
<1>1. Len(q) \in Nat /\ DOMAIN q = 1 .. Len(q) /\ q \in [1 .. Len(q) -> Handle]
      BY LenProperties
<1>2. q \in Bijection(1 .. Len(q), Range(q))
      BY <1>1 DEF Bijection, Injection, Surjection, Range, IsInjective
<1>3. ExistsBijection(1 .. Len(q), Range(q))
      BY <1>2 DEF ExistsBijection
<1> QED BY <1>1, <1>3, FS_CountingElements

\* The pool is the set of the loops that go on and were not told to stop, for any
\* number of handles, requests under way and changes, in whatever order answers
\* come back; and a stop leaves only what had left the pool (reconcileWorkers).
THEOREM PoolIsSound == PoolSpec => []PoolSound
<1>1. PoolInv => PoolSound
      <2> SUFFICES ASSUME PoolInv PROVE PoolSound
          OBVIOUS
      <2>1. Cardinality(Range(pool)) = Len(pool)
            BY InjectiveCount DEF PoolInv, PoolTypeOK
      <2>2. PoolIsLive
            BY <2>1 DEF PoolInv, PoolIsLive, Live
      <2>3. StopWaits
            BY DEF PoolInv, Leaving, Live, StopWaits
      <2> QED BY <2>2, <2>3 DEF PoolSound
<1> QED BY <1>1, PoolInductive, PTL

-----------------------------------------------------------------------------
(* The review loop.                                                        *)

\* What a task of the loop builds on: a round after the first has them all.
Needs == [explorer   |-> {},
          experiment |-> {"hypotheses"},
          writer     |-> {"hypotheses", "results_summary"},
          reviewer   |-> {"hypotheses", "results_summary", "draft"}]

Working == {"read", "register", "complete"}

\* What a call knows of the task of its pass, and of what it has registered.
PassSound(c, tasks, artifacts) ==
    /\ c.step # "idle" => c.task \in DOMAIN tasks
    /\ c.step \in Working => tasks[c.task].status = "in_progress"
    /\ c.step \in {"register", "complete"} => c.event \in CompletionTypes(tasks[c.task].owner)
    /\ c.step = "complete" =>
          \E a \in DOMAIN artifacts : /\ artifacts[a].task = c.task
                                      /\ artifacts[a].type = ArtifactType[tasks[c.task].owner]

Has(artifacts, type) == \E a \in DOMAIN artifacts : artifacts[a].type = type

Supplied(tasks, artifacts) ==
    /\ \A t, u \in DOMAIN tasks : tasks[t].status # "done" /\ tasks[u].status # "done" => t = u
    /\ \A t \in DOMAIN tasks :
          /\ tasks[t].status # "blocked"
          /\ tasks[t].status # "done" =>
                \A type \in Needs[tasks[t].owner] : Has(artifacts, type)

\* While nobody posts tasks, the one task of the loop has what it builds on.
FileInv ==
    /\ ReviewTypeOK
    /\ \A r \in Runner : PassSound(call[r], task, artifact)
    /\ \A r, s \in Runner : /\ call[r].step \in Working /\ call[s].step \in Working
                            /\ call[r].task = call[s].task
                            => r = s
    /\ posts = 0 => Supplied(task, artifact)

ReportsOf(artifacts) == {a \in DOMAIN artifacts : artifacts[a].type = "review_report"}

RoundsTold(artifacts) ==
    \A a \in ReportsOf(artifacts) :
        artifacts[a].event = Decision(Cardinality({b \in ReportsOf(artifacts) : b < a}))

\* A review that is to be registered was decided by the reports there are.
RoundsInv ==
    /\ FileInv
    /\ RoundsTold(artifact)
    /\ \A r \in Runner :
          call[r].step = "register" /\ task[call[r].task].owner = "reviewer" =>
              call[r].event = Decision(Cardinality(ReportsOf(artifact)))

TaskStates == {"todo", "in_progress", "done", "blocked"}

LEMMA RoutingFacts ==
    /\ \A type \in DownstreamType : DownstreamOwner[type] \in Role
    /\ \A type : DownstreamState(type) \in AgentState
    /\ \A owner \in Role : /\ ArtifactType[owner] \in {ArtifactType[r] : r \in Role}
                           /\ CompletionTypes(owner) \subseteq EventType
                           /\ Inputs[owner] \subseteq Needs[owner]
BY DEF DownstreamType, DownstreamOwner, DownstreamState, AgentState, Role, CompletionTypes,
       EventType, ControlType, Inputs, Needs

\* What a task builds on, the task before it built on or has made.
LEMMA NeedsMet ==
    ASSUME NEW owner \in Role, NEW event \in CompletionTypes(owner), event \in DownstreamType
    PROVE  Needs[DownstreamOwner[event]] \subseteq Needs[owner] \cup {ArtifactType[owner]}
<1>1. CASE owner = "explorer"
      BY <1>1 DEF CompletionTypes, DownstreamOwner, Needs, ArtifactType
<1>2. CASE owner = "experiment"
      BY <1>2 DEF CompletionTypes, DownstreamOwner, Needs, ArtifactType
<1>3. CASE owner = "writer"
      BY <1>3 DEF CompletionTypes, DownstreamOwner, Needs, ArtifactType
<1>4. CASE owner = "reviewer"
      BY <1>4 DEF CompletionTypes, DownstreamOwner, DownstreamType, Needs, ArtifactType
<1> QED BY <1>1, <1>2, <1>3, <1>4 DEF Role

LEMMA TaskSet ==
    ASSUME NEW tasks \in Seq(TaskRow), NEW t \in DOMAIN tasks, NEW status \in TaskStates
    PROVE  LET new == [tasks EXCEPT ![t].status = status] IN
           /\ new \in Seq(TaskRow) /\ DOMAIN new = DOMAIN tasks /\ Len(new) = Len(tasks)
           /\ \A u \in DOMAIN tasks : /\ u # t => new[u] = tasks[u]
                                      /\ u = t => new[u].status = status
                                      /\ new[u].owner = tasks[u].owner
<1> DEFINE row == [tasks[t] EXCEPT !.status = status]
           new == [tasks EXCEPT ![t] = row]
<1>1. DOMAIN tasks = 1 .. Len(tasks) /\ \A u \in DOMAIN tasks : tasks[u] \in TaskRow
      BY LenProperties, ElementOfSeq
<1>2. row \in TaskRow /\ row.status = status /\ row.owner = tasks[t].owner
      BY <1>1 DEF TaskRow, TaskStates
<1> HIDE DEF row
<1>3. /\ new \in Seq(TaskRow) /\ Len(new) = Len(tasks)
      /\ \A u \in 1 .. Len(tasks) : new[u] = IF u = t THEN row ELSE tasks[u]
      BY <1>1, <1>2, ExceptSeq
<1>4. DOMAIN new = DOMAIN tasks
      OBVIOUS
<1>5. new = [tasks EXCEPT ![t].status = status]
      BY DEF row
<1> HIDE DEF new
<1> QED BY <1>1, <1>2, <1>3, <1>4, <1>5

LEMMA TaskAdd ==
    ASSUME NEW tasks \in Seq(TaskRow), NEW owner \in Role, NEW report \in Nat
    PROVE  LET new == Append(tasks, NewTask(owner, report)) IN
           /\ new \in Seq(TaskRow) /\ DOMAIN new = DOMAIN tasks \cup {Len(tasks) + 1}
           /\ Len(tasks) + 1 \notin DOMAIN tasks
           /\ \A u \in DOMAIN tasks : new[u] = tasks[u]
           /\ new[Len(tasks) + 1].owner = owner /\ new[Len(tasks) + 1].status = "todo"
<1> DEFINE row == NewTask(owner, report)
           new == Append(tasks, row)
<1>1. row \in TaskRow /\ row.owner = owner /\ row.status = "todo"
      BY DEF NewTask, TaskRow
<1>2. Len(tasks) \in Nat /\ DOMAIN tasks = 1 .. Len(tasks)
      BY LenProperties
<1> HIDE DEF row
<1>3. /\ new \in Seq(TaskRow) /\ Len(new) = Len(tasks) + 1
      /\ \A i \in 1 .. Len(tasks) : new[i] = tasks[i]
      /\ new[Len(tasks) + 1] = row
      BY <1>1, AppendProperties
<1>4. DOMAIN new = 1 .. Len(tasks) + 1
      BY <1>3, LenProperties
<1>5. 1 .. Len(tasks) + 1 = (1 .. Len(tasks)) \cup {Len(tasks) + 1}
      BY <1>2
<1> HIDE DEF new
<1> QED BY <1>1, <1>2, <1>3, <1>4, <1>5 DEF row, new

LEMMA ArtifactAdd ==
    ASSUME NEW artifacts \in Seq(ArtifactRow), NEW row \in ArtifactRow
    PROVE  LET new == Append(artifacts, row) IN
           /\ new \in Seq(ArtifactRow) /\ DOMAIN new = DOMAIN artifacts \cup {Len(artifacts) + 1}
           /\ Len(artifacts) + 1 \notin DOMAIN artifacts
           /\ \A a \in DOMAIN artifacts : new[a] = artifacts[a] /\ a < Len(artifacts) + 1
           /\ new[Len(artifacts) + 1] = row
           /\ DOMAIN artifacts \subseteq Nat /\ Len(artifacts) \in Nat
<1> DEFINE new == Append(artifacts, row)
<1>2. Len(artifacts) \in Nat /\ DOMAIN artifacts = 1 .. Len(artifacts)
      BY LenProperties
<1>3. /\ new \in Seq(ArtifactRow) /\ Len(new) = Len(artifacts) + 1
      /\ \A i \in 1 .. Len(artifacts) : new[i] = artifacts[i]
      /\ new[Len(artifacts) + 1] = row
      BY AppendProperties
<1>4. DOMAIN new = 1 .. Len(artifacts) + 1
      BY <1>3, LenProperties
<1>5. 1 .. Len(artifacts) + 1 = (1 .. Len(artifacts)) \cup {Len(artifacts) + 1}
      BY <1>2
<1> HIDE DEF new
<1> QED BY <1>2, <1>3, <1>4, <1>5 DEF new

\* Tables grow: no task changes its owner, and no artifact changes.
Grown(old, new) == \A t \in DOMAIN old : t \in DOMAIN new /\ new[t].owner = old[t].owner

Kept(old, new) == \A a \in DOMAIN old : a \in DOMAIN new /\ new[a] = old[a]

\* A call stays sound when the tables grow and its task stays its own.
LEMMA PassKept ==
    ASSUME NEW c, NEW tasks, NEW artifacts, PassSound(c, tasks, artifacts),
           NEW tasks2, NEW artifacts2, Grown(tasks, tasks2), Kept(artifacts, artifacts2),
           c.step \in Working => tasks2[c.task].status = "in_progress"
    PROVE  PassSound(c, tasks2, artifacts2)
BY DEF PassSound, Grown, Kept, Working

LEMMA FileFacts ==
    ASSUME FileInv
    PROVE  /\ task \in Seq(TaskRow) /\ artifact \in Seq(ArtifactRow) /\ posts \in Nat
           /\ agent \in [Role -> AgentState] /\ call \in [Runner -> Call]
           /\ \A t \in DOMAIN task : task[t] \in TaskRow /\ t \in Nat
           /\ \A a \in DOMAIN artifact : artifact[a] \in ArtifactRow /\ a \in Nat
           /\ \A r \in Runner : PassSound(call[r], task, artifact)
BY LenProperties, ElementOfSeq DEF FileInv, ReviewTypeOK

\* What is left to show of a step that puts runner r at c.
LEMMA FileStep ==
    ASSUME FileInv, NEW r \in Runner, NEW c \in Call, call' = [call EXCEPT ![r] = c],
           task' \in Seq(TaskRow), artifact' \in Seq(ArtifactRow),
           agent' \in [Role -> AgentState], posts' \in Nat,
           Grown(task, task'), Kept(artifact, artifact'), PassSound(c, task', artifact'),
           \A s \in Runner : s # r /\ call[s].step \in Working =>
               /\ task'[call[s].task].status = "in_progress"
               /\ c.step \in Working => c.task # call[s].task,
           posts' = 0 => Supplied(task', artifact')
    PROVE  FileInv'
<1>1. \A s \in Runner : call'[s] = IF s = r THEN c ELSE call[s]
      BY FileFacts
<1>2. call' \in [Runner -> Call]
      BY FileFacts
<1>3. ASSUME NEW s \in Runner
      PROVE  PassSound(call'[s], task', artifact')
      BY <1>1, FileFacts, PassKept
<1>4. ASSUME NEW s \in Runner, NEW u \in Runner, call'[s].step \in Working,
             call'[u].step \in Working, call'[s].task = call'[u].task
      PROVE  s = u
      BY <1>1, <1>4 DEF FileInv
<1>5. ReviewTypeOK'
      BY <1>2 DEF ReviewTypeOK
<1>6. (\A s \in Runner : PassSound(call[s], task, artifact))'
      BY <1>3 DEF PassSound, Working
<1>7. (posts = 0 => Supplied(task, artifact))'
      BY DEF Supplied, Has
<1> QED BY <1>4, <1>5, <1>6, <1>7 DEF FileInv, Working

-----------------------------------------------------------------------------
(* The steps of the loop.                                                  *)

LEMMA CallForm ==
    ASSUME NEW c \in Call
    PROVE  /\ IdleCall \in Call
           /\ c.step \in Step /\ c.task \in Nat /\ c.event \in EventType /\ c.excerpt \in Excerpt
BY DEF Call, IdleCall, Step, EventType, Excerpt

LEMMA IdlePass ==
    ASSUME NEW tasks, NEW artifacts
    PROVE  PassSound(IdleCall, tasks, artifacts) /\ IdleCall.step \notin Working
BY DEF PassSound, IdleCall, Working

LEMMA Unmoved ==
    /\ Grown(task, task) /\ Kept(artifact, artifact)
BY DEF Grown, Kept

\* The tasks of different runners are different, and in progress.
LEMMA WorkingFacts ==
    ASSUME FileInv, NEW r \in Runner, call[r].step \in Working
    PROVE  /\ call[r].task \in DOMAIN task /\ task[call[r].task].status = "in_progress"
           /\ task[call[r].task].owner \in Role
           /\ \A s \in Runner : s # r /\ call[s].step \in Working => call[s].task # call[r].task
           /\ \A s \in Runner : call[s].step \in Working => task[call[s].task].status = "in_progress"
<1>1. call[r].task \in DOMAIN task /\ task[call[r].task].status = "in_progress"
      BY FileFacts DEF PassSound, Working
<1>2. task[call[r].task].owner \in Role
      BY <1>1, FileFacts DEF TaskRow
<1> QED BY <1>1, <1>2, FileFacts DEF FileInv, PassSound

\* A step that leaves the tasks alone, of a runner that keeps its task.
LEMMA QuietFile ==
    ASSUME FileInv, NEW r \in Runner, call[r].step \in Working, NEW c \in Call,
           call' = [call EXCEPT ![r] = c], c.task = call[r].task,
           UNCHANGED <<task, agent, posts>>, artifact' \in Seq(ArtifactRow),
           Kept(artifact, artifact'), PassSound(c, task, artifact')
    PROVE  FileInv'
<1>1. Grown(task, task')
      BY Unmoved
<1>2. posts' = 0 => Supplied(task', artifact')
      BY DEF FileInv, Supplied, Has, Kept
<1>3. ASSUME NEW s \in Runner, s # r, call[s].step \in Working
      PROVE  task'[call[s].task].status = "in_progress" /\ c.task # call[s].task
      BY <1>3, WorkingFacts
<1>4. /\ task' \in Seq(TaskRow) /\ agent' \in [Role -> AgentState] /\ posts' \in Nat
      /\ PassSound(c, task', artifact')
      BY FileFacts
<1> QED BY <1>1, <1>2, <1>3, <1>4, FileStep

LEMMA ClaimTaskFile ==
    ASSUME FileInv, NEW r \in Runner, ClaimTask(r) PROVE FileInv'
<1>1. PICK t \in DOMAIN task :
         /\ task[t].status = "todo"
         /\ task' = [task EXCEPT ![t].status = "in_progress"]
         /\ agent' = [agent EXCEPT ![task[t].owner] = "executing"]
         /\ call' = [call EXCEPT ![r] = [IdleCall EXCEPT !.step = "read", !.task = t]]
      BY DEF ClaimTask, Goto
<1>2. UNCHANGED <<artifact, posts>>
      BY DEF ClaimTask
<1> DEFINE c == [IdleCall EXCEPT !.step = "read", !.task = t]
<1>3. /\ task' \in Seq(TaskRow) /\ DOMAIN task' = DOMAIN task
      /\ \A u \in DOMAIN task : /\ u # t => task'[u] = task[u]
                                /\ u = t => task'[u].status = "in_progress"
                                /\ task'[u].owner = task[u].owner
      BY <1>1, FileFacts, TaskSet DEF TaskStates
<1>4. t \in Nat /\ task[t].owner \in Role
      BY FileFacts DEF TaskRow
<1>5. agent' \in [Role -> AgentState]
      BY <1>1, FileFacts DEF AgentState
<1>6. c \in Call /\ c.step = "read" /\ c.task = t
      BY <1>4 DEF IdleCall, Call, Step, EventType, Excerpt
<1> HIDE DEF c
<1>7. PassSound(c, task', artifact')
      BY <1>3, <1>6 DEF PassSound, Working
<1>8. Grown(task, task') /\ Kept(artifact, artifact')
      BY <1>2, <1>3 DEF Grown, Kept
<1>9. ASSUME NEW s \in Runner, call[s].step \in Working
      PROVE  task'[call[s].task].status = "in_progress" /\ call[s].task # t
      BY <1>1, <1>3, <1>9, WorkingFacts
<1>10. posts' = 0 => Supplied(task', artifact')
      <2>1. \A u \in DOMAIN task : /\ task'[u].status # "done" <=> task[u].status # "done"
                                   /\ task'[u].status = "blocked" => task[u].status = "blocked"
            BY <1>1, <1>3
      <2> QED BY <1>2, <1>3, <2>1 DEF FileInv, Supplied
<1>11. call' = [call EXCEPT ![r] = c]
      BY <1>1 DEF c
<1> QED BY <1>2, <1>3, <1>5, <1>6, <1>7, <1>8, <1>9, <1>10, <1>11, FileFacts, FileStep

\* Where nobody posts tasks, no task misses its inputs.
LEMMA InputsThere ==
    ASSUME FileInv, posts = 0, NEW r \in Runner PROVE ~ MissesInputs(r)
<1> SUFFICES ASSUME MissesInputs(r) PROVE FALSE
    OBVIOUS
<1>1. call[r].step \in Working
      BY DEF MissesInputs, Working
<1>2. TaskOf(r).owner \in Role /\ TaskOf(r).status # "done" /\ call[r].task \in DOMAIN task
      BY <1>1, WorkingFacts DEF TaskOf
<1>3. PICK type \in Inputs[TaskOf(r).owner] : OfType(type) = {}
      BY DEF MissesInputs
<1>4. type \in Needs[TaskOf(r).owner]
      BY <1>2, <1>3, RoutingFacts
<1>5. Has(artifact, type)
      BY <1>2, <1>4 DEF FileInv, Supplied, TaskOf
<1> QED BY <1>3, <1>5 DEF Has, OfType

LEMMA MissesInputsFile ==
    ASSUME FileInv, NEW r \in Runner, MissesInputs(r) PROVE FileInv'
<1> DEFINE t == call[r].task
<1>1. /\ call[r].step = "read"
      /\ task' = [task EXCEPT ![t].status = "blocked"]
      /\ agent' = [agent EXCEPT ![task[t].owner] = "blocked"]
      /\ call' = [call EXCEPT ![r] = IdleCall]
      /\ UNCHANGED <<artifact, posts>>
      BY DEF MissesInputs, Goto, TaskOf
<1>2. /\ t \in DOMAIN task /\ task[t].status = "in_progress" /\ task[t].owner \in Role
      /\ \A s \in Runner : s # r /\ call[s].step \in Working => call[s].task # t
      /\ \A s \in Runner : call[s].step \in Working => task[call[s].task].status = "in_progress"
      BY <1>1, WorkingFacts DEF Working
<1>3. /\ task' \in Seq(TaskRow) /\ DOMAIN task' = DOMAIN task
      /\ \A u \in DOMAIN task : /\ u # t => task'[u] = task[u]
                                /\ task'[u].owner = task[u].owner
      BY <1>1, <1>2, FileFacts, TaskSet DEF TaskStates
<1>4. agent' \in [Role -> AgentState]
      BY <1>1, FileFacts DEF AgentState
<1>5. Grown(task, task') /\ Kept(artifact, artifact')
      BY <1>1, <1>3 DEF Grown, Kept
<1>6. posts' # 0
      BY <1>1, InputsThere
<1>7. PassSound(IdleCall, task', artifact') /\ IdleCall.step \notin Working /\ IdleCall \in Call
      BY IdlePass, CallForm, FileFacts
<1>8. ASSUME NEW s \in Runner, s # r, call[s].step \in Working
      PROVE  task'[call[s].task].status = "in_progress"
      BY <1>2, <1>3, <1>8, WorkingFacts
<1> QED BY <1>1, <1>3, <1>4, <1>5, <1>6, <1>7, <1>8, FileFacts, FileStep

LEMMA ReadInputsFile ==
    ASSUME FileInv, NEW r \in Runner, ReadInputs(r) PROVE FileInv'
<1>1. PICK event \in CompletionTypes(TaskOf(r).owner), excerpt \in Excerpt :
         call' = [call EXCEPT ![r] = [call[r] EXCEPT !.step = "register", !.event = event,
                                                     !.excerpt = excerpt]]
      BY DEF ReadInputs, Goto, ExcerptOf, Excerpt
<1>2. call[r].step = "read" /\ UNCHANGED <<task, artifact, agent, posts>>
      BY DEF ReadInputs
<1> DEFINE c == [call[r] EXCEPT !.step = "register", !.event = event, !.excerpt = excerpt]
<1>3. /\ call[r].task \in DOMAIN task /\ task[call[r].task].status = "in_progress"
      /\ task[call[r].task].owner \in Role
      BY <1>2, WorkingFacts DEF Working
<1>4. event \in EventType
      BY <1>3, RoutingFacts DEF TaskOf
<1>5. c \in Call /\ c.step = "register" /\ c.task = call[r].task /\ c.event = event
      BY <1>4, FileFacts DEF Call, Step
<1> HIDE DEF c
<1>6. PassSound(c, task, artifact')
      BY <1>2, <1>3, <1>5 DEF PassSound, Working, TaskOf
<1>7. call' = [call EXCEPT ![r] = c]
      BY <1>1 DEF c
<1>8. Kept(artifact, artifact') /\ artifact' \in Seq(ArtifactRow)
      BY <1>2, Unmoved, FileFacts
<1> QED BY <1>2, <1>5, <1>6, <1>7, <1>8, QuietFile DEF Working

LEMMA RegisterOutputFile ==
    ASSUME FileInv, NEW r \in Runner, RegisterOutput(r) PROVE FileInv'
<1> DEFINE t == call[r].task
           row == [type |-> ArtifactType[task[t].owner], task |-> t, event |-> call[r].event]
           c == [call[r] EXCEPT !.step = "complete"]
<1>1. /\ call[r].step = "register" /\ UNCHANGED <<task, agent, posts>>
      /\ artifact' = Append(artifact, row) /\ call' = [call EXCEPT ![r] = c]
      BY DEF RegisterOutput, Goto, TaskOf
<1>2. /\ t \in DOMAIN task /\ task[t].status = "in_progress" /\ task[t].owner \in Role
      /\ call[r].event \in CompletionTypes(task[t].owner)
      BY <1>1, WorkingFacts, FileFacts DEF Working, PassSound
<1>3. c \in Call /\ c.step = "complete" /\ c.task = t /\ c.event = call[r].event
      BY FileFacts DEF Call, Step
<1>4. row \in ArtifactRow /\ row.task = t /\ row.type = ArtifactType[task[t].owner]
      BY <1>2, RoutingFacts, FileFacts DEF ArtifactRow
<1> HIDE DEF c, row
<1>5. /\ artifact' \in Seq(ArtifactRow)
      /\ DOMAIN artifact' = DOMAIN artifact \cup {Len(artifact) + 1}
      /\ \A a \in DOMAIN artifact : artifact'[a] = artifact[a]
      /\ artifact'[Len(artifact) + 1] = row
      BY <1>1, <1>4, FileFacts, ArtifactAdd
<1>6. Kept(artifact, artifact')
      BY <1>5 DEF Kept
<1>7. PassSound(c, task, artifact')
      BY <1>2, <1>3, <1>4, <1>5 DEF PassSound, Working
<1> QED BY <1>1, <1>3, <1>5, <1>6, <1>7, QuietFile DEF Working

\* The report of a pass is there when it completes.
LEMMA OutputFacts ==
    ASSUME FileInv, NEW r \in Runner, call[r].step = "complete"
    PROVE  OutputOf(r) \in DOMAIN artifact
<1>1. \E a \in DOMAIN artifact : artifact[a].task = call[r].task
      BY FileFacts DEF PassSound
<1> QED BY <1>1 DEF OutputOf

LEMMA CompleteTaskFile ==
    ASSUME FileInv, NEW r \in Runner, CompleteTask(r) PROVE FileInv'
<1> DEFINE t == call[r].task
           owner == task[t].owner
           event == call[r].event
           report == IF owner = "reviewer" THEN OutputOf(r) ELSE 0
           done == [task EXCEPT ![t].status = "done"]
           c == [call[r] EXCEPT !.step = "settle"]
           next == DownstreamOwner[event]
<1>1. /\ call[r].step = "complete" /\ UNCHANGED <<artifact, posts>>
      /\ task' = IF event \in DownstreamType THEN Append(done, NewTask(next, report)) ELSE done
      /\ call' = [call EXCEPT ![r] = c]
      BY DEF CompleteTask, Goto, TaskOf
<1>2. /\ t \in DOMAIN task /\ task[t].status = "in_progress" /\ owner \in Role
      /\ event \in CompletionTypes(owner) /\ Has(artifact, ArtifactType[owner])
      /\ \A s \in Runner : s # r /\ call[s].step \in Working => call[s].task # t
      BY <1>1, WorkingFacts, FileFacts DEF Working, PassSound, Has
<1>3. agent' \in [Role -> AgentState]
      <2>1. \/ agent' = [agent EXCEPT ![next] = DownstreamState(event)]
            \/ agent' = [agent EXCEPT !["writer"] = "done"]
            BY DEF CompleteTask
      <2>2. DownstreamState(event) \in AgentState /\ "done" \in AgentState
            BY RoutingFacts DEF AgentState
      <2> QED BY <2>1, <2>2, FileFacts
<1>4. c \in Call /\ c.step = "settle" /\ c.task = t
      BY FileFacts DEF Call, Step
<1>5. report \in Nat
      BY <1>1, OutputFacts, FileFacts
<1> HIDE DEF report, c
<1>6. /\ done \in Seq(TaskRow) /\ DOMAIN done = DOMAIN task /\ Len(done) = Len(task)
      /\ \A u \in DOMAIN task : /\ u # t => done[u] = task[u]
                                /\ u = t => done[u].status = "done"
                                /\ done[u].owner = task[u].owner
      <2>1. task \in Seq(TaskRow) /\ t \in DOMAIN task /\ "done" \in TaskStates
            BY <1>2, FileFacts DEF TaskStates
      <2> HIDE DEF t
      <2> QED BY <2>1, TaskSet
<1> HIDE DEF done
<1>7. CASE event \in DownstreamType
      <2> DEFINE n == Len(done) + 1
      <2>1. next \in Role
            BY <1>7, RoutingFacts
      <2>2. /\ task' \in Seq(TaskRow) /\ DOMAIN task' = DOMAIN done \cup {n} /\ n \notin DOMAIN done
            /\ \A u \in DOMAIN done : task'[u] = done[u]
            /\ task'[n].owner = next /\ task'[n].status = "todo"
            BY <1>1, <1>5, <1>6, <1>7, <2>1, TaskAdd
      <2> HIDE DEF n
      <2>3. Grown(task, task') /\ Kept(artifact, artifact')
            BY <1>1, <1>6, <2>2 DEF Grown, Kept
      <2>4. PassSound(c, task', artifact')
            BY <1>2, <1>4, <1>6, <2>2 DEF PassSound, Working
      <2>5. ASSUME NEW s \in Runner, s # r, call[s].step \in Working
            PROVE  task'[call[s].task].status = "in_progress"
            <3>1. call[s].task \in DOMAIN task /\ task[call[s].task].status = "in_progress"
                  BY <2>5, WorkingFacts
            <3> QED BY <1>2, <1>6, <2>2, <2>5, <3>1
      <2>6. ASSUME posts = 0
            PROVE  Supplied(task', artifact')
            <3>1. \A u \in DOMAIN task : task[u].status # "done" => u = t
                  BY <1>2, <2>6 DEF FileInv, Supplied
            <3>2. \A u \in DOMAIN task' : task'[u].status # "done" => u = n
                  BY <1>6, <2>2, <3>1
            <3>3. \A u \in DOMAIN task' : task'[u].status # "blocked"
                  BY <1>6, <2>2, <2>6 DEF FileInv, Supplied
            <3>4. \A type \in Needs[owner] : Has(artifact, type)
                  BY <1>2, <2>6 DEF FileInv, Supplied
            <3>5. \A type \in Needs[next] : Has(artifact', type)
                  BY <1>1, <1>2, <1>7, <3>4, NeedsMet
            <3> QED BY <2>2, <3>2, <3>3, <3>5 DEF Supplied
      <2>7. c.step \notin Working
            BY <1>4 DEF Working
      <2> QED BY <1>1, <1>3, <1>4, <2>2, <2>3, <2>4, <2>5, <2>6, <2>7, FileFacts, FileStep
<1>8. CASE event \notin DownstreamType
      <2>1. task' = done
            BY <1>1, <1>8
      <2>2. Grown(task, task') /\ Kept(artifact, artifact')
            BY <1>1, <1>6, <2>1 DEF Grown, Kept
      <2>3. PassSound(c, task', artifact')
            BY <1>2, <1>4, <1>6, <2>1 DEF PassSound, Working
      <2>4. ASSUME NEW s \in Runner, s # r, call[s].step \in Working
            PROVE  task'[call[s].task].status = "in_progress"
            BY <1>2, <1>6, <2>1, <2>4, WorkingFacts
      <2>5. ASSUME posts = 0
            PROVE  Supplied(task', artifact')
            <3>1. \A u \in DOMAIN task : task[u].status # "done" => u = t
                  BY <1>2, <2>5 DEF FileInv, Supplied
            <3>2. \A u \in DOMAIN task' : task'[u].status = "done"
                  BY <1>6, <2>1, <3>1
            <3> QED BY <3>2 DEF Supplied
      <2>6. c.step \notin Working
            BY <1>4 DEF Working
      <2>7. /\ task' \in Seq(TaskRow) /\ artifact' \in Seq(ArtifactRow) /\ posts' \in Nat
            /\ posts' = posts /\ call' = [call EXCEPT ![r] = c] /\ c \in Call
            BY <1>1, <1>4, <1>6, <2>1, FileFacts
      <2> HIDE DEF t, event, next, owner
      <2> QED BY <1>3, <2>2, <2>3, <2>4, <2>5, <2>6, <2>7, FileStep
<1> QED BY <1>7, <1>8

LEMMA SettleAgentFile ==
    ASSUME FileInv, NEW r \in Runner, SettleAgent(r) PROVE FileInv'
<1>1. /\ agent' = [agent EXCEPT ![TaskOf(r).owner] = "idle"]
      /\ call' = [call EXCEPT ![r] = IdleCall]
      /\ UNCHANGED <<task, artifact, posts>>
      BY DEF SettleAgent, Goto
<1>2. agent' \in [Role -> AgentState]
      BY <1>1, FileFacts DEF AgentState
<1>3. /\ Grown(task, task') /\ Kept(artifact, artifact') /\ IdleCall \in Call
      /\ PassSound(IdleCall, task', artifact') /\ IdleCall.step \notin Working
      BY <1>1, Unmoved, IdlePass, CallForm, FileFacts
<1>4. \A s \in Runner : call[s].step \in Working => task[call[s].task].status = "in_progress"
      BY WorkingFacts
<1>5. posts' = 0 => Supplied(task', artifact')
      BY <1>1 DEF FileInv
<1>6. task' \in Seq(TaskRow) /\ artifact' \in Seq(ArtifactRow) /\ posts' \in Nat
      BY <1>1, FileFacts
<1> QED BY <1>1, <1>2, <1>3, <1>4, <1>5, <1>6, FileStep

\* A step of an operator: no pass moves, no task in progress is touched.
LEMMA OperatorFile ==
    ASSUME FileInv, UNCHANGED <<artifact, call>>, posts' = posts + 1,
           task' \in Seq(TaskRow), agent' \in [Role -> AgentState], Grown(task, task'),
           \A t \in DOMAIN task : task[t].status = "in_progress" => task'[t].status = "in_progress"
    PROVE  FileInv'
<1>1. posts' \in Nat /\ posts' # 0
      BY FileFacts
<1>2. ReviewTypeOK'
      BY <1>1, FileFacts DEF ReviewTypeOK
<1>3. ASSUME NEW r \in Runner
      PROVE  PassSound(call'[r], task', artifact')
      <2>1. PassSound(call[r], task, artifact) /\ Kept(artifact, artifact')
            BY FileFacts, Unmoved
      <2>2. call[r].step \in Working => task'[call[r].task].status = "in_progress"
            BY <2>1 DEF PassSound, Working
      <2> QED BY <2>1, <2>2, PassKept
<1>4. (\A r \in Runner : PassSound(call[r], task, artifact))'
      BY <1>3 DEF PassSound, Working
<1>5. (\A r, s \in Runner : /\ call[r].step \in Working /\ call[s].step \in Working
                            /\ call[r].task = call[s].task
                            => r = s)'
      BY DEF FileInv, Working
<1> QED BY <1>1, <1>2, <1>4, <1>5 DEF FileInv

LEMMA PostTaskFile ==
    ASSUME FileInv, PostTask PROVE FileInv'
<1>1. PICK owner \in Role : task' = Append(task, NewTask(owner, 0))
      BY DEF PostTask
<1>2. posts' = posts + 1 /\ UNCHANGED <<artifact, agent, call>>
      BY DEF PostTask
<1>3. /\ task' \in Seq(TaskRow)
      /\ \A t \in DOMAIN task : t \in DOMAIN task' /\ task'[t] = task[t]
      BY <1>1, FileFacts, TaskAdd
<1>4. Grown(task, task')
      BY <1>3 DEF Grown
<1> QED BY <1>2, <1>3, <1>4, FileFacts, OperatorFile

LEMMA RequeueTaskFile ==
    ASSUME FileInv, RequeueTask PROVE FileInv'
<1>1. PICK t \in DOMAIN task :
         /\ task[t].status = "blocked"
         /\ task' = [task EXCEPT ![t].status = "todo"]
         /\ agent' = [agent EXCEPT ![task[t].owner] = "planning"]
      BY DEF RequeueTask
<1>2. posts' = posts + 1 /\ UNCHANGED <<artifact, call>>
      BY DEF RequeueTask
<1>3. /\ task' \in Seq(TaskRow) /\ DOMAIN task' = DOMAIN task
      /\ \A u \in DOMAIN task : /\ u # t => task'[u] = task[u]
                                /\ task'[u].owner = task[u].owner
      BY <1>1, FileFacts, TaskSet DEF TaskStates
<1>4. Grown(task, task')
      BY <1>3 DEF Grown
<1>5. agent' \in [Role -> AgentState]
      BY <1>1, FileFacts DEF AgentState
<1>6. \A u \in DOMAIN task : task[u].status = "in_progress" => task'[u].status = "in_progress"
      BY <1>1, <1>3
<1> QED BY <1>2, <1>3, <1>4, <1>5, <1>6, OperatorFile

LEMMA FileInit ==
    ASSUME ReviewInit PROVE FileInv
<1>1. /\ task = <<NewTask("explorer", 0)>> /\ artifact = <<>> /\ posts = 0
      /\ call = [r \in Runner |-> IdleCall]
      BY DEF ReviewInit
<1>2. NewTask("explorer", 0) \in TaskRow /\ NewTask("explorer", 0).status = "todo"
      /\ NewTask("explorer", 0).owner = "explorer"
      BY DEF NewTask, TaskRow, Role
<1>3. task \in Seq(TaskRow) /\ DOMAIN task = {1} /\ task[1] = NewTask("explorer", 0)
      BY <1>1, <1>2
<1>4. agent \in [Role -> AgentState]
      BY DEF ReviewInit, Role, AgentState
<1>5. IdleCall \in Call
      BY DEF IdleCall, Call, Step, EventType, Excerpt
<1>6. ReviewTypeOK
      BY <1>1, <1>3, <1>4, <1>5 DEF ReviewTypeOK
<1>7. Supplied(task, artifact)
      BY <1>2, <1>3 DEF Supplied, Needs
<1> QED BY <1>1, <1>6, <1>7, IdlePass DEF FileInv

LEMMA FileNext ==
    ASSUME FileInv, [ReviewNext]_reviewVars PROVE FileInv'
<1>1. CASE PostTask
      BY <1>1, PostTaskFile
<1>2. CASE RequeueTask
      BY <1>2, RequeueTaskFile
<1>3. ASSUME NEW r \in Runner, Pass(r) PROVE FileInv'
      BY <1>3, ClaimTaskFile, MissesInputsFile, ReadInputsFile, RegisterOutputFile,
         CompleteTaskFile, SettleAgentFile DEF Pass
<1>4. CASE UNCHANGED reviewVars
      BY <1>4 DEF FileInv, ReviewTypeOK, reviewVars, PassSound, Supplied, Has, Working
<1> QED BY <1>1, <1>2, <1>3, <1>4 DEF ReviewNext

\* Whatever the number of runners: every pass works on a task of its own, which
\* is in progress, and while nobody posts tasks the one task that is not
\* finished finds all it builds on (run_coordinators, DOWNSTREAM_TASK_RULES).
THEOREM FileInductive == ReviewSpec => []FileInv
<1>1. ReviewInit => FileInv
      BY FileInit
<1>2. FileInv /\ [ReviewNext]_reviewVars => FileInv'
      BY FileNext
<1> QED BY <1>1, <1>2, PTL DEF ReviewSpec

LEMMA FileSingle ==
    ASSUME FileInv PROVE SingleFile
<1> SUFFICES ASSUME posts = 0
             PROVE  Cardinality(Unfinished) <= 1 /\ \A t \in DOMAIN task : task[t].status # "blocked"
    BY DEF SingleFile
<1>1. \A t, u \in Unfinished : t = u
      BY DEF FileInv, Supplied, Unfinished
<1>2. Cardinality(Unfinished) <= 1
      <2>1. CASE Unfinished = {}
            BY <2>1, FS_EmptySet
      <2>2. CASE Unfinished # {}
            <3>1. PICK t \in Unfinished : Unfinished = {t}
                  BY <1>1, <2>2
            <3> QED BY <3>1, FS_Singleton
      <2> QED BY <2>1, <2>2
<1> QED BY <1>2 DEF FileInv, Supplied

\* The tasks of the loop run in single file for any number of runners: while
\* nobody posts tasks there is never more than one that is not done, and none
\* is ever blocked for want of an artifact (run_coordinators).
THEOREM LoopInSingleFile == ReviewSpec => []SingleFile
BY FileInductive, FileSingle, PTL

-----------------------------------------------------------------------------
(* The rounds of the reviewer, of one runner.                              *)

\* run_coordinators is called by one process.
OneRunner == \A r, s \in Runner : r = s

LEMMA RoundsAdd ==
    ASSUME NEW artifacts \in Seq(ArtifactRow), RoundsTold(artifacts), NEW row \in ArtifactRow,
           row.type = "review_report" => row.event = Decision(Cardinality(ReportsOf(artifacts)))
    PROVE  RoundsTold(Append(artifacts, row))
<1> DEFINE n == Len(artifacts) + 1
           old == ReportsOf(artifacts)
<1>1. PICK new \in Seq(ArtifactRow) : new = Append(artifacts, row)
      BY ArtifactAdd
<1>2. /\ DOMAIN new = DOMAIN artifacts \cup {n} /\ n \notin DOMAIN artifacts
      /\ \A a \in DOMAIN artifacts : new[a] = artifacts[a] /\ a < n
      /\ new[n] = row /\ DOMAIN artifacts \subseteq Nat /\ n \in Nat
      BY <1>1, ArtifactAdd
<1> HIDE DEF n
<1> SUFFICES ASSUME NEW a \in ReportsOf(new)
             PROVE  new[a].event = Decision(Cardinality({b \in ReportsOf(new) : b < a}))
    BY <1>1 DEF RoundsTold
<1>3. CASE a = n
      <2>1. {b \in ReportsOf(new) : b < a} = old
            BY <1>2, <1>3 DEF ReportsOf
      <2>2. row.type = "review_report" /\ new[a] = row
            BY <1>2, <1>3 DEF ReportsOf
      <2> QED BY <2>1, <2>2
<1>4. CASE a # n
      <2>1. a \in old /\ new[a] = artifacts[a] /\ a \in Nat /\ a < n
            BY <1>2, <1>4 DEF ReportsOf
      <2>2. {b \in ReportsOf(new) : b < a} = {b \in old : b < a}
            BY <1>2, <2>1 DEF ReportsOf
      <2> QED BY <2>1, <2>2 DEF RoundsTold
<1> QED BY <1>3, <1>4

\* A step that registers nothing and decides nothing.
LEMMA QuietRounds ==
    ASSUME OneRunner, RoundsInv, FileInv', NEW r \in Runner, NEW c,
           call' = [call EXCEPT ![r] = c], c.step # "register", UNCHANGED artifact
    PROVE  RoundsInv'
<1>1. \A s \in Runner : call'[s] = c
      BY FileFacts DEF OneRunner, RoundsInv
<1> QED BY <1>1 DEF RoundsInv, RoundsTold, ReportsOf

LEMMA ReadInputsRounds ==
    ASSUME OneRunner, RoundsInv, FileInv', NEW r \in Runner, ReadInputs(r) PROVE RoundsInv'
<1>1. PICK event \in CompletionTypes(TaskOf(r).owner), excerpt \in Excerpt :
         /\ TaskOf(r).owner = "reviewer" => event = Decision(Cardinality(OfType("review_report")))
         /\ call' = [call EXCEPT ![r] = [call[r] EXCEPT !.step = "register", !.event = event,
                                                        !.excerpt = excerpt]]
      BY DEF ReadInputs, Goto, ExcerptOf, Excerpt
<1>2. UNCHANGED <<task, artifact>>
      BY DEF ReadInputs
<1> DEFINE c == [call[r] EXCEPT !.step = "register", !.event = event, !.excerpt = excerpt]
<1>3. \A s \in Runner : s = r
      BY DEF OneRunner
<1>4. call'[r] = c /\ c.task = call[r].task /\ c.event = event
      BY <1>1, FileFacts DEF RoundsInv, Call
<1> HIDE DEF c
<1>5. task[call'[r].task].owner = "reviewer" =>
          call'[r].event = Decision(Cardinality(ReportsOf(artifact)))
      BY <1>1, <1>4 DEF TaskOf, OfType, ReportsOf
<1>6. (\A s \in Runner :
          call[s].step = "register" /\ task[call[s].task].owner = "reviewer" =>
              call[s].event = Decision(Cardinality(ReportsOf(artifact))))'
      BY <1>2, <1>3, <1>5 DEF ReportsOf
<1>7. RoundsTold(artifact)'
      BY <1>2 DEF RoundsInv, RoundsTold, ReportsOf
<1> QED BY <1>6, <1>7 DEF RoundsInv

LEMMA RegisterOutputRounds ==
    ASSUME OneRunner, RoundsInv, FileInv', NEW r \in Runner, RegisterOutput(r) PROVE RoundsInv'
<1> DEFINE t == call[r].task
           row == [type |-> ArtifactType[task[t].owner], task |-> t, event |-> call[r].event]
           c == [call[r] EXCEPT !.step = "complete"]
<1>1. /\ call[r].step = "register" /\ artifact' = Append(artifact, row)
      /\ call' = [call EXCEPT ![r] = c]
      BY DEF RegisterOutput, Goto, TaskOf
<1>2. FileInv /\ artifact \in Seq(ArtifactRow) /\ call \in [Runner -> Call]
      BY FileFacts DEF RoundsInv
<1>3. t \in Nat /\ t \in DOMAIN task /\ task[t].owner \in Role
      BY <1>1, <1>2, FileFacts, WorkingFacts DEF Working
<1>4. row \in ArtifactRow /\ row.type = ArtifactType[task[t].owner] /\ row.event = call[r].event
      BY <1>2, <1>3, RoutingFacts DEF ArtifactRow, Call
<1>5. row.type = "review_report" => task[t].owner = "reviewer"
      BY <1>3, <1>4 DEF ArtifactType, Role
<1>6. row.type = "review_report" => row.event = Decision(Cardinality(ReportsOf(artifact)))
      BY <1>1, <1>4, <1>5 DEF RoundsInv
<1>7. c.step = "complete"
      BY <1>2 DEF Call
<1> HIDE DEF row, c
<1>8. RoundsTold(artifact')
      BY <1>1, <1>2, <1>4, <1>6, RoundsAdd DEF RoundsInv
<1>9. \A s \in Runner : call'[s] = c
      BY <1>1, <1>2 DEF OneRunner
<1>10. RoundsTold(artifact)'
      BY <1>8 DEF RoundsTold, ReportsOf
<1> QED BY <1>7, <1>9, <1>10 DEF RoundsInv

\* A step of an operator: no task changes its owner.
LEMMA OperatorRounds ==
    ASSUME RoundsInv, FileInv', Grown(task, task'), UNCHANGED <<artifact, call>>
    PROVE  RoundsInv'
<1>1. \A r \in Runner : call[r].step = "register" => call[r].task \in DOMAIN task
      BY FileFacts DEF RoundsInv, PassSound
<1>2. \A r \in Runner : call[r].step = "register" =>
                            task'[call[r].task].owner = task[call[r].task].owner
      BY <1>1 DEF Grown
<1>3. RoundsTold(artifact)'
      BY DEF RoundsInv, RoundsTold, ReportsOf
<1> QED BY <1>2, <1>3 DEF RoundsInv, ReportsOf

LEMMA RoundsNext ==
    ASSUME OneRunner, RoundsInv, [ReviewNext]_reviewVars PROVE RoundsInv'
<1>1. FileInv /\ FileInv'
      BY FileNext DEF RoundsInv
<1>2. CASE PostTask
      <2>1. PICK owner \in Role : task' = Append(task, NewTask(owner, 0))
            BY <1>2 DEF PostTask
      <2>2. Grown(task, task')
            BY <1>1, <2>1, FileFacts, TaskAdd DEF Grown
      <2> QED BY <1>1, <1>2, <2>2, OperatorRounds DEF PostTask
<1>3. CASE RequeueTask
      <2>1. PICK t \in DOMAIN task : task' = [task EXCEPT ![t].status = "todo"]
            BY <1>3 DEF RequeueTask
      <2>2. Grown(task, task')
            BY <1>1, <2>1, FileFacts, TaskSet DEF Grown, TaskStates
      <2> QED BY <1>1, <1>3, <2>2, OperatorRounds DEF RequeueTask
<1>4. ASSUME NEW r \in Runner, Pass(r) PROVE RoundsInv'
      <2>1. CASE ReadInputs(r)
            BY <1>1, <2>1, ReadInputsRounds
      <2>2. CASE RegisterOutput(r)
            BY <1>1, <2>2, RegisterOutputRounds
      <2>3. ASSUME ClaimTask(r) \/ MissesInputs(r) \/ CompleteTask(r) \/ SettleAgent(r)
            PROVE  RoundsInv'
            <3>1. PICK c : call' = [call EXCEPT ![r] = c] /\ c.step # "register"
                  <4>1. ASSUME ClaimTask(r)
                        PROVE  \E c : call' = [call EXCEPT ![r] = c] /\ c.step # "register"
                        <5>1. PICK t \in DOMAIN task :
                                 call' = [call EXCEPT ![r] = [IdleCall EXCEPT !.step = "read", !.task = t]]
                              BY <4>1 DEF ClaimTask, Goto
                        <5>2. [IdleCall EXCEPT !.step = "read", !.task = t].step # "register"
                              BY DEF IdleCall
                        <5> QED BY <5>1, <5>2
                  <4>2. ASSUME MissesInputs(r) \/ SettleAgent(r)
                        PROVE  \E c : call' = [call EXCEPT ![r] = c] /\ c.step # "register"
                        <5>1. call' = [call EXCEPT ![r] = IdleCall] /\ IdleCall.step # "register"
                              BY <4>2 DEF MissesInputs, SettleAgent, Goto, IdleCall
                        <5> QED BY <5>1
                  <4>3. ASSUME CompleteTask(r)
                        PROVE  \E c : call' = [call EXCEPT ![r] = c] /\ c.step # "register"
                        <5>1. call' = [call EXCEPT ![r] = [call[r] EXCEPT !.step = "settle"]]
                              BY <4>3 DEF CompleteTask, Goto
                        <5>2. [call[r] EXCEPT !.step = "settle"].step # "register"
                              BY <1>1, FileFacts DEF Call
                        <5> QED BY <5>1, <5>2
                  <4> QED BY <2>3, <4>1, <4>2, <4>3
            <3>2. UNCHANGED artifact
                  BY <2>3 DEF ClaimTask, MissesInputs, CompleteTask, SettleAgent
            <3> QED BY <1>1, <3>1, <3>2, QuietRounds
      <2> QED BY <1>4, <2>1, <2>2, <2>3 DEF Pass
<1>5. CASE UNCHANGED reviewVars
      BY <1>1, <1>5, OperatorRounds, Unmoved DEF reviewVars
<1> QED BY <1>2, <1>3, <1>4, <1>5 DEF ReviewNext

-----------------------------------------------------------------------------
(* The script of a loop of one runner.                                     *)

\* The owners of the tasks of a loop that nobody disturbs.
Script == <<"explorer", "experiment", "writer", "reviewer", "experiment", "writer",
            "reviewer", "experiment", "writer", "reviewer", "writer", "reviewer">>

\* The reviews before the n-th task.
ReviewsBefore(n) == {t \in 1 .. n - 1 : Script[t] = "reviewer"}

\* What the n-th task is completed with.
Fits(event, n) ==
    /\ event \in CompletionTypes(Script[n])
    /\ Script[n] = "reviewer" => event = Decision(Cardinality(ReviewsBefore(n)))

\* How far a pass is with the last task, the n-th, and how many artifacts there are.
AtTask(c, n, status, made) ==
    \/ c.step = "idle" /\ status = "todo" /\ made = n - 1
    \/ c.step = "idle" /\ status = "done" /\ made = n
    \/ c.step = "read" /\ c.task = n /\ status = "in_progress" /\ made = n - 1
    \/ c.step = "register" /\ c.task = n /\ status = "in_progress" /\ made = n - 1 /\ Fits(c.event, n)
    \/ c.step = "complete" /\ c.task = n /\ status = "in_progress" /\ made = n /\ Fits(c.event, n)
    \/ c.step = "settle" /\ c.task = n - 1 /\ n > 1 /\ status = "todo" /\ made = n - 1
    \/ c.step = "settle" /\ c.task = n /\ status = "done" /\ made = n

\* The tasks are the first of the script, all but the last of them done.
InScript(tasks, artifacts) ==
    LET n == Len(tasks) IN
    /\ n \in 1 .. 12
    /\ \A t \in 1 .. n : tasks[t].owner = Script[t]
    /\ \A t \in 1 .. n - 1 : tasks[t].status = "done"
    /\ tasks[n].status = "done" => n = 12
    /\ \A a \in 1 .. Len(artifacts) : artifacts[a].type = ArtifactType[Script[a]]

\* The agents behind the loop are idle, but for the one that is about to be told, and
\* for the writer once the last review is done.
AtRest(agents, n, status, c) ==
    \A a \in Role :
        /\ a # Script[n] \/ status = "done"
        /\ \E t \in 1 .. n : Script[t] = a
        /\ ~ (c.step = "settle" /\ a = Script[c.task])
        => agents[a] = IF status = "done" /\ a = "writer" THEN "done" ELSE "idle"

\* A runner, and the loop it is at.
Scripted(tasks, artifacts, agents, c) ==
    LET n == Len(tasks) IN
    /\ InScript(tasks, artifacts)
    /\ AtTask(c, n, tasks[n].status, Len(artifacts))
    /\ AtRest(agents, n, tasks[n].status, c)

\* While nobody posts tasks, the loop of one runner goes through the script.
ScriptInv ==
    /\ RoundsInv
    /\ posts = 0 => /\ \A r \in Runner : Scripted(task, artifact, agent, call[r])
                    /\ Runner = {} => \E t \in DOMAIN task : task[t].status = "todo"

-----------------------------------------------------------------------------
(* The steps through the script.                                           *)

LEMMA ScriptRoles == \A n \in 1 .. 12 : Script[n] \in Role
BY DEF Script, Role

LEMMA ReviewCounts ==
    /\ Cardinality(ReviewsBefore(4)) = 0 /\ Cardinality(ReviewsBefore(7)) = 1
    /\ Cardinality(ReviewsBefore(10)) = 2 /\ Cardinality(ReviewsBefore(12)) = 3
<1>1. \A t \in 1 .. 11 : Script[t] = "reviewer" <=> t \in {4, 7, 10}
      BY DEF Script
<1> HIDE DEF Script
<1>2. ReviewsBefore(4) = {} /\ ReviewsBefore(7) = {4} /\ ReviewsBefore(10) = {4, 7}
      /\ ReviewsBefore(12) = {4, 7, 10}
      BY <1>1 DEF ReviewsBefore
<1>3. Cardinality({4}) = 1 /\ Cardinality({}) = 0
      BY FS_EmptySet, FS_Singleton
<1>4. ASSUME NEW S, NEW x, IsFiniteSet(S), x \notin S
      PROVE  IsFiniteSet(S \cup {x}) /\ Cardinality(S \cup {x}) = Cardinality(S) + 1
      BY <1>4, FS_AddElement
<1>5. IsFiniteSet({4})
      BY FS_Singleton
<1>6. {4, 7} = {4} \cup {7} /\ {4, 7, 10} = {4, 7} \cup {10}
      OBVIOUS
<1>7. IsFiniteSet({4, 7}) /\ Cardinality({4, 7}) = 2
      BY <1>3, <1>4, <1>5, <1>6
<1>8. Cardinality({4, 7, 10}) = 3
      BY <1>4, <1>6, <1>7
<1> QED BY <1>2, <1>3, <1>7, <1>8

LEMMA Decisions ==
    /\ Decision(0) = "review_requires_ablation" /\ Decision(1) = "review_requires_evidence"
    /\ Decision(2) = "review_requires_revision" /\ Decision(3) = "review_approved"
BY DEF Decision, ReviewSequence

\* Each task of the script is made by the event the one before it is completed with.
LEMMA ScriptFollows ==
    ASSUME NEW n \in 1 .. 12, NEW event, Fits(event, n)
    PROVE  /\ n < 12 => event \in DownstreamType /\ DownstreamOwner[event] = Script[n + 1]
           /\ n = 12 => event \notin DownstreamType
<1>1. CASE n = 1
      BY <1>1 DEF Fits, Script, CompletionTypes, DownstreamType, DownstreamOwner
<1>2. CASE n \in {2, 5, 8}
      BY <1>2 DEF Fits, Script, CompletionTypes, DownstreamType, DownstreamOwner
<1>3. CASE n \in {3, 6, 9, 11}
      BY <1>3 DEF Fits, Script, CompletionTypes, DownstreamType, DownstreamOwner
<1>4. CASE n \in {4, 7, 10, 12}
      <2>1. Script[n] = "reviewer" /\ event = Decision(Cardinality(ReviewsBefore(n)))
            BY <1>4 DEF Fits, Script
      <2>2. CASE n = 4
            <3>1. event = "review_requires_ablation"
                  BY <2>1, <2>2, ReviewCounts, Decisions
            <3> QED BY <2>2, <3>1 DEF Script, DownstreamType, DownstreamOwner
      <2>3. CASE n = 7
            <3>1. event = "review_requires_evidence"
                  BY <2>1, <2>3, ReviewCounts, Decisions
            <3> QED BY <2>3, <3>1 DEF Script, DownstreamType, DownstreamOwner
      <2>4. CASE n = 10
            <3>1. event = "review_requires_revision"
                  BY <2>1, <2>4, ReviewCounts, Decisions
            <3> QED BY <2>4, <3>1 DEF Script, DownstreamType, DownstreamOwner
      <2>5. CASE n = 12
            <3>1. event = "review_approved"
                  BY <2>1, <2>5, ReviewCounts, Decisions
            <3> QED BY <2>5, <3>1 DEF DownstreamType, DownstreamOwner
      <2> QED BY <1>4, <2>2, <2>3, <2>4, <2>5
<1> QED BY <1>1, <1>2, <1>3, <1>4

LEMMA ScriptFacts ==
    ASSUME FileInv, NEW c, Scripted(task, artifact, agent, c)
    PROVE  /\ Len(task) \in 1 .. 12 /\ DOMAIN task = 1 .. Len(task)
           /\ DOMAIN artifact = 1 .. Len(artifact) /\ Len(artifact) \in Nat
           /\ \A t \in DOMAIN task : task[t].owner = Script[t] /\ task[t].owner \in Role
           /\ \A t \in DOMAIN task : t # Len(task) => task[t].status = "done"
           /\ task[Len(task)].status = "done" => Len(task) = 12
           /\ \A a \in DOMAIN artifact : artifact[a].type = ArtifactType[Script[a]]
           /\ AtTask(c, Len(task), task[Len(task)].status, Len(artifact))
           /\ AtRest(agent, Len(task), task[Len(task)].status, c)
<1>1. DOMAIN task = 1 .. Len(task) /\ DOMAIN artifact = 1 .. Len(artifact) /\ Len(artifact) \in Nat
      BY FileFacts, LenProperties
<1>2. Len(task) \in 1 .. 12
      BY DEF Scripted, InScript
<1>3. ASSUME NEW t \in DOMAIN task
      PROVE  task[t].owner = Script[t] /\ task[t].owner \in Role
      <2>1. t \in 1 .. Len(task) /\ t \in 1 .. 12
            BY <1>1, <1>2
      <2>2. task[t].owner = Script[t]
            BY <2>1 DEF Scripted, InScript
      <2> QED BY <2>1, <2>2, ScriptRoles
<1>4. \A t \in DOMAIN task : t # Len(task) => task[t].status = "done"
      BY <1>1, <1>2 DEF Scripted, InScript
<1> QED BY <1>1, <1>2, <1>3, <1>4 DEF Scripted, InScript

\* What is left to show of a step that does not add a task.
LEMMA ScriptSame ==
    ASSUME FileInv, NEW c0, Scripted(task, artifact, agent, c0), NEW c, NEW status, NEW n,
           n = Len(task), Len(task') = n, task'[n].status = status,
           status = "done" => n = 12,
           \A t \in 1 .. n : task'[t].owner = task[t].owner,
           \A t \in 1 .. n - 1 : task'[t] = task[t],
           \A a \in 1 .. Len(artifact') : artifact'[a].type = ArtifactType[Script[a]],
           AtTask(c, n, status, Len(artifact')), AtRest(agent', n, status, c)
    PROVE  Scripted(task', artifact', agent', c)
<1>1. n \in 1 .. 12 /\ \A t \in 1 .. n : task[t].owner = Script[t]
      BY ScriptFacts
<1>2. DOMAIN task = 1 .. n /\ \A t \in DOMAIN task : t # n => task[t].status = "done"
      BY ScriptFacts
<1>3. \A t \in 1 .. n - 1 : task[t].status = "done"
      BY <1>1, <1>2
<1> QED BY <1>1, <1>3 DEF Scripted, InScript

LEMMA ClaimTaskScript ==
    ASSUME FileInv, NEW r \in Runner, ClaimTask(r), Scripted(task, artifact, agent, call[r])
    PROVE  Scripted(task', artifact', agent', call'[r])
<1> DEFINE n == Len(task)
<1>1. PICK t \in DOMAIN task :
         /\ task[t].status = "todo"
         /\ task' = [task EXCEPT ![t].status = "in_progress"]
         /\ agent' = [agent EXCEPT ![task[t].owner] = "executing"]
         /\ call' = [call EXCEPT ![r] = [IdleCall EXCEPT !.step = "read", !.task = t]]
      BY DEF ClaimTask, Goto
<1>2. call[r].step = "idle" /\ UNCHANGED artifact
      BY DEF ClaimTask
<1>3. t = n
      BY <1>1, ScriptFacts
<1>4. /\ Len(task') = n /\ \A u \in DOMAIN task : /\ u # t => task'[u] = task[u]
                                                  /\ u = t => task'[u].status = "in_progress"
                                                  /\ task'[u].owner = task[u].owner
      BY <1>1, FileFacts, TaskSet DEF TaskStates
<1> DEFINE c == [IdleCall EXCEPT !.step = "read", !.task = t]
<1>5. c.step = "read" /\ c.task = t /\ call'[r] = c
      BY <1>1, FileFacts DEF IdleCall
<1> HIDE DEF c
<1>6. n \in 1 .. 12 /\ DOMAIN task = 1 .. n
      BY ScriptFacts
<1>7. Len(artifact) = n - 1 /\ task[n].status # "done"
      BY <1>1, <1>2, <1>3, ScriptFacts DEF AtTask
<1>8. AtTask(c, n, "in_progress", Len(artifact'))
      BY <1>2, <1>3, <1>5, <1>7 DEF AtTask
<1>9. AtRest(agent', n, "in_progress", c)
      <2>1. AtRest(agent, n, task[n].status, call[r]) /\ task[n].owner = Script[n]
            BY <1>6, ScriptFacts
      <2>2. \A a \in Role : a # Script[n] => agent'[a] = agent[a]
            BY <1>1, <1>3, <2>1, FileFacts
      <2> HIDE DEF n
      <2> QED BY <1>2, <1>7, <2>1, <2>2 DEF AtRest
<1>10. \A a \in 1 .. Len(artifact') : artifact'[a].type = ArtifactType[Script[a]]
      BY <1>2, ScriptFacts
<1>11. /\ task'[n].status = "in_progress" /\ \A u \in 1 .. n - 1 : task'[u] = task[u]
       /\ \A u \in 1 .. n : task'[u].owner = task[u].owner
      BY <1>3, <1>4, <1>6
<1> HIDE DEF n
<1>12. Scripted(task', artifact', agent', c)
      BY <1>4, <1>8, <1>9, <1>10, <1>11, ScriptSame DEF n
<1> QED BY <1>5, <1>12

\* The pass of the runner works on the last task, the owner of which is the script's.
LEMMA ScriptWorking ==
    ASSUME FileInv, NEW r \in Runner, Scripted(task, artifact, agent, call[r]),
           call[r].step \in Working
    PROVE  /\ call[r].task = Len(task) /\ TaskOf(r).owner = Script[Len(task)]
           /\ task[Len(task)].status = "in_progress"
<1>1. Len(task) \in 1 .. 12 /\ \A t \in 1 .. Len(task) : task[t].owner = Script[t]
      BY ScriptFacts
<1>2. AtTask(call[r], Len(task), task[Len(task)].status, Len(artifact))
      BY ScriptFacts
<1>3. call[r].task = Len(task) /\ task[Len(task)].status = "in_progress"
      BY <1>2 DEF AtTask, Working
<1>4. task[Len(task)].owner = Script[Len(task)]
      <2>1. \A n \in 1 .. 12 : n \in 1 .. n
            OBVIOUS
      <2>2. Len(task) \in 1 .. Len(task)
            BY <1>1, <2>1
      <2> QED BY <1>1, <2>2
<1> QED BY <1>3, <1>4 DEF TaskOf

\* The reports there are before the n-th task registers its own are those of the reviews
\* before it.
LEMMA ScriptReports ==
    ASSUME FileInv, NEW c, Scripted(task, artifact, agent, c), Len(artifact) = Len(task) - 1
    PROVE  OfType("review_report") = ReviewsBefore(Len(task))
<1>1. \A t \in 1 .. 12 : ArtifactType[Script[t]] = "review_report" <=> Script[t] = "reviewer"
      BY ScriptRoles DEF ArtifactType, Role
<1>2. DOMAIN artifact = 1 .. Len(task) - 1 /\ Len(task) \in 1 .. 12
      BY ScriptFacts
<1>3. \A a \in DOMAIN artifact : artifact[a].type = ArtifactType[Script[a]]
      BY ScriptFacts
<1>4. \A a \in DOMAIN artifact : a \in 1 .. 12
      BY <1>2
<1>5. \A a \in DOMAIN artifact : artifact[a].type = "review_report" <=> Script[a] = "reviewer"
      BY <1>1, <1>3, <1>4
<1> QED BY <1>2, <1>5 DEF OfType, ReviewsBefore

LEMMA ReadInputsScript ==
    ASSUME FileInv, NEW r \in Runner, ReadInputs(r), Scripted(task, artifact, agent, call[r])
    PROVE  Scripted(task', artifact', agent', call'[r])
<1> DEFINE n == Len(task)
<1>1. PICK event \in CompletionTypes(TaskOf(r).owner), excerpt \in Excerpt :
         /\ TaskOf(r).owner = "reviewer" => event = Decision(Cardinality(OfType("review_report")))
         /\ call' = [call EXCEPT ![r] = [call[r] EXCEPT !.step = "register", !.event = event,
                                                        !.excerpt = excerpt]]
      BY DEF ReadInputs, Goto, ExcerptOf, Excerpt
<1>2. call[r].step = "read" /\ UNCHANGED <<task, artifact, agent>>
      BY DEF ReadInputs
<1> DEFINE c == [call[r] EXCEPT !.step = "register", !.event = event, !.excerpt = excerpt]
<1>3. call'[r] = c /\ c.task = call[r].task /\ c.event = event /\ c.step = "register"
      BY <1>1, FileFacts DEF Call
<1> HIDE DEF c
<1>4. call[r].task = n /\ TaskOf(r).owner = Script[n] /\ task[n].status = "in_progress"
      BY <1>2, ScriptWorking DEF Working
<1>5. Len(artifact) = n - 1
      BY <1>2, ScriptFacts DEF AtTask
<1>6. Fits(event, n)
      BY <1>1, <1>4, <1>5, ScriptReports DEF Fits
<1>7. AtTask(c, n, "in_progress", Len(artifact'))
      BY <1>2, <1>3, <1>4, <1>5, <1>6 DEF AtTask
<1>8. AtRest(agent', n, "in_progress", c)
      BY <1>2, <1>3, <1>4, ScriptFacts DEF AtRest
<1>9. \A a \in 1 .. Len(artifact') : artifact'[a].type = ArtifactType[Script[a]]
      BY <1>2, ScriptFacts
<1>10. Len(task') = n /\ task'[n].status = "in_progress"
      BY <1>2, <1>4
<1>11. Scripted(task', artifact', agent', c)
      <2> HIDE DEF n
      <2> QED BY <1>2, <1>7, <1>8, <1>9, <1>10, ScriptSame DEF n
<1> QED BY <1>3, <1>11

LEMMA RegisterOutputScript ==
    ASSUME FileInv, NEW r \in Runner, RegisterOutput(r), Scripted(task, artifact, agent, call[r])
    PROVE  Scripted(task', artifact', agent', call'[r])
<1> DEFINE n == Len(task)
           row == [type |-> ArtifactType[TaskOf(r).owner], task |-> call[r].task,
                   event |-> call[r].event]
           c == [call[r] EXCEPT !.step = "complete"]
<1>1. /\ call[r].step = "register" /\ UNCHANGED <<task, agent>>
      /\ artifact' = Append(artifact, row) /\ call' = [call EXCEPT ![r] = c]
      BY DEF RegisterOutput, Goto
<1>2. call'[r] = c /\ c.step = "complete" /\ c.task = call[r].task /\ c.event = call[r].event
      BY <1>1, FileFacts DEF Call
<1>3. call[r].task = n /\ TaskOf(r).owner = Script[n] /\ task[n].status = "in_progress"
      BY <1>1, ScriptWorking DEF Working
<1>4. Len(artifact) = n - 1 /\ Fits(call[r].event, n)
      BY <1>1, ScriptFacts DEF AtTask
<1>5. row.type = ArtifactType[Script[n]]
      BY <1>3
<1> HIDE DEF c, row
<1>6. n \in 1 .. 12
      BY ScriptFacts
<1>7. /\ Len(artifact') = n
      /\ \A a \in 1 .. n - 1 : artifact'[a] = artifact[a]
      /\ artifact'[n] = row
      <2>1. artifact \in Seq(ArtifactRow)
            BY FileFacts
      <2>2. artifact' \in Seq(ArtifactRow)
            <3>1. FileInv'
                  BY RegisterOutputFile
            <3> QED BY <3>1 DEF FileInv, ReviewTypeOK
      <2> QED BY <1>1, <1>4, <1>6, <2>1, <2>2, AppendProperties
<1>8. \A a \in 1 .. Len(artifact') : artifact'[a].type = ArtifactType[Script[a]]
      <2>1. \A a \in 1 .. n - 1 : artifact[a].type = ArtifactType[Script[a]]
            BY <1>4, ScriptFacts
      <2> QED BY <1>5, <1>6, <1>7, <2>1
<1>9. AtTask(c, n, "in_progress", Len(artifact'))
      BY <1>2, <1>3, <1>4, <1>7 DEF AtTask
<1>10. AtRest(agent', n, "in_progress", c)
      BY <1>1, <1>2, <1>3, ScriptFacts DEF AtRest
<1>11. Len(task') = n /\ task'[n].status = "in_progress"
      BY <1>1, <1>3
<1>12. Scripted(task', artifact', agent', c)
      <2> HIDE DEF n
      <2> QED BY <1>1, <1>8, <1>9, <1>10, <1>11, ScriptSame DEF n
<1> QED BY <1>2, <1>12

\* The last task is made by the event of the one before it, or there is none after it.
LEMMA CompleteTaskScript ==
    ASSUME FileInv, NEW r \in Runner, CompleteTask(r), Scripted(task, artifact, agent, call[r])
    PROVE  Scripted(task', artifact', agent', call'[r])
<1> DEFINE n == Len(task)
           event == call[r].event
           report == IF TaskOf(r).owner = "reviewer" THEN OutputOf(r) ELSE 0
           done == [task EXCEPT ![call[r].task].status = "done"]
           c == [call[r] EXCEPT !.step = "settle"]
           next == DownstreamOwner[event]
<1>1. /\ call[r].step = "complete" /\ UNCHANGED artifact
      /\ task' = IF event \in DownstreamType THEN Append(done, NewTask(next, report)) ELSE done
      /\ agent' = IF event \in DownstreamType
                  THEN [agent EXCEPT ![next] = DownstreamState(event)]
                  ELSE [agent EXCEPT !["writer"] = "done"]
      /\ call' = [call EXCEPT ![r] = c]
      BY DEF CompleteTask, Goto
<1>2. call'[r] = c /\ c.step = "settle" /\ c.task = call[r].task
      BY <1>1, FileFacts DEF Call
<1>3. call[r].task = n /\ TaskOf(r).owner = Script[n] /\ task[n].status = "in_progress"
      BY <1>1, ScriptWorking DEF Working
<1>4. Len(artifact) = n /\ Fits(event, n)
      BY <1>1, ScriptFacts DEF AtTask
<1>5. n \in 1 .. 12 /\ n \in DOMAIN task /\ DOMAIN task = 1 .. n
      BY ScriptFacts
<1>6. report \in Nat
      BY <1>1, OutputFacts, FileFacts
<1>7. /\ done \in Seq(TaskRow) /\ DOMAIN done = 1 .. n /\ Len(done) = n
      /\ \A u \in 1 .. n : /\ u # n => done[u] = task[u]
                           /\ u = n => done[u].status = "done"
                           /\ done[u].owner = task[u].owner
      <2>1. task \in Seq(TaskRow) /\ n \in DOMAIN task /\ "done" \in TaskStates
            BY <1>5, FileFacts DEF TaskStates
      <2> HIDE DEF n
      <2> QED BY <1>3, <1>5, <2>1, TaskSet DEF n
<1>8. AtRest(agent, n, "in_progress", call[r])
      BY <1>3, ScriptFacts
<1>9. /\ \A u \in 1 .. n : task[u].owner = Script[u]
      /\ \A u \in 1 .. n - 1 : task[u].status = "done"
      /\ \A a \in 1 .. n : artifact[a].type = ArtifactType[Script[a]]
      <2>1. \A u \in DOMAIN task : /\ task[u].owner = Script[u]
                                   /\ u # n => task[u].status = "done"
            BY ScriptFacts
      <2>2. DOMAIN artifact = 1 .. n /\ \A a \in DOMAIN artifact : artifact[a].type = ArtifactType[Script[a]]
            BY <1>4, ScriptFacts
      <2> QED BY <1>5, <2>1, <2>2
<1> HIDE DEF n, report, done, c
<1>10. \A u \in 1 .. n : done[u].status = "done" /\ done[u].owner = Script[u]
       BY <1>5, <1>7, <1>9
<1>11. agent \in [Role -> AgentState]
       BY FileFacts
<1>12. CASE n < 12
      <2>1. event \in DownstreamType /\ next = Script[n + 1]
            BY <1>4, <1>5, <1>12, ScriptFollows
      <2>2. next \in Role
            BY <2>1, RoutingFacts
      <2>3. /\ task' \in Seq(TaskRow) /\ DOMAIN task' = DOMAIN done \cup {n + 1}
            /\ \A u \in DOMAIN done : task'[u] = done[u]
            /\ task'[n + 1].owner = next /\ task'[n + 1].status = "todo"
            BY <1>1, <1>6, <1>7, <2>1, <2>2, TaskAdd
      <2>4. Len(task') = n + 1
            BY <1>1, <1>7, <2>1 DEF NewTask
      <2>5. /\ \A u \in 1 .. n + 1 : task'[u].owner = Script[u]
            /\ \A u \in 1 .. n : task'[u].status = "done"
            BY <1>5, <1>7, <1>10, <2>1, <2>3
      <2>6. InScript(task', artifact')
            <3>1. n + 1 \in 1 .. 12 /\ (n + 1) - 1 = n /\ task'[n + 1].status # "done"
                  BY <1>5, <1>12, <2>3
            <3>2. \A a \in 1 .. Len(artifact') : artifact'[a].type = ArtifactType[Script[a]]
                  BY <1>1, <1>4, <1>9
            <3> QED BY <2>4, <2>5, <3>1, <3>2 DEF InScript
      <2>7. AtTask(c, n + 1, "todo", Len(artifact'))
            BY <1>1, <1>2, <1>3, <1>4, <1>5 DEF AtTask
      <2>8. AtRest(agent', n + 1, "todo", c)
            <3> SUFFICES ASSUME NEW a \in Role, a # Script[n + 1], NEW t \in 1 .. n + 1, Script[t] = a,
                                a # Script[n]
                         PROVE  agent'[a] = "idle"
                BY <1>2, <1>3 DEF AtRest
            <3>1. agent'[a] = agent[a]
                  BY <1>1, <1>11, <2>1
            <3>2. t \in 1 .. n
                  BY <1>5
            <3>3. call[r].step # "settle"
                  BY <1>1
            <3> QED BY <1>8, <3>1, <3>2, <3>3 DEF AtRest
      <2> QED BY <1>2, <2>3, <2>4, <2>6, <2>7, <2>8 DEF Scripted
<1>13. CASE n = 12
      <2>1. event \notin DownstreamType
            BY <1>4, <1>5, <1>13, ScriptFollows
      <2>2. task' = done /\ agent' = [agent EXCEPT !["writer"] = "done"]
            BY <1>1, <2>1
      <2>3. InScript(task', artifact')
            <3>1. Len(task') = n /\ \A u \in 1 .. n - 1 : u \in 1 .. n
                  BY <1>5, <1>7, <2>2
            <3>2. \A u \in 1 .. n : task'[u].status = "done" /\ task'[u].owner = Script[u]
                  BY <1>10, <2>2
            <3>3. \A a \in 1 .. Len(artifact') : artifact'[a].type = ArtifactType[Script[a]]
                  BY <1>1, <1>4, <1>9
            <3> QED BY <1>5, <1>13, <3>1, <3>2, <3>3 DEF InScript
      <2>4. AtTask(c, n, "done", Len(artifact'))
            BY <1>1, <1>2, <1>3, <1>4 DEF AtTask
      <2>5. AtRest(agent', n, "done", c)
            <3> SUFFICES ASSUME NEW a \in Role, NEW t \in 1 .. n, Script[t] = a, a # Script[n]
                         PROVE  agent'[a] = IF a = "writer" THEN "done" ELSE "idle"
                BY <1>2, <1>3 DEF AtRest
            <3>1. call[r].step # "settle"
                  BY <1>1
            <3>2. agent[a] = "idle"
                  BY <1>8, <3>1 DEF AtRest
            <3> QED BY <1>11, <2>2, <3>2
      <2>6. Len(task') = n /\ task'[n].status = "done"
            BY <1>5, <1>7, <1>10, <2>2
      <2> QED BY <1>2, <2>3, <2>4, <2>5, <2>6 DEF Scripted
<1> QED BY <1>5, <1>12, <1>13

LEMMA SettleAgentScript ==
    ASSUME FileInv, NEW r \in Runner, SettleAgent(r), Scripted(task, artifact, agent, call[r])
    PROVE  Scripted(task', artifact', agent', call'[r])
<1> DEFINE n == Len(task)
           status == task[n].status
<1>1. /\ call[r].step = "settle" /\ agent' = [agent EXCEPT ![TaskOf(r).owner] = "idle"]
      /\ call' = [call EXCEPT ![r] = IdleCall] /\ UNCHANGED <<task, artifact>>
      BY DEF SettleAgent, Goto
<1>2. call'[r] = IdleCall /\ IdleCall.step = "idle"
      BY <1>1, FileFacts DEF IdleCall
<1>3. n \in 1 .. 12 /\ DOMAIN task = 1 .. n /\ \A t \in DOMAIN task : task[t].owner = Script[t]
      BY ScriptFacts
<1>4. AtTask(call[r], n, status, Len(artifact)) /\ AtRest(agent, n, status, call[r])
      BY ScriptFacts
<1>5. /\ status \in {"todo", "done"} /\ call[r].task \in 1 .. n
      /\ AtTask(IdleCall, n, status, Len(artifact'))
      <2>1. n \in 1 .. 12 /\ call[r].step = "settle" /\ Len(artifact') = Len(artifact)
            BY <1>1, <1>3
      <2> HIDE DEF n, status
      <2>2. \/ status = "todo" /\ call[r].task = n - 1 /\ n > 1 /\ Len(artifact) = n - 1
            \/ status = "done" /\ call[r].task = n /\ Len(artifact) = n
            BY <1>4, <2>1 DEF AtTask
      <2>3. call[r].task \in 1 .. n
            BY <2>1, <2>2
      <2> QED BY <1>2, <2>1, <2>2, <2>3 DEF AtTask
<1>6. TaskOf(r).owner = Script[call[r].task]
      BY <1>3, <1>5 DEF TaskOf
<1>7. status = "done" => n = 12 /\ Script[call[r].task] = "reviewer"
      <2>1. status = "done" => call[r].task = n /\ n = 12
            BY <1>1, <1>4, ScriptFacts DEF AtTask
      <2>2. Script[12] = "reviewer"
            BY DEF Script
      <2> HIDE DEF n, status
      <2> QED BY <2>1, <2>2
<1>8. AtRest(agent', n, status, IdleCall)
      <2> SUFFICES ASSUME NEW a \in Role, a # Script[n] \/ status = "done",
                          \E t \in 1 .. n : Script[t] = a
                   PROVE  agent'[a] = IF status = "done" /\ a = "writer" THEN "done" ELSE "idle"
          BY DEF AtRest
      <2>1. agent'[a] = IF a = Script[call[r].task] THEN "idle" ELSE agent[a]
            BY <1>1, <1>6, FileFacts
      <2>2. CASE a = Script[call[r].task]
            BY <1>7, <2>1, <2>2
      <2>3. CASE a # Script[call[r].task]
            BY <1>4, <2>1, <2>3 DEF AtRest
      <2> QED BY <2>2, <2>3
<1>9. \A a \in 1 .. Len(artifact') : artifact'[a].type = ArtifactType[Script[a]]
      BY <1>1, ScriptFacts
<1>10. Len(task') = n /\ task'[n].status = status /\ (status = "done" => n = 12)
      BY <1>1, ScriptFacts
<1>11. Scripted(task', artifact', agent', IdleCall)
      <2> HIDE DEF n, status
      <2> QED BY <1>1, <1>5, <1>8, <1>9, <1>10, ScriptSame DEF n
<1> QED BY <1>2, <1>11

LEMMA ScriptInit ==
    ASSUME ReviewInit PROVE ScriptInv
<1>1. /\ task = <<NewTask("explorer", 0)>> /\ artifact = <<>>
      /\ agent = [a \in Role |-> IF a = "explorer" THEN "planning" ELSE "absent"]
      /\ call = [r \in Runner |-> IdleCall] /\ posts = 0
      BY DEF ReviewInit
<1>2. RoundsInv
      BY <1>1, FileInit DEF RoundsInv, RoundsTold, ReportsOf, IdleCall
<1>3. /\ Len(task) = 1 /\ task[1].owner = "explorer" /\ task[1].status = "todo"
      /\ DOMAIN task = {1} /\ Len(artifact) = 0 /\ Script[1] = "explorer"
      BY <1>1 DEF NewTask, Script
<1>4. InScript(task, artifact)
      BY <1>3 DEF InScript
<1>5. AtTask(IdleCall, 1, "todo", 0)
      BY DEF AtTask, IdleCall
<1>6. AtRest(agent, 1, "todo", IdleCall)
      BY <1>3 DEF AtRest
<1>7. \A r \in Runner : Scripted(task, artifact, agent, call[r])
      BY <1>1, <1>3, <1>4, <1>5, <1>6 DEF Scripted
<1> QED BY <1>2, <1>3, <1>7 DEF ScriptInv

LEMMA ScriptNext ==
    ASSUME OneRunner, ScriptInv, [ReviewNext]_reviewVars PROVE ScriptInv'
<1>1. RoundsInv' /\ FileInv
      BY RoundsNext DEF ScriptInv, RoundsInv
<1>2. CASE PostTask \/ RequeueTask
      <2>1. posts' # 0
            BY <1>1, <1>2, FileFacts DEF PostTask, RequeueTask
      <2> QED BY <1>1, <2>1 DEF ScriptInv
<1>3. ASSUME NEW r \in Runner, Pass(r) PROVE ScriptInv'
      <2> SUFFICES ASSUME posts = 0
                   PROVE  Scripted(task', artifact', agent', call'[r])
          <3>1. posts' = posts
                BY <1>3 DEF Pass, ClaimTask, MissesInputs, ReadInputs, RegisterOutput, CompleteTask,
                            SettleAgent
          <3>2. \A s \in Runner : s = r
                BY DEF OneRunner
          <3> QED BY <1>1, <3>1, <3>2 DEF ScriptInv, Scripted
      <2>1. Scripted(task, artifact, agent, call[r])
            BY DEF ScriptInv
      <2> QED BY <1>1, <1>3, <2>1, InputsThere, ClaimTaskScript, ReadInputsScript,
                 RegisterOutputScript, CompleteTaskScript, SettleAgentScript DEF Pass
<1>4. CASE UNCHANGED reviewVars
      BY <1>1, <1>4 DEF reviewVars, ScriptInv, Scripted
<1> QED BY <1>2, <1>3, <1>4 DEF ReviewNext

\* How often each role has a task in the script.
LEMMA ScriptCounts ==
    /\ Cardinality({t \in 1 .. 12 : Script[t] = "explorer"}) = 1
    /\ Cardinality({t \in 1 .. 12 : Script[t] = "experiment"}) = 3
    /\ Cardinality({t \in 1 .. 12 : Script[t] = "writer"}) = 4
    /\ Cardinality({t \in 1 .. 12 : Script[t] = "reviewer"}) = 4
<1> DEFINE Sizes(a, b, c, d) == Cardinality({a, b, c}) = 3 /\ Cardinality({a, b, c, d}) = 4
<1>1. ASSUME NEW a \in Int, NEW b \in Int, NEW c \in Int, NEW d \in Int, a < b, b < c, c < d
      PROVE  Sizes(a, b, c, d)
      <2>1. ASSUME NEW S, NEW x, IsFiniteSet(S), x \notin S
            PROVE  IsFiniteSet(S \cup {x}) /\ Cardinality(S \cup {x}) = Cardinality(S) + 1
            BY <2>1, FS_AddElement
      <2>2. IsFiniteSet({a}) /\ Cardinality({a}) = 1
            BY FS_Singleton
      <2>3. {a, b} = {a} \cup {b} /\ {a, b, c} = {a, b} \cup {c} /\ {a, b, c, d} = {a, b, c} \cup {d}
            OBVIOUS
      <2>4. IsFiniteSet({a, b}) /\ Cardinality({a, b}) = 2
            BY <1>1, <2>1, <2>2, <2>3
      <2>5. IsFiniteSet({a, b, c}) /\ Cardinality({a, b, c}) = 3
            BY <1>1, <2>1, <2>3, <2>4
      <2>6. Cardinality({a, b, c, d}) = 4
            BY <1>1, <2>1, <2>3, <2>5
      <2> QED BY <2>5, <2>6
<1>2. \A t \in 1 .. 12 : /\ Script[t] = "explorer"   <=> t = 1
                         /\ Script[t] = "experiment" <=> t \in {2, 5, 8}
                         /\ Script[t] = "writer"     <=> t \in {3, 6, 9, 11}
                         /\ Script[t] = "reviewer"   <=> t \in {4, 7, 10, 12}
      BY DEF Script
<1> HIDE DEF Script
<1>3. {t \in 1 .. 12 : Script[t] = "explorer"} = {1}
      BY <1>2
<1>4. {t \in 1 .. 12 : Script[t] = "experiment"} = {2, 5, 8}
      BY <1>2
<1>5. {t \in 1 .. 12 : Script[t] = "writer"} = {3, 6, 9, 11}
      BY <1>2
<1>6. {t \in 1 .. 12 : Script[t] = "reviewer"} = {4, 7, 10, 12}
      BY <1>2
<1>7. Cardinality({1}) = 1
      BY FS_Singleton
<1>8. Cardinality({2, 5, 8}) = 3 /\ Cardinality({3, 6, 9, 11}) = 4 /\ Cardinality({4, 7, 10, 12}) = 4
      <2> HIDE DEF Sizes
      <2>1. Sizes(2, 5, 8, 9) /\ Sizes(3, 6, 9, 11) /\ Sizes(4, 7, 10, 12)
            BY <1>1
      <2> QED BY <2>1 DEF Sizes
<1> QED BY <1>3, <1>4, <1>5, <1>6, <1>7, <1>8

\* Where the loop of one runner stops, it is at the end of the script.
LEMMA ScriptStops ==
    ASSUME OneRunner, ScriptInv PROVE StopsAsExpected
<1> SUFFICES ASSUME posts = 0, \A t \in DOMAIN task : task[t].status # "todo",
                    \A r \in Runner : call[r].step = "idle"
             PROVE  AsExpected
    BY DEF StopsAsExpected
<1>1. PICK r \in Runner : Scripted(task, artifact, agent, call[r]) /\ call[r].step = "idle"
      BY DEF ScriptInv
<1>2. FileInv
      BY DEF ScriptInv, RoundsInv
<1> DEFINE n == Len(task)
<1>3. n \in DOMAIN task /\ DOMAIN task = 1 .. n
      BY <1>1, <1>2, ScriptFacts
<1>4. task[n].status = "done" /\ n = 12
      <2>1. AtTask(call[r], n, task[n].status, Len(artifact)) /\ task[n].status # "todo"
            BY <1>1, <1>2, <1>3, ScriptFacts
      <2>2. task[n].status = "done"
            BY <1>1, <2>1 DEF AtTask
      <2> QED BY <1>1, <1>2, <2>2, ScriptFacts
<1>5. \A t \in DOMAIN task : task[t].status = "done" /\ task[t].owner = Script[t]
      BY <1>1, <1>2, <1>4, ScriptFacts
<1>6. AtRest(agent, 12, "done", call[r])
      <2>1. AtRest(agent, n, task[n].status, call[r])
            BY <1>1, <1>2, ScriptFacts
      <2> QED BY <1>4, <2>1
<1>7. DOMAIN task = 1 .. 12
      BY <1>3, <1>4
<1> HIDE DEF n
<1>8. Unfinished = {}
      BY <1>5 DEF Unfinished
<1>9. ASSUME NEW owner \in Role
      PROVE  Cardinality({t \in DOMAIN task : task[t].owner = owner}) =
                 CASE owner = "explorer" -> 1 [] owner = "experiment" -> 3 [] OTHER -> 4
      <2>1. {t \in DOMAIN task : task[t].owner = owner} = {t \in 1 .. 12 : Script[t] = owner}
            BY <1>5, <1>7
      <2>2. CASE owner = "explorer"
            BY <2>1, <2>2, ScriptCounts
      <2>3. CASE owner = "experiment"
            BY <2>1, <2>3, ScriptCounts
      <2>4. CASE owner = "writer"
            BY <2>1, <2>4, ScriptCounts
      <2>5. CASE owner = "reviewer"
            BY <2>1, <2>5, ScriptCounts
      <2> QED BY <2>2, <2>3, <2>4, <2>5 DEF Role
<1>10. ASSUME NEW a \in Role
       PROVE  agent[a] = IF a = "writer" THEN "done" ELSE "idle"
       <2>1. \E t \in 1 .. 12 : Script[t] = a
             <3>1. Script[1] = "explorer" /\ Script[2] = "experiment" /\ Script[3] = "writer"
                   /\ Script[4] = "reviewer"
                   BY DEF Script
             <3>2. {1, 2, 3, 4} \subseteq 1 .. 12
                   OBVIOUS
             <3> QED BY <3>1, <3>2 DEF Role
       <2>2. call[r].step # "settle"
             BY <1>1
       <2> QED BY <1>6, <2>1, <2>2 DEF AtRest
<1> QED BY <1>8, <1>9, <1>10 DEF AsExpected

\* One runner decides each round by the reports of the rounds before it, and
\* posted tasks, reviews among them, do not disturb the count: between the
\* reading and the registering of a review no report is added.  Two runners
\* would decide two reviews by one count (_run_reviewer_task).  So a loop nobody
\* disturbs goes through the script, and where it stops it has come to what
\* verify_coordinator_pipeline.py expects.
THEOREM LoopIsInOrder ==
    ASSUME OneRunner PROVE ReviewSpec => []LoopInOrder
<1>1. ReviewInit => ScriptInv
      BY ScriptInit
<1>2. ScriptInv /\ [ReviewNext]_reviewVars => ScriptInv'
      BY ScriptNext
<1>3. ScriptInv => LoopInOrder
      BY FileSingle, ScriptStops DEF ScriptInv, RoundsInv, FileInv, LoopInOrder, RoundsInOrder,
                                     RoundsTold, ReportsOf, OfType
<1> QED BY <1>1, <1>2, <1>3, PTL DEF ReviewSpec

=============================================================================
