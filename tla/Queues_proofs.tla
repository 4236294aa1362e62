---------------------------- MODULE Queues_proofs ----------------------------
(***************************************************************************)
(* Proofs about the queues an OpenClaw gateway keeps its runs in: the      *)
(* command lanes, and the followup queue of a session.  The parts of the   *)
(* invariants are operators over a record of lanes, or over the objects of *)
(* a queue, so that the intermediate ones of a step (an entry appended, a  *)
(* slot freed, a lane pumped; a message removed, a drain made idle) are    *)
(* reasoned about with the same words as the state before and after it.    *)
(***************************************************************************)
EXTENDS CommandLanes, FollowupQueue, FunctionTheorems, FiniteSetTheorems, SequenceTheorems, TLAPS

-----------------------------------------------------------------------------
(* The command lanes.                                                      *)

\* Entries of one session are in the order they were submitted in.
Ordered(q) ==
    \A i, j \in DOMAIN q : i < j /\ SessionOf[q[i]] = SessionOf[q[j]] => q[i] < q[j]

LaneRec == [queue : [Lane -> Seq(Run)], active : [Lane -> SUBSET Run], phase : [Run -> RunPhase]]

\* The phase of a run says in which queue it waits.
Placed(waits, phases) ==
    /\ \A l \in Lane : Ordered(waits[l])
    /\ \A r \in Run, s \in Session :
          r \in ToSet(waits[s]) <=> SessionOf[r] = s /\ phases[r] = "queued"
    /\ \A r \in Run : r \in ToSet(waits[Main]) <=> phases[r] = "waiting"

\* How far the runs behind one have come at most.
Behind == [new     |-> {"new"},
           queued  |-> {"new", "queued", "refused", "cleared"},
           waiting |-> {"new", "queued", "refused", "cleared", "waiting"}]

Turns(phases) ==
    \A q, r \in Run :
        SessionOf[q] = SessionOf[r] /\ q < r /\ phases[q] \in DOMAIN Behind =>
            phases[r] \in Behind[phases[q]]

\* The slots of the main lane are those of runs that execute; the slot of a
\* session is that of its run under way, unless a reset has carried that over.
Slots(actives, phases, over) ==
    /\ \A r \in actives[Main] : phases[r] \in Executing
    /\ \A r \in Run : phases[r] \in Executing \cup {"waiting"} =>
                          r \in over \/ actives[SessionOf[r]] = {r}

Submitted(phases) == {r \in Run : phases[r] # "new"}

Sound(lanes, over) ==
    /\ lanes \in LaneRec
    /\ Placed(lanes.queue, lanes.phase)
    /\ Turns(lanes.phase)
    /\ Slots(lanes.active, lanes.phase, over)
    /\ IsFiniteSet(Submitted(lanes.phase))

\* The main lane has no room for what waits in it.
NoRoom(lanes, n) == lanes.queue[Main] # <<>> => Cardinality(lanes.active[Main]) >= n

\* No session but those in except has entries and a free slot.
Awake(lanes, except) ==
    \A s \in Session \ except : lanes.queue[s] # <<>> => lanes.active[s] # {}

LanesInv ==
    /\ LanesTypeOK
    /\ Sound(Lanes, carried)
    /\ NoRoom(Lanes, width)
    /\ Awake(Lanes, {})

\* The first entry of a session lane is started.
Admitted(lanes, s) ==
    LET first == Head(lanes.queue[s]) IN
    Move([lanes EXCEPT !.queue[s] = Tail(@), !.queue[Main] = Append(@, first), !.active[s] = {first}],
         {first}, "waiting")

ControlTypeOK ==
    /\ width \in Widths
    /\ handle \in [Session -> Run \cup {NoRun}]
    /\ gateway \in [loop : {"starting", "waiting"}, shutdown : BOOLEAN, draining : BOOLEAN,
                    waits : SUBSET {"tasks", "runs"}, atStart : SUBSET (Lane \X Run)]
    /\ restarts \in 0 .. MaxRestarts
    /\ carried \subseteq Run
    /\ missed \in BOOLEAN
    /\ gateway.waits # {} => gateway.shutdown /\ gateway.draining
-----------------------------------------------------------------------------
(* Sequences of entries.                                                   *)

LEMMA EntryFacts ==
    ASSUME NEW q \in Seq(Run)
    PROVE  /\ Len(q) \in Nat /\ DOMAIN q = 1 .. Len(q)
           /\ \A i \in 1 .. Len(q) : q[i] \in Run /\ q[i] \in ToSet(q)
           /\ q = <<>> <=> Len(q) = 0
           /\ q = <<>> <=> ToSet(q) = {}
           /\ ToSet(q) \subseteq Run
           /\ \A r : r \in ToSet(q) <=> \E i \in 1 .. Len(q) : q[i] = r
<1>1. Len(q) \in Nat /\ DOMAIN q = 1 .. Len(q) /\ \A i \in 1 .. Len(q) : q[i] \in Run
      BY LenProperties
<1>2. q = <<>> <=> Len(q) = 0
      BY EmptySeq
<1>3. \A r : r \in ToSet(q) <=> \E i \in 1 .. Len(q) : q[i] = r
      BY <1>1 DEF ToSet
<1>4. Len(q) # 0 => 1 \in 1 .. Len(q)
      BY <1>1
<1>5. Len(q) = 0 => 1 .. Len(q) = {}
      BY <1>1
<1>6. Len(q) = 0 <=> ToSet(q) = {}
      BY <1>3, <1>4, <1>5
<1> QED BY <1>1, <1>2, <1>3, <1>6

\* An ordered queue holds no run twice.
LEMMA OrderedInjective ==
    ASSUME NEW q \in Seq(Run), Ordered(q), NEW i \in 1 .. Len(q), NEW j \in 1 .. Len(q), i # j
    PROVE  q[i] # q[j]
<1>1. Len(q) \in Nat /\ DOMAIN q = 1 .. Len(q) /\ q[i] \in Nat /\ q[j] \in Nat
      BY EntryFacts, RunAssumption
<1>2. i < j \/ j < i
      BY <1>1
<1> QED BY <1>1, <1>2 DEF Ordered

LEMMA OrderedAppend ==
    ASSUME NEW q \in Seq(Run), Ordered(q), NEW r \in Run,
           \A x \in ToSet(q) : SessionOf[x] = SessionOf[r] => x < r
    PROVE  LET new == Append(q, r) IN
           /\ new \in Seq(Run) /\ Ordered(new) /\ new # <<>>
           /\ \A x : x \in ToSet(new) <=> x \in ToSet(q) \/ x = r
<1> DEFINE new == Append(q, r)
           n == Len(q)
<1>1. n \in Nat /\ DOMAIN q = 1 .. n
      BY EntryFacts
<1>2. /\ new \in Seq(Run) /\ new # <<>> /\ Len(new) = n + 1
      /\ \A i \in 1 .. n : new[i] = q[i]
      /\ new[n + 1] = r
      BY AppendProperties
<1>3. DOMAIN new = 1 .. n + 1
      BY <1>2, EntryFacts
<1> HIDE DEF new, n
<1>4. Ordered(new)
      <2> SUFFICES ASSUME NEW i \in 1 .. n + 1, NEW j \in 1 .. n + 1, i < j,
                          SessionOf[new[i]] = SessionOf[new[j]]
                   PROVE  new[i] < new[j]
          BY <1>3 DEF Ordered
      <2>1. i \in 1 .. n /\ new[i] = q[i]
            BY <1>1, <1>2
      <2>2. CASE j \in 1 .. n
            BY <1>1, <1>2, <2>1, <2>2 DEF Ordered
      <2>3. CASE j = n + 1
            <3>1. q[i] \in ToSet(q)
                  BY <2>1, EntryFacts DEF n
            <3> QED BY <1>2, <2>1, <2>3, <3>1
      <2> QED BY <1>1, <2>2, <2>3
<1>5. ASSUME NEW x
      PROVE  x \in ToSet(new) <=> x \in ToSet(q) \/ x = r
      <2>1. x \in ToSet(new) <=> \E i \in 1 .. n + 1 : new[i] = x
            BY <1>3 DEF ToSet
      <2>2. x \in ToSet(q) <=> \E i \in 1 .. n : q[i] = x
            BY <1>1 DEF ToSet
      <2>3. \A i : i \in 1 .. n + 1 <=> i \in 1 .. n \/ i = n + 1
            BY <1>1
      <2> QED BY <1>2, <2>1, <2>2, <2>3
<1> QED BY <1>2, <1>4, <1>5 DEF new

LEMMA OrderedTail ==
    ASSUME NEW q \in Seq(Run), Ordered(q), q # <<>>
    PROVE  /\ Head(q) \in ToSet(q) /\ Head(q) \in Run
           /\ Tail(q) \in Seq(Run) /\ Ordered(Tail(q))
           /\ \A x : x \in ToSet(Tail(q)) <=> x \in ToSet(q) /\ x # Head(q)
           /\ \A x \in ToSet(q) : SessionOf[x] = SessionOf[Head(q)] => x = Head(q) \/ Head(q) < x
<1> DEFINE n == Len(q)
           rest == Tail(q)
<1>1. n \in Nat /\ n # 0 /\ DOMAIN q = 1 .. n /\ Head(q) = q[1]
      BY EntryFacts
<1>2. rest \in Seq(Run) /\ Len(rest) = n - 1 /\ \A i \in 1 .. n - 1 : rest[i] = q[i + 1]
      BY HeadTailProperties
<1>3. DOMAIN rest = 1 .. n - 1
      BY <1>2, EntryFacts
<1>4. \A i, j \in 1 .. n : i # j => q[i] # q[j]
      BY OrderedInjective
<1> HIDE DEF n, rest
<1>5. Ordered(rest)
      <2> SUFFICES ASSUME NEW i \in 1 .. n - 1, NEW j \in 1 .. n - 1, i < j,
                          SessionOf[rest[i]] = SessionOf[rest[j]]
                   PROVE  rest[i] < rest[j]
          BY <1>3 DEF Ordered
      <2>1. i + 1 \in 1 .. n /\ j + 1 \in 1 .. n /\ i + 1 < j + 1
            BY <1>1
      <2> QED BY <1>1, <1>2, <2>1 DEF Ordered
<1>6. ASSUME NEW x
      PROVE  x \in ToSet(rest) <=> x \in ToSet(q) /\ x # Head(q)
      <2>1. ASSUME x \in ToSet(rest)
            PROVE  x \in ToSet(q) /\ x # Head(q)
            <3>1. PICK i \in 1 .. n - 1 : rest[i] = x
                  BY <1>3, <2>1 DEF ToSet
            <3>2. i + 1 \in 1 .. n /\ i + 1 # 1 /\ 1 \in 1 .. n /\ q[i + 1] = x
                  BY <1>1, <1>2, <3>1
            <3> QED BY <1>1, <1>4, <3>2 DEF ToSet
      <2>2. ASSUME x \in ToSet(q), x # Head(q)
            PROVE  x \in ToSet(rest)
            <3>1. PICK i \in 1 .. n : q[i] = x
                  BY <1>1, <2>2 DEF ToSet
            <3>2. i - 1 \in 1 .. n - 1 /\ (i - 1) + 1 = i
                  BY <1>1, <2>2, <3>1
            <3>3. rest[i - 1] = x
                  BY <1>2, <3>1, <3>2
            <3> QED BY <1>3, <3>2, <3>3 DEF ToSet
      <2> QED BY <2>1, <2>2
<1>7. ASSUME NEW x \in ToSet(q), SessionOf[x] = SessionOf[Head(q)], x # Head(q)
      PROVE  Head(q) < x
      <2>1. PICK i \in 1 .. n : q[i] = x
            BY <1>1, <1>7 DEF ToSet
      <2>2. 1 \in 1 .. n /\ 1 < i
            BY <1>1, <1>7, <2>1
      <2> QED BY <1>1, <1>7, <2>1, <2>2 DEF Ordered
<1>8. Head(q) \in ToSet(q) /\ Head(q) \in Run
      BY <1>1, EntryFacts DEF n
<1> QED BY <1>2, <1>5, <1>6, <1>7, <1>8 DEF rest

\* A queue from which the first k entries are taken.
LEMMA OrderedRest ==
    ASSUME NEW q \in Seq(Run), Ordered(q), NEW k \in 0 .. Len(q)
    PROVE  LET rest    == SubSeq(q, k + 1, Len(q))
               started == {q[i] : i \in 1 .. k}
           IN  /\ rest \in Seq(Run) /\ Ordered(rest)
               /\ rest # <<>> => k < Len(q)
               /\ started \subseteq ToSet(q)
               /\ \A x : x \in ToSet(rest) <=> x \in ToSet(q) /\ x \notin started
               /\ \A x \in started, y \in ToSet(rest) : SessionOf[x] = SessionOf[y] => x < y
               /\ IsFiniteSet(started) /\ Cardinality(started) = k
<1> DEFINE n == Len(q)
           rest == SubSeq(q, k + 1, n)
           started == {q[i] : i \in 1 .. k}
<1>1. n \in Nat /\ k \in Nat /\ k <= n /\ DOMAIN q = 1 .. n /\ \A i \in 1 .. n : q[i] \in Run
      BY EntryFacts
<1>2. rest \in Seq(Run) /\ Len(rest) = n - k /\ \A i \in 1 .. n - k : rest[i] = q[i + k]
      <2>1. \A i \in k + 1 .. n : q[i] \in Run
            BY <1>1
      <2>2. /\ rest \in Seq(Run) /\ Len(rest) = IF k + 1 <= n THEN n - (k + 1) + 1 ELSE 0
            /\ \A i \in 1 .. n - (k + 1) + 1 : rest[i] = q[(k + 1) + i - 1]
            BY <1>1, <2>1, SubSeqProperties
      <2>3. n - (k + 1) + 1 = n - k /\ \A i \in 1 .. n - k : (k + 1) + i - 1 = i + k
            BY <1>1
      <2>4. k + 1 <= n \/ n - k = 0
            <3>1. n \in Nat /\ k \in Nat /\ k <= n
                  BY <1>1
            <3> HIDE DEF n
            <3> QED BY <3>1
      <2> HIDE DEF rest, n
      <2>5. Len(rest) = n - k
            BY <1>1, <2>2, <2>3, <2>4
      <2>6. ASSUME NEW i \in 1 .. n - k
            PROVE  rest[i] = q[i + k]
            <3>1. i \in 1 .. n - (k + 1) + 1 /\ (k + 1) + i - 1 = i + k
                  BY <2>3
            <3>2. rest[i] = q[(k + 1) + i - 1]
                  BY <2>2, <3>1
            <3> QED BY <3>1, <3>2
      <2> QED BY <2>2, <2>5, <2>6
<1>3. DOMAIN rest = 1 .. n - k
      BY <1>2, EntryFacts
<1>4. \A i, j \in 1 .. n : i # j => q[i] # q[j]
      BY OrderedInjective
<1>5. rest # <<>> => k < n
      <2> HIDE DEF rest, n
      <2>1. rest = <<>> <=> Len(rest) = 0
            BY <1>2, EntryFacts
      <2> QED BY <1>1, <1>2, <2>1
<1>6. started \in SUBSET ToSet(q)
      BY <1>1 DEF ToSet
<1>7. IsFiniteSet(started) /\ Cardinality(started) = k
      <2> DEFINE f == [i \in 1 .. k |-> q[i]]
      <2>1. f \in Bijection(1 .. k, started)
            BY <1>1, <1>4 DEF Bijection, Injection, Surjection, IsInjective
      <2>2. ExistsBijection(1 .. k, started)
            BY <2>1 DEF ExistsBijection
      <2> HIDE DEF started
      <2>3. IsFiniteSet(1 .. k) /\ Cardinality(1 .. k) = k
            BY <1>1, FS_Interval
      <2> QED BY <2>2, <2>3, FS_Bijection
<1> HIDE DEF n, rest
<1>8. Ordered(rest)
      <2> SUFFICES ASSUME NEW i \in 1 .. n - k, NEW j \in 1 .. n - k, i < j,
                          SessionOf[rest[i]] = SessionOf[rest[j]]
                   PROVE  rest[i] < rest[j]
          BY <1>3 DEF Ordered
      <2>1. i + k \in 1 .. n /\ j + k \in 1 .. n /\ i + k < j + k
            BY <1>1
      <2> QED BY <1>1, <1>2, <2>1 DEF Ordered
<1>9. ASSUME NEW x
      PROVE  x \in ToSet(rest) <=> x \in ToSet(q) /\ x \notin started
      <2>1. ASSUME x \in ToSet(rest)
            PROVE  x \in ToSet(q) /\ x \notin started
            <3>1. PICK i \in 1 .. n - k : rest[i] = x
                  BY <1>3, <2>1 DEF ToSet
            <3>2. i + k \in 1 .. n /\ q[i + k] = x /\ \A j \in 1 .. k : j \in 1 .. n /\ j # i + k
                  BY <1>1, <1>2, <3>1
            <3> QED BY <1>1, <1>4, <3>2 DEF ToSet
      <2>2. ASSUME x \in ToSet(q), x \notin started
            PROVE  x \in ToSet(rest)
            <3>1. PICK i \in 1 .. n : q[i] = x
                  BY <1>1, <2>2 DEF ToSet
            <3>2. i \notin 1 .. k
                  BY <2>2, <3>1
            <3>3. i - k \in 1 .. n - k /\ (i - k) + k = i
                  BY <1>1, <3>2
            <3>4. rest[i - k] = x
                  BY <1>2, <3>1, <3>3
            <3> QED BY <1>3, <3>3, <3>4 DEF ToSet
      <2> QED BY <2>1, <2>2
<1>10. ASSUME NEW x \in started, NEW y \in ToSet(rest), SessionOf[x] = SessionOf[y]
       PROVE  x < y
      <2>1. PICK i \in 1 .. k : q[i] = x
            OBVIOUS
      <2>2. PICK j \in 1 .. n - k : rest[j] = y
            BY <1>3 DEF ToSet
      <2>3. i \in 1 .. n /\ j + k \in 1 .. n /\ i < j + k /\ q[j + k] = y
            BY <1>1, <1>2, <2>2
      <2> QED BY <1>1, <1>10, <2>1, <2>3 DEF Ordered
<1> HIDE DEF started
<1> QED BY <1>2, <1>5, <1>6, <1>7, <1>8, <1>9, <1>10 DEF started, rest, n

LEMMA EntriesConcat ==
    ASSUME NEW q \in Seq(Run), NEW p \in Seq(Run)
    PROVE  /\ q \o p \in Seq(Run) /\ Len(q \o p) = Len(q) + Len(p)
           /\ \A i \in 1 .. Len(q) + Len(p) : (q \o p)[i] = IF i <= Len(q) THEN q[i] ELSE p[i - Len(q)]
BY ConcatProperties

\* One entry of each of several sessions, put behind a queue.
LEMMA OrderedConcat ==
    ASSUME NEW q \in Seq(Run), Ordered(q), NEW heads \in SUBSET Run, IsFiniteSet(heads),
           NEW order \in SetToSeqs(heads),
           \A x, y \in heads : SessionOf[x] = SessionOf[y] => x = y,
           \A x \in ToSet(q), y \in heads : SessionOf[x] = SessionOf[y] => x < y
    PROVE  LET new == q \o order IN
           /\ new \in Seq(Run) /\ Ordered(new)
           /\ \A x : x \in ToSet(new) <=> x \in ToSet(q) \/ x \in heads
<1> DEFINE m == Cardinality(heads)
           n == Len(q)
           new == q \o order
<1>1. m \in Nat /\ n \in Nat /\ DOMAIN q = 1 .. n
      BY FS_CardinalityType, EntryFacts
<1>2. /\ order \in [1 .. m -> heads]
      /\ \A i, j \in 1 .. m : i # j => order[i] # order[j]
      BY DEF SetToSeqs
<1>3. order \in Seq(Run) /\ Len(order) = m
      <2>1. order \in Seq(heads)
            BY <1>1, <1>2
      <2>2. order \in Seq(Run)
            BY <1>1, <1>2
      <2> QED BY <1>1, <1>2, <2>2, LenProperties
<1>4. \A x \in heads : \E i \in 1 .. m : order[i] = x
      <2>1. order \in Injection(1 .. m, heads)
            BY <1>2 DEF Injection, IsInjective
      <2>2. IsFiniteSet(1 .. m) /\ Cardinality(1 .. m) = m
            BY <1>1, FS_Interval
      <2>3. order \in Surjection(1 .. m, heads)
            BY <2>1, <2>2, FS_Injection
      <2> QED BY <2>3 DEF Surjection
<1>5. /\ new \in Seq(Run) /\ Len(new) = n + m
      /\ \A i \in 1 .. n + m : new[i] = IF i <= n THEN q[i] ELSE order[i - n]
      <2>1. /\ new \in Seq(Run) /\ Len(new) = Len(q) + Len(order)
            /\ \A i \in 1 .. Len(q) + Len(order) : new[i] = IF i <= Len(q) THEN q[i] ELSE order[i - Len(q)]
            BY <1>3, EntriesConcat
      <2> HIDE DEF new
      <2> QED BY <1>3, <2>1
<1>6. DOMAIN new = 1 .. n + m
      BY <1>5, EntryFacts
<1> HIDE DEF new, n, m
<1>7. ASSUME NEW i \in 1 .. n + m
      PROVE  \/ i \in 1 .. n /\ new[i] = q[i] /\ q[i] \in ToSet(q)
             \/ i > n /\ i - n \in 1 .. m /\ new[i] = order[i - n] /\ order[i - n] \in heads
      <2>1. CASE i <= n
            BY <1>1, <1>5, <2>1 DEF ToSet
      <2>2. CASE i > n
            <3>1. i - n \in 1 .. m /\ ~(i <= n)
                  BY <1>1, <2>2
            <3> QED BY <1>2, <1>5, <2>2, <3>1
      <2> QED BY <1>1, <2>1, <2>2
<1>8. Ordered(new)
      <2> SUFFICES ASSUME NEW i \in 1 .. n + m, NEW j \in 1 .. n + m, i < j,
                          SessionOf[new[i]] = SessionOf[new[j]]
                   PROVE  new[i] < new[j]
          BY <1>6 DEF Ordered
      <2>1. CASE j \in 1 .. n /\ new[j] = q[j]
            <3>1. i \in 1 .. n /\ new[i] = q[i]
                  BY <1>1, <1>7, <2>1
            <3> QED BY <1>1, <2>1, <3>1 DEF Ordered
      <2>2. CASE j > n /\ j - n \in 1 .. m /\ new[j] = order[j - n] /\ order[j - n] \in heads
            <3>1. CASE i \in 1 .. n /\ new[i] = q[i] /\ q[i] \in ToSet(q)
                  BY <2>2, <3>1
            <3>2. CASE i > n /\ i - n \in 1 .. m /\ new[i] = order[i - n] /\ order[i - n] \in heads
                  <4>1. i - n # j - n
                        BY <1>1
                  <4> QED BY <1>2, <2>2, <3>2, <4>1
            <3> QED BY <1>7, <3>1, <3>2
      <2> QED BY <1>7, <2>1, <2>2
<1>9. ASSUME NEW x
      PROVE  x \in ToSet(new) <=> x \in ToSet(q) \/ x \in heads
      <2>1. ASSUME x \in ToSet(new) PROVE x \in ToSet(q) \/ x \in heads
            <3>1. PICK i \in 1 .. n + m : new[i] = x
                  BY <1>6, <2>1 DEF ToSet
            <3> QED BY <1>7, <3>1
      <2>2. ASSUME x \in ToSet(q) PROVE x \in ToSet(new)
            <3>1. PICK i \in 1 .. n : q[i] = x
                  BY <1>1, <2>2 DEF ToSet
            <3>2. i \in 1 .. n + m /\ i <= n
                  BY <1>1
            <3>3. new[i] = x
                  BY <1>5, <3>1, <3>2
            <3> QED BY <1>6, <3>2, <3>3 DEF ToSet
      <2>3. ASSUME x \in heads PROVE x \in ToSet(new)
            <3>1. PICK i \in 1 .. m : order[i] = x
                  BY <1>4, <2>3
            <3>2. n + i \in 1 .. n + m /\ ~(n + i <= n) /\ (n + i) - n = i
                  BY <1>1
            <3>3. new[n + i] = x
                  BY <1>5, <3>1, <3>2
            <3> QED BY <1>6, <3>2, <3>3 DEF ToSet
      <2> QED BY <2>1, <2>2, <2>3
<1> QED BY <1>5, <1>8, <1>9 DEF new

-----------------------------------------------------------------------------
(* Pumping the main lane.                                                  *)

LEMMA RecFacts ==
    ASSUME NEW lanes \in LaneRec
    PROVE  /\ lanes.queue \in [Lane -> Seq(Run)] /\ lanes.active \in [Lane -> SUBSET Run]
           /\ lanes.phase \in [Run -> RunPhase]
           /\ Main \in Lane /\ Session \subseteq Lane /\ \A s \in Session : s # Main
           /\ \A r \in Run : SessionOf[r] \in Session /\ SessionOf[r] \in Lane /\ r \in Nat
BY RunAssumption, LaneAssumption DEF LaneRec, Lane

LEMMA MoveFields ==
    ASSUME NEW lanes \in LaneRec, NEW runs, NEW to \in RunPhase
    PROVE  LET new == Move(lanes, runs, to) IN
           /\ new \in LaneRec /\ new.queue = lanes.queue /\ new.active = lanes.active
           /\ \A r \in Run : new.phase[r] = IF r \in runs THEN to ELSE lanes.phase[r]
<1> DEFINE phases == [r \in Run |-> IF r \in runs THEN to ELSE lanes.phase[r]]
           new == [lanes EXCEPT !.phase = phases]
<1>1. phases \in [Run -> RunPhase]
      BY RecFacts
<1>2. \A r \in Run : phases[r] = IF r \in runs THEN to ELSE lanes.phase[r]
      OBVIOUS
<1> HIDE DEF phases
<1>3. new \in LaneRec /\ new.queue = lanes.queue /\ new.active = lanes.active /\ new.phase = phases
      BY <1>1 DEF LaneRec
<1>4. Move(lanes, runs, to) = new
      BY DEF Move, phases
<1> HIDE DEF new
<1> QED BY <1>2, <1>3, <1>4

\* The entries that a lane of k slots, c of them taken, has room for.
LEMMA RoomIsPrefix ==
    ASSUME NEW m \in Nat, NEW c \in Nat, NEW n \in Nat
    PROVE  \E k \in 0 .. m : /\ {i \in 1 .. m : c + i <= n} = 1 .. k
                             /\ k < m => c + k >= n
<1>1. CASE c + m <= n
      <2>1. {i \in 1 .. m : c + i <= n} = 1 .. m
            BY <1>1
      <2> QED BY <2>1
<1>2. CASE ~(c + m <= n) /\ c <= n
      <2>1. n - c \in 0 .. m /\ c + (n - c) >= n
            BY <1>2
      <2>2. {i \in 1 .. m : c + i <= n} = 1 .. (n - c)
            BY <1>2
      <2> QED BY <2>1, <2>2
<1>3. CASE ~(c <= n)
      <2>1. {i \in 1 .. m : c + i <= n} = 1 .. 0
            BY <1>3
      <2>2. 0 \in 0 .. m /\ c + 0 >= n
            BY <1>3
      <2> QED BY <2>1, <2>2
<1> QED BY <1>1, <1>2, <1>3

\* How many entries start, and what that makes of the lanes.
LEMMA PumpMainFields ==
    ASSUME NEW lanes \in LaneRec, NEW n \in Nat, Cardinality(lanes.active[Main]) \in Nat
    PROVE  LET new == PumpMain(lanes, n) IN
           \E k \in 0 .. Len(lanes.queue[Main]) :
              LET started == {lanes.queue[Main][i] : i \in 1 .. k} IN
              /\ new \in LaneRec
              /\ new.queue[Main] = SubSeq(lanes.queue[Main], k + 1, Len(lanes.queue[Main]))
              /\ new.active[Main] = lanes.active[Main] \cup started
              /\ \A l \in Lane \ {Main} : /\ new.queue[l] = lanes.queue[l]
                                          /\ new.active[l] = lanes.active[l]
              /\ \A r \in Run : new.phase[r] = IF r \in started THEN "starting" ELSE lanes.phase[r]
              /\ k < Len(lanes.queue[Main]) => Cardinality(lanes.active[Main]) + k >= n
<1> DEFINE w == lanes.queue[Main]
           m == Len(w)
           c == Cardinality(lanes.active[Main])
           room == {i \in DOMAIN w : c + i <= n}
<1>1. w \in Seq(Run) /\ Main \in Lane
      BY RecFacts
<1>2. m \in Nat /\ DOMAIN w = 1 .. m /\ \A i \in 1 .. m : w[i] \in Run
      BY <1>1, EntryFacts
<1>3. PICK k \in 0 .. m : room = 1 .. k /\ (k < m => c + k >= n)
      <2> HIDE DEF m, c, w
      <2> QED BY <1>2, RoomIsPrefix DEF c
<1>4. Cardinality(room) = k
      <2>1. k \in Nat /\ 1 \in Int
            BY <1>2
      <2> HIDE DEF room, m
      <2>2. Cardinality(1 .. k) = IF 1 > k THEN 0 ELSE k - 1 + 1
            BY <2>1, FS_Interval
      <2> QED BY <1>3, <2>1, <2>2
<1> DEFINE started == {w[i] : i \in room}
           rest == SubSeq(w, k + 1, m)
           waits == [lanes.queue EXCEPT ![Main] = rest]
           actives == [lanes.active EXCEPT ![Main] = @ \cup started]
           rec == [lanes EXCEPT !.queue[Main] = SubSeq(@, Cardinality(room) + 1, Len(@)),
                                !.active[Main] = @ \cup started]
<1>5. PumpMain(lanes, n) = Move(rec, started, "starting")
      BY DEF PumpMain
<1>6. rest \in Seq(Run)
      <2>1. k + 1 \in Int /\ m \in Int /\ \A i \in k + 1 .. m : w[i] \in Run
            BY <1>2
      <2> HIDE DEF w, m
      <2> QED BY <2>1, SubSeqProperties
<1>7. started = {w[i] : i \in 1 .. k} /\ started \subseteq Run
      BY <1>2, <1>3
<1>8. lanes.queue \in [Lane -> Seq(Run)] /\ lanes.active \in [Lane -> SUBSET Run]
      BY RecFacts
<1> HIDE DEF room
<1>9. rec.queue = waits /\ rec.active = actives /\ rec.phase = lanes.phase
      <2> HIDE DEF started
      <2> QED BY <1>4 DEF LaneRec
<1>10. waits \in [Lane -> Seq(Run)] /\ actives \in [Lane -> SUBSET Run]
      <2> HIDE DEF rest, started
      <2> QED BY <1>6, <1>7, <1>8
<1>11. rec \in LaneRec
      <2> HIDE DEF waits, actives
      <2>1. lanes \in [queue : [Lane -> Seq(Run)], active : [Lane -> SUBSET Run], phase : [Run -> RunPhase]]
            BY DEF LaneRec
      <2>2. rec = [queue |-> waits, active |-> actives, phase |-> lanes.phase]
            <3> DEFINE first == [lanes EXCEPT !.queue[Main] = SubSeq(@, Cardinality(room) + 1, Len(@))]
                       second == [first EXCEPT !.active[Main] = @ \cup started]
            <3>1. rec = second
                  OBVIOUS
            <3>2. first = [lanes EXCEPT !.queue = waits]
                  BY <1>4 DEF waits
            <3>3. first = [queue |-> waits, active |-> lanes.active, phase |-> lanes.phase]
                  BY <2>1, <3>2
            <3> HIDE DEF first, started, rec
            <3>4. second = [queue |-> waits, active |-> actives, phase |-> lanes.phase]
                  <4>1. second = [first EXCEPT !.active = [first.active EXCEPT ![Main] = @ \cup started]]
                        OBVIOUS
                  <4>2. first.active = lanes.active
                        BY <3>3
                  <4>3. second = [first EXCEPT !.active = actives]
                        BY <4>1, <4>2 DEF actives
                  <4> HIDE DEF second
                  <4> QED BY <3>3, <4>3
            <3> QED BY <3>1, <3>4
      <2> HIDE DEF rec
      <2> QED BY <1>10, <2>1, <2>2 DEF LaneRec
<1>12. "starting" \in RunPhase
      BY DEF RunPhase, Executing
<1> DEFINE new == PumpMain(lanes, n)
<1>13. /\ new \in LaneRec /\ new.queue = waits /\ new.active = actives
       /\ \A r \in Run : new.phase[r] = IF r \in started THEN "starting" ELSE lanes.phase[r]
      <2> HIDE DEF rec, started, waits, actives
      <2> QED BY <1>5, <1>9, <1>11, <1>12, MoveFields
<1>14. /\ waits[Main] = rest /\ actives[Main] = lanes.active[Main] \cup started
       /\ \A l \in Lane \ {Main} : waits[l] = lanes.queue[l] /\ actives[l] = lanes.active[l]
      <2> HIDE DEF rest, started
      <2> QED BY <1>1, <1>8
<1> HIDE DEF new, waits, actives, started, rec
<1>15. /\ new.queue[Main] = rest /\ new.active[Main] = lanes.active[Main] \cup started
       /\ \A l \in Lane \ {Main} : new.queue[l] = lanes.queue[l] /\ new.active[l] = lanes.active[l]
      BY <1>13, <1>14
<1> QED BY <1>3, <1>7, <1>13, <1>15 DEF new

\* Entries that start keep every part of the invariant, and fill the lane.
LEMMA PumpMainSound ==
    ASSUME NEW over, NEW lanes, Sound(lanes, over), NEW n \in Nat
    PROVE  LET new == PumpMain(lanes, n) IN
           /\ Sound(new, over) /\ NoRoom(new, n)
           /\ \A s \in Session : new.queue[s] = lanes.queue[s] /\ new.active[s] = lanes.active[s]
           /\ \A r \in Run : lanes.phase[r] # "waiting" => new.phase[r] = lanes.phase[r]
           /\ \A r \in Run : lanes.phase[r] = "waiting" => new.phase[r] \in {"waiting", "starting"}
           /\ new.active[Main] \subseteq lanes.active[Main] \cup {r \in Run : lanes.phase[r] = "waiting"}
<1> DEFINE w == lanes.queue[Main]
           taken == lanes.active[Main]
           new == PumpMain(lanes, n)
<1>1. /\ lanes \in LaneRec /\ w \in Seq(Run) /\ taken \subseteq Run /\ Ordered(w)
      /\ \A r \in Run : r \in ToSet(w) <=> lanes.phase[r] = "waiting"
      BY RecFacts DEF Sound, Placed
<1>2. \A r \in taken : lanes.phase[r] \in Executing
      BY DEF Sound, Slots
<1>3. IsFiniteSet(taken) /\ Cardinality(taken) \in Nat
      <2>1. taken \in SUBSET Submitted(lanes.phase)
            BY <1>1, <1>2 DEF Submitted, Executing
      <2> QED BY <2>1, FS_Subset, FS_CardinalityType DEF Sound
<1>4. PICK k \in 0 .. Len(w) :
         LET first == {w[i] : i \in 1 .. k} IN
         /\ new \in LaneRec
         /\ new.queue[Main] = SubSeq(w, k + 1, Len(w))
         /\ new.active[Main] = taken \cup first
         /\ \A l \in Lane \ {Main} : new.queue[l] = lanes.queue[l] /\ new.active[l] = lanes.active[l]
         /\ \A r \in Run : new.phase[r] = IF r \in first THEN "starting" ELSE lanes.phase[r]
         /\ k < Len(w) => Cardinality(taken) + k >= n
      BY <1>1, <1>3, PumpMainFields
<1> DEFINE started == {w[i] : i \in 1 .. k}
           rest == SubSeq(w, k + 1, Len(w))
<1>5. /\ rest \in Seq(Run) /\ Ordered(rest)
      /\ rest # <<>> => k < Len(w)
      /\ started \subseteq ToSet(w)
      /\ \A x : x \in ToSet(rest) <=> x \in ToSet(w) /\ x \notin started
      /\ \A x \in started, y \in ToSet(rest) : SessionOf[x] = SessionOf[y] => x < y
      /\ IsFiniteSet(started) /\ Cardinality(started) = k
      <2> HIDE DEF w
      <2> QED BY <1>1, OrderedRest
<1>6. /\ new \in LaneRec /\ new.queue[Main] = rest /\ new.active[Main] = taken \cup started
      /\ \A s \in Session : new.queue[s] = lanes.queue[s] /\ new.active[s] = lanes.active[s]
      /\ \A r \in Run : new.phase[r] = IF r \in started THEN "starting" ELSE lanes.phase[r]
      /\ k < Len(w) => Cardinality(taken) + k >= n
      <2> HIDE DEF new, w, taken
      <2>1. \A s \in Session : s \in Lane \ {Main}
            BY <1>1, RecFacts
      <2> QED BY <1>4, <2>1
<1>7. started \subseteq Run /\ \A r \in started : lanes.phase[r] = "waiting"
      BY <1>1, <1>5, EntryFacts
<1> HIDE DEF new, w, taken, started, rest
<1>8. Placed(new.queue, new.phase)
      <2>1. \A l \in Lane : Ordered(new.queue[l])
            BY <1>5, <1>6 DEF Sound, Placed, Lane
      <2>2. ASSUME NEW r \in Run, NEW s \in Session
            PROVE  r \in ToSet(new.queue[s]) <=> SessionOf[r] = s /\ new.phase[r] = "queued"
            <3>1. r \in ToSet(lanes.queue[s]) <=> SessionOf[r] = s /\ lanes.phase[r] = "queued"
                  BY DEF Sound, Placed
            <3> QED BY <1>6, <1>7, <3>1
      <2>3. \A r \in Run : r \in ToSet(new.queue[Main]) <=> new.phase[r] = "waiting"
            BY <1>1, <1>5, <1>6
      <2> QED BY <2>1, <2>2, <2>3 DEF Placed
<1>9. Turns(new.phase)
      <2> SUFFICES ASSUME NEW q \in Run, NEW r \in Run, SessionOf[q] = SessionOf[r], q < r,
                          new.phase[q] \in DOMAIN Behind
                   PROVE  new.phase[r] \in Behind[new.phase[q]]
          BY DEF Turns
      <2>1. q \notin started /\ new.phase[q] = lanes.phase[q]
            BY <1>6 DEF Behind
      <2>2. lanes.phase[r] \in Behind[lanes.phase[q]]
            BY <2>1 DEF Sound, Turns
      <2>3. CASE r \in started
            <3>1. lanes.phase[r] = "waiting"
                  BY <1>7, <2>3
            <3>2. lanes.phase[q] = "waiting"
                  BY <2>1, <2>2, <3>1 DEF Behind
            <3>3. q \in ToSet(rest)
                  BY <1>1, <1>5, <2>1, <3>2
            <3>4. r < q /\ q \in Nat /\ r \in Nat
                  BY <1>5, <2>3, <3>3, RunAssumption
            <3> QED BY <3>4
      <2> QED BY <1>6, <2>1, <2>2, <2>3
<1>10. Slots(new.active, new.phase, over)
      <2>1. \A r \in new.active[Main] : new.phase[r] \in Executing
            BY <1>1, <1>2, <1>6, <1>7 DEF Executing
      <2>2. ASSUME NEW r \in Run, new.phase[r] \in Executing \cup {"waiting"}
            PROVE  r \in over \/ new.active[SessionOf[r]] = {r}
            <3>1. lanes.phase[r] \in Executing \cup {"waiting"}
                  BY <1>6, <1>7, <2>2
            <3> QED BY <1>6, <3>1, RunAssumption DEF Sound, Slots
      <2> QED BY <2>1, <2>2 DEF Slots
<1>11. Submitted(new.phase) = Submitted(lanes.phase)
      BY <1>6, <1>7 DEF Submitted
<1>12. Sound(new, over)
      BY <1>6, <1>8, <1>9, <1>10, <1>11 DEF Sound
<1>13. NoRoom(new, n)
      <2>1. taken \cap started = {}
            BY <1>2, <1>7 DEF Executing
      <2>2. Cardinality(taken \cup started) = Cardinality(taken) + k
            <3>1. Cardinality(taken \cup started) = Cardinality(taken) + Cardinality(started) - Cardinality(taken \cap started)
                  BY <1>3, <1>5, FS_Union
            <3>2. Cardinality({}) = 0
                  BY FS_EmptySet
            <3>3. k \in Nat
                  BY <1>1, EntryFacts
            <3>4. Cardinality(taken \cap started) = 0 /\ Cardinality(started) = k
                  BY <1>5, <2>1, <3>2
            <3> QED BY <1>3, <3>1, <3>3, <3>4
      <2> QED BY <1>5, <1>6, <2>2 DEF NoRoom
<1>14. new.active[Main] \subseteq taken \cup {r \in Run : lanes.phase[r] = "waiting"}
      BY <1>6, <1>7
<1>15. \A r \in Run : /\ lanes.phase[r] # "waiting" => new.phase[r] = lanes.phase[r]
                      /\ lanes.phase[r] = "waiting" => new.phase[r] \in {"waiting", "starting"}
      BY <1>6, <1>7
<1> QED BY <1>6, <1>12, <1>13, <1>14, <1>15 DEF new, taken

-----------------------------------------------------------------------------
(* Pumping the lane of a session.                                          *)

\* The phases, once some runs have come to another.
Phased(phases, runs, to, next) ==
    \A r \in Run : next[r] = IF r \in runs THEN to ELSE phases[r]

LEMMA QueuesSet ==
    ASSUME NEW lanes \in LaneRec, NEW waits \in [Lane -> Seq(Run)]
    PROVE  LET new == [lanes EXCEPT !.queue = waits] IN
           /\ new \in LaneRec /\ new.queue = waits
           /\ new.active = lanes.active /\ new.phase = lanes.phase
BY DEF LaneRec

LEMMA ActivesSet ==
    ASSUME NEW lanes \in LaneRec, NEW actives \in [Lane -> SUBSET Run]
    PROVE  LET new == [lanes EXCEPT !.active = actives] IN
           /\ new \in LaneRec /\ new.active = actives
           /\ new.queue = lanes.queue /\ new.phase = lanes.phase
BY DEF LaneRec

LEMMA NothingWaits == <<>> \in Seq(Run) /\ Ordered(<<>>) /\ \A x : x \notin ToSet(<<>>)
BY DEF Ordered, ToSet

\* What waits in the lane of a session is refused or cleared.
LEMMA DropSound ==
    ASSUME NEW over, NEW lanes, Sound(lanes, over), NEW s \in Session,
           NEW to \in {"refused", "cleared"}
    PROVE  LET new == Move([lanes EXCEPT !.queue[s] = <<>>], ToSet(lanes.queue[s]), to) IN
           /\ Sound(new, over)
           /\ new.queue[s] = <<>> /\ new.active = lanes.active
           /\ \A l \in Lane \ {s} : new.queue[l] = lanes.queue[l]
           /\ Phased(lanes.phase, ToSet(lanes.queue[s]), to, new.phase)
<1> DEFINE waits == [lanes.queue EXCEPT ![s] = <<>>]
           mid == [lanes EXCEPT !.queue = waits]
           all == ToSet(lanes.queue[s])
           new == Move(mid, all, to)
<1>1. /\ lanes \in LaneRec /\ s \in Lane /\ s # Main /\ to \in RunPhase
      /\ lanes.queue \in [Lane -> Seq(Run)]
      BY RecFacts DEF Sound, RunPhase, Settled
<1>2. /\ waits \in [Lane -> Seq(Run)] /\ waits[s] = <<>>
      /\ \A l \in Lane \ {s} : waits[l] = lanes.queue[l]
      BY <1>1, NothingWaits
<1>3. \A r \in Run : r \in all <=> SessionOf[r] = s /\ lanes.phase[r] = "queued"
      BY DEF Sound, Placed
<1> HIDE DEF waits, all
<1>4. /\ new \in LaneRec /\ new.queue = waits /\ new.active = lanes.active
      /\ \A r \in Run : new.phase[r] = IF r \in all THEN to ELSE lanes.phase[r]
      <2>1. mid \in LaneRec /\ mid.queue = waits /\ mid.active = lanes.active /\ mid.phase = lanes.phase
            BY <1>1, <1>2, QueuesSet
      <2> HIDE DEF mid
      <2> QED BY <1>1, <2>1, MoveFields
<1>5. new = Move([lanes EXCEPT !.queue[s] = <<>>], ToSet(lanes.queue[s]), to)
      BY DEF waits, all
<1> HIDE DEF new
<1>6. Placed(new.queue, new.phase)
      <2>1. \A l \in Lane : Ordered(new.queue[l])
            BY <1>2, <1>4, NothingWaits DEF Sound, Placed
      <2>2. ASSUME NEW r \in Run, NEW u \in Session
            PROVE  r \in ToSet(new.queue[u]) <=> SessionOf[r] = u /\ new.phase[r] = "queued"
            <3>1. CASE u = s
                  BY <1>2, <1>3, <1>4, <3>1, NothingWaits
            <3>2. CASE u # s
                  <4>1. u \in Lane \ {s}
                        BY <3>2 DEF Lane
                  <4>2. r \in ToSet(lanes.queue[u]) <=> SessionOf[r] = u /\ lanes.phase[r] = "queued"
                        BY DEF Sound, Placed
                  <4> QED BY <1>2, <1>3, <1>4, <3>2, <4>1, <4>2
            <3> QED BY <3>1, <3>2
      <2>3. ASSUME NEW r \in Run
            PROVE  r \in ToSet(new.queue[Main]) <=> new.phase[r] = "waiting"
            <3>1. r \in ToSet(lanes.queue[Main]) <=> lanes.phase[r] = "waiting"
                  BY DEF Sound, Placed
            <3>2. new.queue[Main] = lanes.queue[Main]
                  BY <1>1, <1>2, <1>4 DEF Lane
            <3> QED BY <1>3, <1>4, <3>1, <3>2
      <2> QED BY <2>1, <2>2, <2>3 DEF Placed
<1>7. Turns(new.phase)
      <2> SUFFICES ASSUME NEW q \in Run, NEW r \in Run, SessionOf[q] = SessionOf[r], q < r,
                          new.phase[q] \in DOMAIN Behind
                   PROVE  new.phase[r] \in Behind[new.phase[q]]
          BY DEF Turns
      <2>1. new.phase[q] = lanes.phase[q]
            BY <1>4 DEF Behind
      <2>2. lanes.phase[r] \in Behind[lanes.phase[q]]
            BY <2>1 DEF Sound, Turns
      <2> QED BY <1>3, <1>4, <2>1, <2>2 DEF Behind
<1>8. Slots(new.active, new.phase, over)
      <2>1. \A r \in Run : new.phase[r] \in Executing \cup {"waiting"} => lanes.phase[r] = new.phase[r]
            BY <1>4 DEF Executing
      <2>2. \A r \in Run : lanes.phase[r] \in Executing => lanes.phase[r] = new.phase[r]
            BY <1>3, <1>4 DEF Executing
      <2>3. lanes.active[Main] \subseteq Run
            BY <1>1, RecFacts
      <2> QED BY <1>4, <2>1, <2>2, <2>3 DEF Sound, Slots
<1>9. Submitted(new.phase) = Submitted(lanes.phase)
      BY <1>3, <1>4 DEF Submitted
<1>10. Sound(new, over)
      BY <1>4, <1>6, <1>7, <1>8, <1>9 DEF Sound
<1>11. Phased(lanes.phase, all, to, new.phase)
      BY <1>4 DEF Phased
<1> QED BY <1>2, <1>4, <1>5, <1>10, <1>11 DEF all

\* The slot and the phase of the entry that is started.
HeadAdmitted(lanes, s, new) ==
    /\ new.active[s] = {Head(lanes.queue[s])}
    /\ Phased(lanes.phase, {Head(lanes.queue[s])}, "waiting", new.phase)
    /\ \A u \in Session \ {s} : new.queue[u] = lanes.queue[u] /\ new.active[u] = lanes.active[u]

\* The first entry of a session goes to the main lane.
LEMMA AdmitSound ==
    ASSUME NEW over, NEW lanes, Sound(lanes, over), NEW s \in Session,
           lanes.active[s] = {}, lanes.queue[s] # <<>>
    PROVE  LET new == Admitted(lanes, s)
           IN  Sound(new, over) /\ HeadAdmitted(lanes, s, new)
<1> DEFINE first == Head(lanes.queue[s])
           waits == [lanes.queue EXCEPT ![s] = Tail(@), ![Main] = Append(@, first)]
           actives == [lanes.active EXCEPT ![s] = {first}]
           half == [lanes EXCEPT !.queue = waits]
           mid == [half EXCEPT !.active = actives]
           new == Move(mid, {first}, "waiting")
<1>1. /\ lanes \in LaneRec /\ s \in Lane /\ s # Main /\ Main \in Lane /\ "waiting" \in RunPhase
      /\ lanes.queue \in [Lane -> Seq(Run)] /\ lanes.active \in [Lane -> SUBSET Run]
      BY RecFacts DEF Sound, RunPhase
<1>2. /\ Ordered(lanes.queue[s]) /\ Ordered(lanes.queue[Main])
      /\ lanes.queue[s] \in Seq(Run) /\ lanes.queue[Main] \in Seq(Run)
      BY <1>1 DEF Sound, Placed
<1>3. /\ first \in ToSet(lanes.queue[s]) /\ first \in Run
      /\ Tail(lanes.queue[s]) \in Seq(Run) /\ Ordered(Tail(lanes.queue[s]))
      /\ \A x : x \in ToSet(Tail(lanes.queue[s])) <=> x \in ToSet(lanes.queue[s]) /\ x # first
      /\ \A x \in ToSet(lanes.queue[s]) : SessionOf[x] = SessionOf[first] => x = first \/ first < x
      BY <1>2, OrderedTail
<1> HIDE DEF first
<1>4. SessionOf[first] = s /\ lanes.phase[first] = "queued"
      BY <1>3 DEF Sound, Placed
<1>5. ASSUME NEW x \in Run, lanes.phase[x] = "waiting", SessionOf[x] = s
      PROVE  x < first
      <2>1. x # first /\ x \in Nat /\ first \in Nat
            BY <1>3, <1>4, <1>5, RunAssumption
      <2>2. ~(first < x)
            <3> SUFFICES ASSUME first < x PROVE FALSE
                OBVIOUS
            <3>1. lanes.phase[x] \in Behind["queued"]
                  BY <1>3, <1>4, <1>5 DEF Sound, Turns, Behind
            <3> QED BY <1>5, <3>1 DEF Behind
      <2> QED BY <2>1, <2>2
<1>6. LET added == Append(lanes.queue[Main], first) IN
      /\ added \in Seq(Run) /\ Ordered(added)
      /\ \A x : x \in ToSet(added) <=> x \in ToSet(lanes.queue[Main]) \/ x = first
      <2>1. \A x \in ToSet(lanes.queue[Main]) : SessionOf[x] = SessionOf[first] => x < first
            <3>1. \A x \in ToSet(lanes.queue[Main]) : x \in Run /\ lanes.phase[x] = "waiting"
                  BY <1>2, EntryFacts DEF Sound, Placed
            <3> QED BY <1>4, <1>5, <3>1
      <2> QED BY <1>2, <1>3, <2>1, OrderedAppend
<1>7. /\ waits \in [Lane -> Seq(Run)]
      /\ waits[s] = Tail(lanes.queue[s]) /\ waits[Main] = Append(lanes.queue[Main], first)
      /\ \A u \in Session \ {s} : waits[u] = lanes.queue[u]
      BY <1>1, <1>3, <1>6, LaneAssumption DEF Lane
<1>8. /\ actives \in [Lane -> SUBSET Run] /\ actives[s] = {first}
      /\ \A l \in Lane \ {s} : actives[l] = lanes.active[l]
      BY <1>1, <1>3
<1> HIDE DEF waits, actives
<1>9. /\ new \in LaneRec /\ new.queue = waits /\ new.active = actives
      /\ \A r \in Run : new.phase[r] = IF r = first THEN "waiting" ELSE lanes.phase[r]
      <2>1. half \in LaneRec /\ half.queue = waits /\ half.active = lanes.active /\ half.phase = lanes.phase
            BY <1>1, <1>7, QueuesSet
      <2> HIDE DEF half
      <2>2. mid \in LaneRec /\ mid.queue = waits /\ mid.active = actives /\ mid.phase = lanes.phase
            BY <1>8, <2>1, ActivesSet
      <2> HIDE DEF mid
      <2> QED BY <1>1, <2>2, MoveFields
<1>10. new = Admitted(lanes, s)
      <2>1. half.active = lanes.active
            BY <1>1, <1>7, QueuesSet
      <2>2. [lanes EXCEPT !.queue[s] = Tail(@), !.queue[Main] = Append(@, first),
                          !.active[s] = {first}]
            = [half EXCEPT !.active[s] = {first}]
            <3> DEFINE same == [lanes EXCEPT !.queue[s] = Tail(@), !.queue[Main] = Append(@, first)]
                       both == [lanes EXCEPT !.queue[s] = Tail(@), !.queue[Main] = Append(@, first),
                                             !.active[s] = {first}]
            <3>1. both = [same EXCEPT !.active[s] = {first}]
                  OBVIOUS
            <3>2. same = half
                  BY <1>1 DEF waits, LaneRec
            <3> HIDE DEF same, half, both
            <3>3. both = [half EXCEPT !.active[s] = {first}]
                  BY <3>1, <3>2
            <3> QED BY <3>3 DEF both
      <2> QED BY <2>1, <2>2 DEF actives, Admitted, first
<1> HIDE DEF new
<1>11. Placed(new.queue, new.phase)
      <2>1. \A l \in Lane : Ordered(new.queue[l])
            BY <1>3, <1>6, <1>7, <1>9 DEF Sound, Placed, Lane
      <2>2. ASSUME NEW r \in Run, NEW u \in Session
            PROVE  r \in ToSet(new.queue[u]) <=> SessionOf[r] = u /\ new.phase[r] = "queued"
            <3>1. r \in ToSet(lanes.queue[u]) <=> SessionOf[r] = u /\ lanes.phase[r] = "queued"
                  BY DEF Sound, Placed
            <3>2. CASE u = s
                  BY <1>3, <1>7, <1>9, <3>1, <3>2
            <3>3. CASE u # s
                  BY <1>4, <1>7, <1>9, <3>1, <3>3
            <3> QED BY <3>2, <3>3
      <2>3. ASSUME NEW r \in Run
            PROVE  r \in ToSet(new.queue[Main]) <=> new.phase[r] = "waiting"
            <3>1. r \in ToSet(lanes.queue[Main]) <=> lanes.phase[r] = "waiting"
                  BY DEF Sound, Placed
            <3> QED BY <1>6, <1>7, <1>9, <3>1
      <2> QED BY <2>1, <2>2, <2>3 DEF Placed
<1>12. Turns(new.phase)
      <2> SUFFICES ASSUME NEW q \in Run, NEW r \in Run, SessionOf[q] = SessionOf[r], q < r,
                          new.phase[q] \in DOMAIN Behind
                   PROVE  new.phase[r] \in Behind[new.phase[q]]
          BY DEF Turns
      <2>1. q # r /\ q \in Nat /\ r \in Nat
            BY RunAssumption
      <2>2. lanes.phase[q] \in DOMAIN Behind => lanes.phase[r] \in Behind[lanes.phase[q]]
            BY DEF Sound, Turns
      <2>3. CASE q = first
            BY <1>4, <1>9, <2>1, <2>2, <2>3 DEF Behind
      <2>4. CASE r = first
            <3>1. lanes.phase[q] \in {"queued", "waiting"}
                  BY <1>4, <1>9, <2>1, <2>2, <2>4 DEF Behind
            <3>2. lanes.phase[q] # "queued"
                  <4> SUFFICES ASSUME lanes.phase[q] = "queued" PROVE FALSE
                      OBVIOUS
                  <4>1. q \in ToSet(lanes.queue[s])
                        BY <1>4, <2>4 DEF Sound, Placed
                  <4>2. first < q
                        BY <1>3, <1>4, <2>1, <2>4, <4>1
                  <4> QED BY <2>1, <2>4, <4>2
            <3> QED BY <1>9, <2>1, <2>4, <3>1, <3>2 DEF Behind
      <2>5. CASE q # first /\ r # first
            BY <1>9, <2>2, <2>5
      <2> QED BY <2>3, <2>4, <2>5
<1>13. Slots(new.active, new.phase, over)
      <2>1. \A r \in new.active[Main] : new.phase[r] \in Executing
            <3>1. new.active[Main] = lanes.active[Main] /\ lanes.active[Main] \subseteq Run
                  BY <1>1, <1>8, <1>9
            <3>2. \A r \in lanes.active[Main] : lanes.phase[r] \in Executing
                  BY DEF Sound, Slots
            <3> QED BY <1>4, <1>9, <3>1, <3>2 DEF Executing
      <2>2. ASSUME NEW r \in Run, new.phase[r] \in Executing \cup {"waiting"}
            PROVE  r \in over \/ new.active[SessionOf[r]] = {r}
            <3>1. CASE r = first
                  BY <1>4, <1>8, <1>9, <3>1
            <3>2. CASE r # first
                  <4>1. r \in over \/ lanes.active[SessionOf[r]] = {r}
                        BY <1>9, <2>2, <3>2 DEF Sound, Slots
                  <4>2. SessionOf[r] = s => lanes.active[SessionOf[r]] # {r}
                        OBVIOUS
                  <4>3. SessionOf[r] \in Lane
                        BY <1>1, RecFacts
                  <4> QED BY <1>8, <1>9, <4>1, <4>2, <4>3
            <3> QED BY <3>1, <3>2
      <2> QED BY <2>1, <2>2 DEF Slots
<1>14. Submitted(new.phase) = Submitted(lanes.phase)
      BY <1>4, <1>9 DEF Submitted
<1>15. Sound(new, over)
      BY <1>9, <1>11, <1>12, <1>13, <1>14 DEF Sound
<1>16. new.active[s] = {first} /\ Phased(lanes.phase, {first}, "waiting", new.phase)
      BY <1>8, <1>9 DEF Phased
<1>17. \A u \in Session \ {s} : new.queue[u] = lanes.queue[u] /\ new.active[u] = lanes.active[u]
      BY <1>7, <1>8, <1>9 DEF Lane
<1>18. HeadAdmitted(lanes, s, new)
      BY <1>16, <1>17 DEF HeadAdmitted, first
<1> QED BY <1>10, <1>15, <1>18

\* A session lane whose slot may have become free.
LEMMA PumpSessionSound ==
    ASSUME NEW over, NEW lanes, Sound(lanes, over), NEW s \in Session, width \in Nat,
           NoRoom(lanes, width), Awake(lanes, {s})
    PROVE  LET new == PumpSession(lanes, s) IN
           Sound(new, over) /\ NoRoom(new, width) /\ Awake(new, {})
<1> DEFINE new == PumpSession(lanes, s)
           admitted == Admitted(lanes, s)
           refused == Move([lanes EXCEPT !.queue[s] = <<>>], ToSet(lanes.queue[s]), "refused")
<1>1. CASE lanes.active[s] # {} \/ lanes.queue[s] = <<>>
      <2>1. new = lanes
            BY <1>1 DEF PumpSession
      <2>2. Awake(lanes, {})
            BY <1>1 DEF Awake
      <2> HIDE DEF new
      <2> QED BY <2>1, <2>2 DEF new
<1>2. CASE lanes.active[s] = {} /\ lanes.queue[s] # <<>> /\ gateway.draining
      <2>1. new = refused
            BY <1>2 DEF PumpSession
      <2>2. /\ Sound(refused, over) /\ refused.queue[s] = <<>> /\ refused.active = lanes.active
            /\ \A l \in Lane \ {s} : refused.queue[l] = lanes.queue[l]
            BY DropSound
      <2> HIDE DEF refused, new
      <2>3. Main \in Lane \ {s} /\ Session \ {s} \subseteq Lane \ {s}
            BY LaneAssumption DEF Lane
      <2>4. NoRoom(refused, width)
            BY <2>2, <2>3 DEF NoRoom
      <2>5. Awake(refused, {})
            BY <2>2, <2>3 DEF Awake
      <2> QED BY <2>1, <2>2, <2>4, <2>5 DEF new
<1>3. CASE lanes.active[s] = {} /\ lanes.queue[s] # <<>> /\ ~gateway.draining
      <2>1. new = PumpMain(admitted, width)
            BY <1>3 DEF PumpSession, Admitted
      <2>2. Sound(admitted, over) /\ HeadAdmitted(lanes, s, admitted)
            BY <1>3, AdmitSound
      <2> HIDE DEF admitted, new
      <2>3. /\ Sound(new, over) /\ NoRoom(new, width)
            /\ \A u \in Session : new.queue[u] = admitted.queue[u] /\ new.active[u] = admitted.active[u]
            BY <2>1, <2>2, PumpMainSound
      <2>4. Awake(new, {})
            BY <2>2, <2>3 DEF Awake, HeadAdmitted
      <2> QED BY <2>3, <2>4 DEF new
<1> QED BY <1>1, <1>2, <1>3

-----------------------------------------------------------------------------
(* The steps of a run, on the lanes.                                       *)

\* Runs are numbered as their sessions submit them, so r is the first of its
\* session that is still new.
LEMMA NewIsLast ==
    ASSUME NEW over, NEW lanes, Sound(lanes, over), NEW r \in Run, lanes.phase[r] = "new",
           \A q \in Run : SessionOf[q] = SessionOf[r] /\ lanes.phase[q] = "new" => r <= q,
           NEW q \in Run, SessionOf[q] = SessionOf[r], q # r
    PROVE  /\ q < r => lanes.phase[q] # "new"
           /\ r < q => lanes.phase[q] = "new"
<1>1. q \in Nat /\ r \in Nat
      BY RunAssumption
<1>2. r < q => lanes.phase[q] \in Behind["new"]
      BY DEF Sound, Turns, Behind
<1> QED BY <1>1, <1>2 DEF Behind

\* A run that is refused before it is enqueued.
LEMMA RefuseSound ==
    ASSUME NEW over, NEW lanes, Sound(lanes, over), NEW r \in Run, lanes.phase[r] = "new",
           \A q \in Run : SessionOf[q] = SessionOf[r] /\ lanes.phase[q] = "new" => r <= q
    PROVE  LET new == Move(lanes, {r}, "refused") IN
           Sound(new, over) /\ new.queue = lanes.queue /\ new.active = lanes.active
<1> DEFINE new == Move(lanes, {r}, "refused")
<1>1. lanes \in LaneRec /\ "refused" \in RunPhase
      BY DEF Sound, RunPhase, Settled
<1>2. /\ new \in LaneRec /\ new.queue = lanes.queue /\ new.active = lanes.active
      /\ \A q \in Run : new.phase[q] = IF q = r THEN "refused" ELSE lanes.phase[q]
      BY <1>1, MoveFields
<1> HIDE DEF new
<1>3. Placed(new.queue, new.phase)
      BY <1>2 DEF Sound, Placed
<1>4. Turns(new.phase)
      <2> SUFFICES ASSUME NEW q \in Run, NEW p \in Run, SessionOf[q] = SessionOf[p], q < p,
                          new.phase[q] \in DOMAIN Behind
                   PROVE  new.phase[p] \in Behind[new.phase[q]]
          BY DEF Turns
      <2>1. q # r /\ new.phase[q] = lanes.phase[q]
            BY <1>2 DEF Behind
      <2>2. lanes.phase[p] \in Behind[lanes.phase[q]]
            BY <2>1 DEF Sound, Turns
      <2>3. CASE p = r
            <3>1. lanes.phase[q] # "new"
                  BY <2>1, <2>3, NewIsLast
            <3> QED BY <1>2, <2>1, <2>3, <3>1 DEF Behind
      <2>4. CASE p # r
            BY <1>2, <2>1, <2>2, <2>4
      <2> QED BY <2>3, <2>4
<1>5. Slots(new.active, new.phase, over)
      <2>1. \A q \in Run : q # r => new.phase[q] = lanes.phase[q]
            BY <1>2
      <2>2. new.phase[r] = "refused" /\ \A q \in Run : lanes.phase[q] \in Executing => q # r
            BY <1>2 DEF Executing
      <2>3. lanes.active[Main] \subseteq Run
            BY <1>1, RecFacts
      <2>4. \A q \in new.active[Main] : new.phase[q] \in Executing
            BY <1>2, <2>1, <2>2, <2>3 DEF Sound, Slots
      <2>5. ASSUME NEW q \in Run, new.phase[q] \in Executing \cup {"waiting"}
            PROVE  q \in over \/ new.active[SessionOf[q]] = {q}
            <3>1. q # r
                  BY <2>2, <2>5 DEF Executing
            <3> QED BY <1>2, <2>1, <2>5, <3>1 DEF Sound, Slots
      <2> QED BY <2>4, <2>5 DEF Slots
<1>6. IsFiniteSet(Submitted(new.phase))
      <2>1. Submitted(new.phase) = Submitted(lanes.phase) \cup {r}
            BY <1>2 DEF Submitted
      <2> QED BY <2>1, FS_AddElement DEF Sound
<1>7. Sound(new, over)
      BY <1>2, <1>3, <1>4, <1>5, <1>6 DEF Sound
<1> QED BY <1>2, <1>7 DEF new

\* A run that is enqueued in the lane of its session.
LEMMA EnqueueSound ==
    ASSUME NEW over, NEW lanes, Sound(lanes, over), NEW r \in Run, lanes.phase[r] = "new",
           \A q \in Run : SessionOf[q] = SessionOf[r] /\ lanes.phase[q] = "new" => r <= q
    PROVE  LET s   == SessionOf[r]
               new == Move([lanes EXCEPT !.queue[s] = Append(@, r)], {r}, "queued")
           IN  /\ Sound(new, over) /\ new.active = lanes.active
               /\ \A l \in Lane \ {s} : new.queue[l] = lanes.queue[l]
               /\ Phased(lanes.phase, {r}, "queued", new.phase)
<1> DEFINE s == SessionOf[r]
           waits == [lanes.queue EXCEPT ![s] = Append(@, r)]
           mid == [lanes EXCEPT !.queue = waits]
           new == Move(mid, {r}, "queued")
<1>1. /\ lanes \in LaneRec /\ s \in Session /\ s \in Lane /\ s # Main /\ "queued" \in RunPhase
      /\ lanes.queue \in [Lane -> Seq(Run)] /\ lanes.active \in [Lane -> SUBSET Run]
      BY RecFacts DEF Sound, RunPhase
<1>2. Ordered(lanes.queue[s]) /\ lanes.queue[s] \in Seq(Run)
      BY <1>1 DEF Sound, Placed
<1>3. \A x \in ToSet(lanes.queue[s]) : SessionOf[x] = s => x < r
      <2> SUFFICES ASSUME NEW x \in ToSet(lanes.queue[s]), SessionOf[x] = s PROVE x < r
          OBVIOUS
      <2>1. x \in Run
            BY <1>2, EntryFacts
      <2>2. lanes.phase[x] = "queued" /\ x # r
            BY <1>1, <2>1 DEF Sound, Placed
      <2>3. ~(r < x)
            BY <2>1, <2>2, NewIsLast
      <2> QED BY <2>1, <2>2, <2>3, RunAssumption
<1>4. LET added == Append(lanes.queue[s], r) IN
      /\ added \in Seq(Run) /\ Ordered(added)
      /\ \A x : x \in ToSet(added) <=> x \in ToSet(lanes.queue[s]) \/ x = r
      BY <1>2, <1>3, OrderedAppend
<1>5. /\ waits \in [Lane -> Seq(Run)] /\ waits[s] = Append(lanes.queue[s], r)
      /\ \A l \in Lane \ {s} : waits[l] = lanes.queue[l]
      BY <1>1, <1>4
<1>6. new = Move([lanes EXCEPT !.queue[s] = Append(@, r)], {r}, "queued")
      OBVIOUS
<1> HIDE DEF waits, s
<1>7. /\ new \in LaneRec /\ new.queue = waits /\ new.active = lanes.active
      /\ \A q \in Run : new.phase[q] = IF q = r THEN "queued" ELSE lanes.phase[q]
      <2>1. mid \in LaneRec /\ mid.queue = waits /\ mid.active = lanes.active /\ mid.phase = lanes.phase
            BY <1>1, <1>5, QueuesSet
      <2> HIDE DEF mid
      <2> QED BY <1>1, <2>1, MoveFields
<1> HIDE DEF new
<1>8. Placed(new.queue, new.phase)
      <2>1. \A l \in Lane : Ordered(new.queue[l])
            BY <1>4, <1>5, <1>7 DEF Sound, Placed
      <2>2. ASSUME NEW q \in Run, NEW u \in Session
            PROVE  q \in ToSet(new.queue[u]) <=> SessionOf[q] = u /\ new.phase[q] = "queued"
            <3>1. q \in ToSet(lanes.queue[u]) <=> SessionOf[q] = u /\ lanes.phase[q] = "queued"
                  BY DEF Sound, Placed
            <3>2. CASE u = s
                  <4>1. q \in ToSet(new.queue[u]) <=> q \in ToSet(lanes.queue[u]) \/ q = r
                        BY <1>4, <1>5, <1>7, <3>2
                  <4> QED BY <1>7, <3>1, <3>2, <4>1 DEF s
            <3>3. CASE u # s
                  <4>1. u \in Lane \ {s}
                        BY <3>3 DEF Lane
                  <4> QED BY <1>5, <1>7, <3>1, <3>3, <4>1 DEF s
            <3> QED BY <3>2, <3>3
      <2>3. ASSUME NEW q \in Run
            PROVE  q \in ToSet(new.queue[Main]) <=> new.phase[q] = "waiting"
            <3>1. q \in ToSet(lanes.queue[Main]) <=> lanes.phase[q] = "waiting"
                  BY DEF Sound, Placed
            <3>2. new.queue[Main] = lanes.queue[Main]
                  BY <1>1, <1>5, <1>7 DEF Lane
            <3> QED BY <1>7, <3>1, <3>2
      <2> QED BY <2>1, <2>2, <2>3 DEF Placed
<1>9. Turns(new.phase)
      <2> SUFFICES ASSUME NEW q \in Run, NEW p \in Run, SessionOf[q] = SessionOf[p], q < p,
                          new.phase[q] \in DOMAIN Behind
                   PROVE  new.phase[p] \in Behind[new.phase[q]]
          BY DEF Turns
      <2>1. q # p
            BY RunAssumption
      <2>2. CASE q = r
            <3>1. lanes.phase[p] = "new"
                  BY <2>1, <2>2, NewIsLast
            <3> QED BY <1>7, <2>1, <2>2, <3>1 DEF Behind
      <2>3. CASE p = r
            <3>1. lanes.phase[q] # "new"
                  BY <2>1, <2>3, NewIsLast
            <3> QED BY <1>7, <2>1, <2>3, <3>1 DEF Behind
      <2>4. CASE q # r /\ p # r
            BY <1>7, <2>4 DEF Sound, Turns
      <2> QED BY <2>2, <2>3, <2>4
<1>10. Slots(new.active, new.phase, over)
      <2>1. \A q \in Run : q # r => new.phase[q] = lanes.phase[q]
            BY <1>7
      <2>2. new.phase[r] = "queued" /\ \A q \in Run : lanes.phase[q] \in Executing => q # r
            BY <1>7 DEF Executing
      <2>3. lanes.active[Main] \subseteq Run
            BY <1>1, RecFacts
      <2>4. \A q \in new.active[Main] : new.phase[q] \in Executing
            BY <1>7, <2>1, <2>2, <2>3 DEF Sound, Slots
      <2>5. ASSUME NEW q \in Run, new.phase[q] \in Executing \cup {"waiting"}
            PROVE  q \in over \/ new.active[SessionOf[q]] = {q}
            <3>1. q # r
                  BY <2>2, <2>5 DEF Executing
            <3> QED BY <1>7, <2>1, <2>5, <3>1 DEF Sound, Slots
      <2> QED BY <2>4, <2>5 DEF Slots
<1>11. IsFiniteSet(Submitted(new.phase))
      <2>1. Submitted(new.phase) = Submitted(lanes.phase) \cup {r}
            BY <1>7 DEF Submitted
      <2> QED BY <2>1, FS_AddElement DEF Sound
<1>12. Sound(new, over)
      BY <1>7, <1>8, <1>9, <1>10, <1>11 DEF Sound
<1>13. Phased(lanes.phase, {r}, "queued", new.phase)
      BY <1>7 DEF Phased
<1> QED BY <1>5, <1>6, <1>7, <1>12, <1>13 DEF s

\* A run under way that goes on or ends; at its end its slot of the main lane is given back.
LEMMA UnderWaySound ==
    ASSUME NEW over, NEW lanes, Sound(lanes, over), NEW r \in Run, lanes.phase[r] \in Executing,
           NEW to \in {"running", "ended"},
           NEW new \in LaneRec, new.queue = lanes.queue,
           \A q \in Run : new.phase[q] = IF q = r THEN to ELSE lanes.phase[q],
           \A s \in Session : new.active[s] = lanes.active[s],
           \A q \in new.active[Main] : q \in lanes.active[Main] /\ (q = r => to = "running")
    PROVE  Sound(new, over)
<1>1. lanes.phase[r] \notin {"new", "queued", "waiting"} /\ to \notin {"new", "queued", "waiting"}
      BY DEF Executing
<1>2. Placed(new.queue, new.phase)
      BY <1>1 DEF Sound, Placed
<1>3. Turns(new.phase)
      <2> SUFFICES ASSUME NEW q \in Run, NEW p \in Run, SessionOf[q] = SessionOf[p], q < p,
                          new.phase[q] \in DOMAIN Behind
                   PROVE  new.phase[p] \in Behind[new.phase[q]]
          BY DEF Turns
      <2>1. q # r /\ new.phase[q] = lanes.phase[q]
            BY <1>1 DEF Behind
      <2>2. lanes.phase[p] \in Behind[lanes.phase[q]]
            BY <2>1 DEF Sound, Turns
      <2>3. p # r
            BY <2>1, <2>2 DEF Behind, Executing
      <2> QED BY <2>1, <2>2, <2>3
<1>4. Slots(new.active, new.phase, over)
      <2>1. lanes.active[Main] \subseteq Run
            BY RecFacts DEF Sound
      <2>2. \A q \in new.active[Main] : new.phase[q] \in Executing
            BY <2>1 DEF Sound, Slots, Executing
      <2>3. \A q \in Run : new.phase[q] \in Executing \cup {"waiting"} =>
                               lanes.phase[q] \in Executing \cup {"waiting"}
            OBVIOUS
      <2> QED BY <2>2, <2>3, RunAssumption DEF Sound, Slots
<1>5. Submitted(new.phase) = Submitted(lanes.phase)
      BY <1>1 DEF Submitted
<1> QED BY <1>2, <1>3, <1>4, <1>5 DEF Sound

\* The slot of a session that the run which has ended held.
LEMMA FreeSound ==
    ASSUME NEW over, NEW lanes, Sound(lanes, over), NEW r \in Run, lanes.phase[r] = "ended",
           r \in lanes.active[SessionOf[r]]
    PROVE  LET new == [lanes EXCEPT !.active[SessionOf[r]] = @ \ {r}] IN
           /\ Sound(new, over) /\ new.queue = lanes.queue
           /\ \A l \in Lane \ {SessionOf[r]} : new.active[l] = lanes.active[l]
<1> DEFINE s == SessionOf[r]
           actives == [lanes.active EXCEPT ![s] = @ \ {r}]
           new == [lanes EXCEPT !.active = actives]
<1>1. /\ lanes \in LaneRec /\ s \in Session /\ s \in Lane /\ s # Main /\ Main \in Lane
      /\ lanes.active \in [Lane -> SUBSET Run]
      BY RecFacts DEF Sound
<1>2. /\ actives \in [Lane -> SUBSET Run] /\ \A l \in Lane \ {s} : actives[l] = lanes.active[l]
      BY <1>1
<1>3. new = [lanes EXCEPT !.active[SessionOf[r]] = @ \ {r}]
      OBVIOUS
<1> HIDE DEF actives, s
<1>4. /\ new \in LaneRec /\ new.active = actives /\ new.queue = lanes.queue /\ new.phase = lanes.phase
      BY <1>1, <1>2, ActivesSet
<1> HIDE DEF new
<1>5. Slots(new.active, new.phase, over)
      <2>1. \A q \in new.active[Main] : new.phase[q] \in Executing
            BY <1>1, <1>2, <1>4 DEF Sound, Slots
      <2>2. ASSUME NEW q \in Run, new.phase[q] \in Executing \cup {"waiting"}, q \notin over
            PROVE  new.active[SessionOf[q]] = {q}
            <3>1. lanes.active[SessionOf[q]] = {q} /\ SessionOf[q] \in Lane
                  BY <1>1, <1>4, <2>2, RecFacts DEF Sound, Slots
            <3>2. q # r
                  BY <1>4, <2>2 DEF Executing
            <3>3. SessionOf[q] # s
                  BY <3>1, <3>2 DEF s
            <3> QED BY <1>2, <1>4, <3>1, <3>3
      <2> QED BY <2>1, <2>2 DEF Slots
<1>6. Sound(new, over)
      BY <1>4, <1>5 DEF Sound
<1> QED BY <1>2, <1>3, <1>4, <1>6 DEF s

\* The end of a run: its task in the main lane, then that of its session.
LEMMA FinishMainSound ==
    ASSUME NEW over, NEW lanes, Sound(lanes, over), NoRoom(lanes, width), width \in Nat,
           Awake(lanes, {}), NEW r \in Run, lanes.phase[r] \in Executing
    PROVE  LET new == FinishMain(Move(lanes, {r}, "ended"), r) IN
           /\ Sound(new, over) /\ NoRoom(new, width) /\ Awake(new, {})
           /\ new.phase[r] = "ended"
           /\ \A s \in Session : new.queue[s] = lanes.queue[s] /\ new.active[s] = lanes.active[s]
           /\ \A q \in Run \ {r} :
                 IF lanes.phase[q] = "waiting" THEN new.phase[q] \in {"waiting", "starting"}
                                               ELSE new.phase[q] = lanes.phase[q]
<1> DEFINE mid == Move(lanes, {r}, "ended")
           actives == [lanes.active EXCEPT ![Main] = @ \ {r}]
           freed == [mid EXCEPT !.active = actives]
           new == FinishMain(mid, r)
<1>1. /\ lanes \in LaneRec /\ Main \in Lane /\ Session \subseteq Lane \ {Main} /\ "ended" \in RunPhase
      /\ lanes.active \in [Lane -> SUBSET Run]
      BY RecFacts, LaneAssumption DEF Sound, RunPhase, Settled
<1>2. /\ mid \in LaneRec /\ mid.queue = lanes.queue /\ mid.active = lanes.active
      /\ \A q \in Run : mid.phase[q] = IF q = r THEN "ended" ELSE lanes.phase[q]
      BY <1>1, MoveFields
<1>3. /\ actives \in [Lane -> SUBSET Run] /\ actives[Main] = lanes.active[Main] \ {r}
      /\ \A l \in Lane \ {Main} : actives[l] = lanes.active[l]
      BY <1>1
<1>4. CASE r \in mid.active[Main]
      <2>1. freed = [mid EXCEPT !.active[Main] = @ \ {r}]
            BY <1>2
      <2>2. new = PumpMain(freed, width)
            <3> HIDE DEF freed, mid
            <3> QED BY <1>4, <2>1 DEF FinishMain
      <2> HIDE DEF mid, actives
      <2>3. /\ freed \in LaneRec /\ freed.active = actives
            /\ freed.queue = mid.queue /\ freed.phase = mid.phase
            BY <1>2, <1>3, ActivesSet
      <2> HIDE DEF freed, new
      <2>4. \A s \in Session : freed.active[s] = lanes.active[s]
            BY <1>1, <1>3, <2>3
      <2>5. Sound(freed, over)
            BY <1>2, <1>3, <2>3, <2>4, UnderWaySound
      <2>6. /\ Sound(new, over) /\ NoRoom(new, width)
            /\ \A s \in Session : new.queue[s] = freed.queue[s] /\ new.active[s] = freed.active[s]
            /\ \A q \in Run : freed.phase[q] # "waiting" => new.phase[q] = freed.phase[q]
            /\ \A q \in Run : freed.phase[q] = "waiting" => new.phase[q] \in {"waiting", "starting"}
            BY <2>2, <2>5, PumpMainSound
      <2>7. Awake(new, {})
            BY <1>2, <2>3, <2>4, <2>6 DEF Awake
      <2>8. /\ new.phase[r] = "ended"
            /\ \A s \in Session : new.queue[s] = lanes.queue[s] /\ new.active[s] = lanes.active[s]
            /\ \A q \in Run \ {r} :
                  IF lanes.phase[q] = "waiting" THEN new.phase[q] \in {"waiting", "starting"}
                                                ELSE new.phase[q] = lanes.phase[q]
            BY <1>2, <2>3, <2>4, <2>6
      <2> QED BY <2>6, <2>7, <2>8 DEF new, mid
<1>5. CASE r \notin mid.active[Main]
      <2>1. new = mid
            <3> HIDE DEF mid
            <3> QED BY <1>5 DEF FinishMain
      <2> HIDE DEF mid, new
      <2>2. Sound(mid, over)
            BY <1>2, <1>5, UnderWaySound
      <2>3. NoRoom(mid, width) /\ Awake(mid, {})
            BY <1>2 DEF NoRoom, Awake
      <2>4. mid.phase[r] = "ended"
            BY <1>2
      <2> QED BY <1>2, <2>1, <2>2, <2>3, <2>4 DEF new, mid
<1> QED BY <1>4, <1>5

LEMMA FinishSessionSound ==
    ASSUME NEW over, NEW lanes, Sound(lanes, over), NoRoom(lanes, width), width \in Nat,
           Awake(lanes, {}), NEW r \in Run, lanes.phase[r] = "ended"
    PROVE  LET new == FinishSession(lanes, r) IN
           Sound(new, over) /\ NoRoom(new, width) /\ Awake(new, {})
<1> DEFINE s == SessionOf[r]
           freed == [lanes EXCEPT !.active[s] = @ \ {r}]
<1>1. s \in Session /\ Main \in Lane \ {s} /\ Session \ {s} \subseteq Lane \ {s}
      BY RunAssumption, LaneAssumption DEF Lane
<1>2. CASE r \in lanes.active[s]
      <2>1. FinishSession(lanes, r) = PumpSession(freed, s)
            BY <1>2 DEF FinishSession
      <2>2. /\ Sound(freed, over) /\ freed.queue = lanes.queue
            /\ \A l \in Lane \ {s} : freed.active[l] = lanes.active[l]
            BY <1>2, FreeSound
      <2> HIDE DEF freed, s
      <2>3. NoRoom(freed, width) /\ Awake(freed, {s})
            BY <1>1, <2>2 DEF NoRoom, Awake
      <2> QED BY <1>1, <2>1, <2>2, <2>3, PumpSessionSound
<1>3. CASE r \notin lanes.active[s]
      <2>1. FinishSession(lanes, r) = lanes
            BY <1>3 DEF FinishSession
      <2> QED BY <2>1
<1> QED BY <1>2, <1>3

-----------------------------------------------------------------------------
(* The reset of the lanes.                                                 *)

UnderWay(phases) == {r \in Run : phases[r] \in Executing \cup {"waiting"}}

\* The lanes once they have forgotten their tasks and every session with
\* entries has started its first.
Reset(lanes, asking, heads, order) ==
    LET waits  == [l \in Lane |-> IF l \in asking THEN Tail(lanes.queue[l])
                                   ELSE IF l = Main THEN lanes.queue[l] \o order ELSE lanes.queue[l]]
        actives == [l \in Lane |-> IF l \in asking THEN {Head(lanes.queue[l])} ELSE {}]
    IN  Move([lanes EXCEPT !.queue = waits, !.active = actives], heads, "waiting")

\* The slots of the sessions, once each with entries has started its first.
FirstSlots(lanes, asking, new) ==
    /\ \A s \in asking : new.active[s] = {Head(lanes.queue[s])}
    /\ \A s \in Session \ asking : new.active[s] = {}

LEMMA ResetSound ==
    ASSUME NEW over, NEW lanes, Sound(lanes, over), NEW asking, NEW heads, NEW order,
           asking = {s \in Session : lanes.queue[s] # <<>>},
           heads = {Head(lanes.queue[s]) : s \in asking},
           order \in SetToSeqs(heads)
    PROVE  LET new == Reset(lanes, asking, heads, order) IN
           /\ Sound(new, over \cup UnderWay(lanes.phase)) /\ Awake(new, {})
           /\ FirstSlots(lanes, asking, new)
           /\ Phased(lanes.phase, heads, "waiting", new.phase)
<1> DEFINE waits == [l \in Lane |-> IF l \in asking THEN Tail(lanes.queue[l])
                                     ELSE IF l = Main THEN lanes.queue[l] \o order ELSE lanes.queue[l]]
           actives == [l \in Lane |-> IF l \in asking THEN {Head(lanes.queue[l])} ELSE {}]
           half == [lanes EXCEPT !.queue = waits]
           mid == [half EXCEPT !.active = actives]
           new == Move(mid, heads, "waiting")
           all == over \cup UnderWay(lanes.phase)
<1>1. /\ lanes \in LaneRec /\ Main \in Lane /\ "waiting" \in RunPhase
      /\ asking \subseteq Session /\ asking \subseteq Lane /\ Main \notin asking
      /\ lanes.queue \in [Lane -> Seq(Run)]
      BY RecFacts DEF Sound, RunPhase
<1>2. ASSUME NEW s \in asking
      PROVE  /\ lanes.queue[s] \in Seq(Run) /\ Ordered(lanes.queue[s])
             /\ LET h == Head(lanes.queue[s]) IN
                /\ h \in heads /\ h \in Run /\ SessionOf[h] = s /\ lanes.phase[h] = "queued"
                /\ Tail(lanes.queue[s]) \in Seq(Run) /\ Ordered(Tail(lanes.queue[s]))
                /\ \A x : x \in ToSet(Tail(lanes.queue[s])) <=> x \in ToSet(lanes.queue[s]) /\ x # h
                /\ \A x \in ToSet(lanes.queue[s]) : SessionOf[x] = s => x = h \/ h < x
      <2>1. lanes.queue[s] \in Seq(Run) /\ Ordered(lanes.queue[s]) /\ lanes.queue[s] # <<>>
            BY <1>1 DEF Sound, Placed
      <2>2. LET h == Head(lanes.queue[s]) IN
            /\ h \in ToSet(lanes.queue[s]) /\ h \in Run /\ h \in heads
            /\ Tail(lanes.queue[s]) \in Seq(Run) /\ Ordered(Tail(lanes.queue[s]))
            /\ \A x : x \in ToSet(Tail(lanes.queue[s])) <=> x \in ToSet(lanes.queue[s]) /\ x # h
            /\ \A x \in ToSet(lanes.queue[s]) : SessionOf[x] = SessionOf[h] => x = h \/ h < x
            BY <2>1, OrderedTail
      <2>3. SessionOf[Head(lanes.queue[s])] = s /\ lanes.phase[Head(lanes.queue[s])] = "queued"
            BY <1>1, <2>2 DEF Sound, Placed
      <2> QED BY <2>1, <2>2, <2>3
<1>3. ASSUME NEW h \in heads
      PROVE  /\ h \in Run /\ SessionOf[h] \in asking /\ h = Head(lanes.queue[SessionOf[h]])
             /\ lanes.phase[h] = "queued"
      <2>1. PICK s \in asking : h = Head(lanes.queue[s])
            OBVIOUS
      <2> QED BY <1>2, <2>1
<1>4. \A x, y \in heads : SessionOf[x] = SessionOf[y] => x = y
      BY <1>3
<1>5. ASSUME NEW x \in Run, lanes.phase[x] = "waiting", NEW h \in heads, SessionOf[x] = SessionOf[h]
      PROVE  x < h
      <2>1. x # h /\ x \in Nat /\ h \in Nat
            BY <1>3, <1>5, RunAssumption
      <2>2. ~(h < x)
            <3> SUFFICES ASSUME h < x PROVE FALSE
                OBVIOUS
            <3>1. lanes.phase[x] \in Behind["queued"]
                  BY <1>3, <1>5 DEF Sound, Turns, Behind
            <3> QED BY <1>5, <3>1 DEF Behind
      <2> QED BY <2>1, <2>2
<1>6. ASSUME NEW x \in Run, lanes.phase[x] = "queued", NEW h \in heads, SessionOf[x] = SessionOf[h]
      PROVE  x = h \/ h < x
      <2>1. x \in ToSet(lanes.queue[SessionOf[h]])
            BY <1>1, <1>3, <1>6 DEF Sound, Placed
      <2> QED BY <1>2, <1>3, <1>6, <2>1
<1>7. LET more == lanes.queue[Main] \o order IN
      /\ more \in Seq(Run) /\ Ordered(more)
      /\ \A x : x \in ToSet(more) <=> x \in ToSet(lanes.queue[Main]) \/ x \in heads
      <2>1. lanes.queue[Main] \in Seq(Run) /\ Ordered(lanes.queue[Main])
            BY <1>1 DEF Sound, Placed
      <2>2. heads \in SUBSET Run
            BY <1>3
      <2>3. IsFiniteSet(heads)
            <3>1. heads \in SUBSET Submitted(lanes.phase)
                  BY <1>3 DEF Submitted
            <3> QED BY <3>1, FS_Subset DEF Sound
      <2>4. \A x \in ToSet(lanes.queue[Main]), y \in heads : SessionOf[x] = SessionOf[y] => x < y
            <3>1. \A x \in ToSet(lanes.queue[Main]) : x \in Run /\ lanes.phase[x] = "waiting"
                  BY <2>1, EntryFacts DEF Sound, Placed
            <3> QED BY <1>5, <3>1
      <2> QED BY <1>4, <2>1, <2>2, <2>3, <2>4, OrderedConcat
<1>8. /\ waits \in [Lane -> Seq(Run)]
      /\ \A s \in asking : waits[s] = Tail(lanes.queue[s])
      /\ waits[Main] = lanes.queue[Main] \o order
      /\ \A s \in Session \ asking : waits[s] = lanes.queue[s] /\ waits[s] = <<>>
      <2>1. ASSUME NEW l \in Lane
            PROVE  (IF l \in asking THEN Tail(lanes.queue[l])
                    ELSE IF l = Main THEN lanes.queue[l] \o order ELSE lanes.queue[l]) \in Seq(Run)
            BY <1>1, <1>2, <1>7
      <2>2. \A s \in Session : s \in Lane /\ s # Main
            BY <1>1, RecFacts
      <2> QED BY <1>1, <2>1, <2>2
<1>9. /\ actives \in [Lane -> SUBSET Run] /\ actives[Main] = {}
      /\ \A s \in asking : actives[s] = {Head(lanes.queue[s])}
      BY <1>1, <1>2
<1>10. new = Reset(lanes, asking, heads, order)
      <2>1. [lanes EXCEPT !.queue = waits, !.active = actives] = mid
            <3> HIDE DEF waits, actives
            <3> QED OBVIOUS
      <2> HIDE DEF waits, actives, mid
      <2> QED BY <2>1 DEF Reset, waits, actives
<1> HIDE DEF waits, actives
<1>11. /\ new \in LaneRec /\ new.queue = waits /\ new.active = actives
       /\ \A r \in Run : new.phase[r] = IF r \in heads THEN "waiting" ELSE lanes.phase[r]
      <2>1. half \in LaneRec /\ half.queue = waits /\ half.active = lanes.active /\ half.phase = lanes.phase
            BY <1>1, <1>8, QueuesSet
      <2> HIDE DEF half
      <2>2. mid \in LaneRec /\ mid.queue = waits /\ mid.active = actives /\ mid.phase = lanes.phase
            BY <1>9, <2>1, ActivesSet
      <2> HIDE DEF mid
      <2> QED BY <1>1, <2>2, MoveFields
<1> HIDE DEF new
<1>12. Placed(new.queue, new.phase)
      <2>1. ASSUME NEW l \in Lane
            PROVE  Ordered(new.queue[l])
            <3>1. CASE l \in asking
                  BY <1>2, <1>8, <1>11, <3>1
            <3>2. CASE l \in Session \ asking
                  BY <1>8, <1>11, <3>2, NothingWaits
            <3>3. CASE l = Main
                  BY <1>7, <1>8, <1>11, <3>3
            <3> QED BY <3>1, <3>2, <3>3 DEF Lane
      <2>2. ASSUME NEW r \in Run, NEW u \in Session
            PROVE  r \in ToSet(new.queue[u]) <=> SessionOf[r] = u /\ new.phase[r] = "queued"
            <3>1. r \in ToSet(lanes.queue[u]) <=> SessionOf[r] = u /\ lanes.phase[r] = "queued"
                  BY DEF Sound, Placed
            <3>2. CASE u \in asking
                  <4>1. r \in ToSet(new.queue[u]) <=> r \in ToSet(lanes.queue[u]) /\ r # Head(lanes.queue[u])
                        BY <1>2, <1>8, <1>11, <3>2
                  <4>2. SessionOf[r] = u => (r \in heads <=> r = Head(lanes.queue[u]))
                        BY <1>2, <1>3, <3>2
                  <4> QED BY <1>11, <3>1, <4>1, <4>2
            <3>3. CASE u \notin asking
                  <4>1. new.queue[u] = lanes.queue[u]
                        BY <1>8, <1>11, <3>3
                  <4>2. SessionOf[r] = u => r \notin heads
                        BY <1>3, <3>3
                  <4> QED BY <1>11, <3>1, <4>1, <4>2
            <3> QED BY <3>2, <3>3
      <2>3. ASSUME NEW r \in Run
            PROVE  r \in ToSet(new.queue[Main]) <=> new.phase[r] = "waiting"
            <3>1. r \in ToSet(lanes.queue[Main]) <=> lanes.phase[r] = "waiting"
                  BY DEF Sound, Placed
            <3> QED BY <1>7, <1>8, <1>11, <3>1
      <2> QED BY <2>1, <2>2, <2>3 DEF Placed
<1>13. Turns(new.phase)
      <2> SUFFICES ASSUME NEW q \in Run, NEW r \in Run, SessionOf[q] = SessionOf[r], q < r,
                          new.phase[q] \in DOMAIN Behind
                   PROVE  new.phase[r] \in Behind[new.phase[q]]
          BY DEF Turns
      <2>1. q # r /\ q \in Nat /\ r \in Nat
            BY RunAssumption
      <2>2. lanes.phase[q] \in DOMAIN Behind => lanes.phase[r] \in Behind[lanes.phase[q]]
            BY DEF Sound, Turns
      <2>3. CASE q \in heads
            <3>1. r \notin heads
                  BY <1>4, <2>1, <2>3
            <3>2. lanes.phase[r] \in Behind["queued"]
                  BY <1>3, <2>2, <2>3 DEF Behind
            <3> QED BY <1>11, <2>3, <3>1, <3>2 DEF Behind
      <2>4. CASE q \notin heads /\ r \in heads
            <3>1. lanes.phase[q] \in {"queued", "waiting"} \/ lanes.phase[q] = "new"
                  BY <1>11, <2>4 DEF Behind
            <3>2. lanes.phase[q] # "new"
                  BY <1>3, <2>2, <2>4 DEF Behind
            <3>3. lanes.phase[q] # "queued"
                  BY <1>6, <2>1, <2>4
            <3> QED BY <1>11, <2>4, <3>1, <3>2, <3>3 DEF Behind
      <2>5. CASE q \notin heads /\ r \notin heads
            BY <1>11, <2>2, <2>5
      <2> QED BY <2>3, <2>4, <2>5
<1>14. Slots(new.active, new.phase, all)
      <2>1. ASSUME NEW r \in Run, new.phase[r] \in Executing \cup {"waiting"}
            PROVE  r \in all \/ new.active[SessionOf[r]] = {r}
            <3>1. CASE r \in heads
                  BY <1>3, <1>9, <1>11, <3>1
            <3>2. CASE r \notin heads
                  BY <1>11, <2>1, <3>2 DEF UnderWay
            <3> QED BY <3>1, <3>2
      <2> QED BY <1>9, <1>11, <2>1 DEF Slots
<1>15. Submitted(new.phase) = Submitted(lanes.phase)
      BY <1>3, <1>11 DEF Submitted
<1>16. Sound(new, all)
      BY <1>11, <1>12, <1>13, <1>14, <1>15 DEF Sound
<1>17. Awake(new, {})
      <2> SUFFICES ASSUME NEW s \in Session, new.queue[s] # <<>> PROVE new.active[s] # {}
          BY DEF Awake
      <2>1. s \in asking
            BY <1>8, <1>11
      <2> QED BY <1>9, <1>11, <2>1
<1>18. FirstSlots(lanes, asking, new)
      BY <1>1, <1>11, RecFacts DEF actives, FirstSlots
<1>19. Phased(lanes.phase, heads, "waiting", new.phase)
      BY <1>11 DEF Phased
<1> QED BY <1>10, <1>16, <1>17, <1>18, <1>19

-----------------------------------------------------------------------------
(* The steps.                                                              *)

LEMMA LanesParts ==
    /\ LanesTypeOK <=> Lanes \in LaneRec /\ ControlTypeOK
    /\ Lanes.queue = queue /\ Lanes.active = active /\ Lanes.phase = phase
BY DEF LanesTypeOK, Lanes, LaneRec, ControlTypeOK

LEMMA LanesInvParts ==
    LanesInv <=> /\ ControlTypeOK /\ Sound(Lanes, carried)
                 /\ NoRoom(Lanes, width) /\ Awake(Lanes, {})
BY LanesParts DEF LanesInv, Sound

LEMMA SetLanesIs ==
    ASSUME NEW lanes \in LaneRec, SetLanes(lanes)
    PROVE  Lanes' = lanes
BY DEF SetLanes, Lanes, LaneRec

\* What a step that sets the lanes has to show.
LEMMA LanesStep ==
    ASSUME NEW lanes, SetLanes(lanes), Sound(lanes, carried'), NoRoom(lanes, width'),
           Awake(lanes, {}), ControlTypeOK'
    PROVE  LanesInv'
<1>1. Lanes' = lanes
      BY SetLanesIs DEF Sound
<1>2. Sound(Lanes', carried') /\ NoRoom(Lanes', width') /\ Awake(Lanes', {})
      BY <1>1
<1>3. Sound(Lanes, carried)' /\ NoRoom(Lanes, width)' /\ Awake(Lanes, {})'
      BY <1>2 DEF Sound, NoRoom, Awake
<1> QED BY <1>3, LanesInvParts, PTL

LEMMA WidthFacts == ASSUME LanesInv PROVE width \in Nat
BY WidthAssumption DEF LanesInv, LanesTypeOK

LEMMA SubmitRunKeeps ==
    ASSUME LanesInv, NEW r \in Run, SubmitRun(r)
    PROVE  LanesInv'
<1> DEFINE s == SessionOf[r]
           refused == Move(Lanes, {r}, "refused")
           enqueued == Move([Lanes EXCEPT !.queue[s] = Append(@, r)], {r}, "queued")
<1>1. /\ Sound(Lanes, carried) /\ NoRoom(Lanes, width) /\ Awake(Lanes, {}) /\ width \in Nat
      /\ s \in Session /\ s # Main /\ ControlTypeOK
      BY LanesInvParts, WidthFacts, RunAssumption, LaneAssumption
<1>2. /\ Lanes.phase[r] = "new"
      /\ \A q \in Run : SessionOf[q] = SessionOf[r] /\ Lanes.phase[q] = "new" => r <= q
      BY LanesParts DEF SubmitRun
<1>3. carried' = carried /\ width' = width /\ ControlTypeOK'
      BY <1>1 DEF SubmitRun, ControlTypeOK
<1>4. CASE gateway.draining
      <2>1. SetLanes(refused)
            BY <1>4 DEF SubmitRun
      <2>2. Sound(refused, carried) /\ refused.queue = Lanes.queue /\ refused.active = Lanes.active
            BY <1>1, <1>2, RefuseSound
      <2> HIDE DEF refused
      <2>3. NoRoom(refused, width) /\ Awake(refused, {})
            BY <1>1, <2>2 DEF NoRoom, Awake
      <2> QED BY <1>3, <2>1, <2>2, <2>3, LanesStep
<1>5. CASE ~gateway.draining
      <2>1. SetLanes(PumpSession(enqueued, s))
            BY <1>5 DEF SubmitRun
      <2>2. /\ Sound(enqueued, carried) /\ enqueued.active = Lanes.active
            /\ \A l \in Lane \ {s} : enqueued.queue[l] = Lanes.queue[l]
            BY <1>1, <1>2, EnqueueSound
      <2> HIDE DEF enqueued, s
      <2>3. NoRoom(enqueued, width) /\ Awake(enqueued, {s})
            BY <1>1, <2>2 DEF NoRoom, Awake, Lane
      <2> DEFINE new == PumpSession(enqueued, s)
      <2>4. Sound(new, carried) /\ NoRoom(new, width) /\ Awake(new, {})
            BY <1>1, <2>2, <2>3, PumpSessionSound
      <2> HIDE DEF new
      <2> QED BY <1>3, <2>1, <2>4, LanesStep DEF new
<1> QED BY <1>4, <1>5

LEMMA RegisterRunKeeps ==
    ASSUME LanesInv, NEW r \in Run, RegisterRun(r)
    PROVE  LanesInv'
<1> DEFINE new == Move(Lanes, {r}, "running")
<1>1. /\ Sound(Lanes, carried) /\ NoRoom(Lanes, width) /\ Awake(Lanes, {}) /\ ControlTypeOK
      /\ Lanes \in LaneRec /\ SessionOf[r] \in Session
      BY LanesInvParts, RunAssumption DEF Sound
<1>2. Lanes.phase[r] = "starting" /\ SetLanes(new)
      BY LanesParts DEF RegisterRun
<1>3. carried' = carried /\ width' = width /\ ControlTypeOK'
      BY <1>1 DEF RegisterRun, ControlTypeOK
<1>4. /\ new \in LaneRec /\ new.queue = Lanes.queue /\ new.active = Lanes.active
      /\ \A q \in Run : new.phase[q] = IF q = r THEN "running" ELSE Lanes.phase[q]
      <2>1. "running" \in RunPhase
            BY DEF RunPhase, Executing
      <2> QED BY <1>1, <2>1, MoveFields
<1> HIDE DEF new
<1>5. Sound(new, carried)
      <2>1. Lanes.phase[r] \in Executing
            BY <1>2 DEF Executing
      <2> QED BY <1>1, <1>4, <2>1, UnderWaySound
<1>6. NoRoom(new, width) /\ Awake(new, {})
      BY <1>1, <1>4 DEF NoRoom, Awake
<1> QED BY <1>2, <1>3, <1>5, <1>6, LanesStep

LEMMA FinishRunKeeps ==
    ASSUME LanesInv, NEW r \in Run, FinishRun(r)
    PROVE  LanesInv'
<1> DEFINE mid == FinishMain(Move(Lanes, {r}, "ended"), r)
           new == FinishSession(mid, r)
<1>1. /\ Sound(Lanes, carried) /\ NoRoom(Lanes, width) /\ Awake(Lanes, {}) /\ ControlTypeOK
      /\ width \in Nat
      BY LanesInvParts, WidthFacts
<1>2. Lanes.phase[r] \in Executing /\ SetLanes(new)
      BY LanesParts DEF FinishRun
<1>3. carried' = carried /\ width' = width /\ ControlTypeOK'
      BY <1>1 DEF FinishRun, ControlTypeOK
<1>4. /\ Sound(mid, carried) /\ NoRoom(mid, width) /\ Awake(mid, {})
      /\ mid.phase[r] = "ended"
      BY <1>1, <1>2, FinishMainSound
<1> HIDE DEF mid
<1>5. Sound(new, carried) /\ NoRoom(new, width) /\ Awake(new, {})
      BY <1>1, <1>4, FinishSessionSound
<1> HIDE DEF new
<1> QED BY <1>2, <1>3, <1>5, LanesStep

LEMMA ClearLaneKeeps ==
    ASSUME LanesInv, NEW s \in Session, ClearLane(s)
    PROVE  LanesInv'
<1> DEFINE new == Move([Lanes EXCEPT !.queue[s] = <<>>], ToSet(Lanes.queue[s]), "cleared")
<1>1. /\ Sound(Lanes, carried) /\ NoRoom(Lanes, width) /\ Awake(Lanes, {}) /\ ControlTypeOK
      BY LanesInvParts
<1>2. SetLanes(new)
      BY LanesParts DEF ClearLane
<1>3. carried' = carried /\ width' = width /\ ControlTypeOK'
      BY <1>1 DEF ClearLane, ControlTypeOK
<1>4. /\ Sound(new, carried) /\ new.queue[s] = <<>> /\ new.active = Lanes.active
      /\ \A l \in Lane \ {s} : new.queue[l] = Lanes.queue[l]
      BY <1>1, DropSound
<1> HIDE DEF new
<1>5. NoRoom(new, width) /\ Awake(new, {})
      BY <1>1, <1>4, LaneAssumption DEF NoRoom, Awake, Lane
<1> QED BY <1>2, <1>3, <1>4, <1>5, LanesStep

LEMMA SetWidthKeeps ==
    ASSUME LanesInv, NEW n \in Widths, SetWidth(n)
    PROVE  LanesInv'
<1> DEFINE new == PumpMain(Lanes, n)
<1>1. Sound(Lanes, carried) /\ Awake(Lanes, {}) /\ ControlTypeOK /\ n \in Nat
      BY LanesInvParts, WidthAssumption
<1>2. SetLanes(new)
      BY DEF SetWidth
<1>3. carried' = carried /\ width' = n /\ ControlTypeOK'
      BY <1>1 DEF SetWidth, ControlTypeOK
<1>4. /\ Sound(new, carried) /\ NoRoom(new, n)
      /\ \A s \in Session : new.queue[s] = Lanes.queue[s] /\ new.active[s] = Lanes.active[s]
      BY <1>1, PumpMainSound
<1> HIDE DEF new
<1>5. Awake(new, {})
      BY <1>1, <1>4 DEF Awake
<1> QED BY <1>2, <1>3, <1>4, <1>5, LanesStep

\* ResetAllLanes, in the words of ResetSound.
LEMMA ResetIs ==
    ASSUME ResetAllLanes
    PROVE  LET asking == {s \in Session : Lanes.queue[s] # <<>>}
               heads  == {Head(Lanes.queue[s]) : s \in asking}
           IN  /\ \E order \in SetToSeqs(heads) :
                     SetLanes(PumpMain(Reset(Lanes, asking, heads, order), width))
               /\ carried' = carried \cup UnderWay(Lanes.phase)
<1> DEFINE asking == {s \in Session : queue[s] # <<>>}
           heads == {Head(queue[s]) : s \in asking}
           waits(order) == [l \in Lane |-> IF l \in asking THEN Tail(Lanes.queue[l])
                                            ELSE IF l = Main THEN Lanes.queue[l] \o order
                                            ELSE Lanes.queue[l]]
           actives == [l \in Lane |-> IF l \in asking THEN {Head(queue[l])} ELSE {}]
<1>1. PICK order \in SetToSeqs(heads) :
         SetLanes(PumpMain(Move([Lanes EXCEPT !.queue = waits(order), !.active = actives],
                                heads, "waiting"), width))
      BY DEF ResetAllLanes
<1>2. actives = [l \in Lane |-> IF l \in asking THEN {Head(Lanes.queue[l])} ELSE {}]
      BY LanesParts
<1>3. asking = {s \in Session : Lanes.queue[s] # <<>>} /\ heads = {Head(Lanes.queue[s]) : s \in asking}
      BY LanesParts
<1> HIDE DEF asking, heads
<1>4. Move([Lanes EXCEPT !.queue = waits(order), !.active = actives], heads, "waiting")
      = Reset(Lanes, asking, heads, order)
      BY <1>2 DEF Reset
<1>5. carried' = carried \cup UnderWay(Lanes.phase)
      BY LanesParts DEF ResetAllLanes, UnderWay
<1>6. \E o \in SetToSeqs(heads) : SetLanes(PumpMain(Reset(Lanes, asking, heads, o), width))
      BY <1>1, <1>4
<1> QED BY <1>3, <1>5, <1>6

LEMMA ResetAllLanesKeeps ==
    ASSUME LanesInv, ResetAllLanes, width' = width, ControlTypeOK'
    PROVE  LanesInv'
<1> DEFINE asking == {s \in Session : Lanes.queue[s] # <<>>}
           heads == {Head(Lanes.queue[s]) : s \in asking}
<1>1. Sound(Lanes, carried) /\ width \in Nat
      BY LanesInvParts, WidthFacts
<1>2. /\ \E order \in SetToSeqs(heads) : SetLanes(PumpMain(Reset(Lanes, asking, heads, order), width))
      /\ carried' = carried \cup UnderWay(Lanes.phase)
      BY ResetIs
<1>3. PICK order \in SetToSeqs(heads) : SetLanes(PumpMain(Reset(Lanes, asking, heads, order), width))
      BY <1>2
<1> DEFINE mid == Reset(Lanes, asking, heads, order)
           new == PumpMain(mid, width)
<1>4. Sound(mid, carried') /\ Awake(mid, {})
      <2> HIDE DEF mid, asking, heads
      <2> QED BY <1>1, <1>2, ResetSound DEF mid, asking, heads
<1> HIDE DEF mid
<1>5. /\ Sound(new, carried') /\ NoRoom(new, width)
      /\ \A s \in Session : new.queue[s] = mid.queue[s] /\ new.active[s] = mid.active[s]
      BY <1>1, <1>4, PumpMainSound
<1>6. SetLanes(new)
      BY <1>3 DEF mid
<1> HIDE DEF new
<1>7. Awake(new, {})
      BY <1>4, <1>5 DEF Awake
<1> QED BY <1>5, <1>6, <1>7, LanesStep

\* Steps that leave the lanes alone.
LEMMA LanesAlone ==
    ASSUME LanesInv, UNCHANGED <<queue, active, width, phase, carried>>, ControlTypeOK'
    PROVE  LanesInv'
<1>1. Sound(Lanes, carried) /\ NoRoom(Lanes, width) /\ Awake(Lanes, {}) /\ Lanes \in LaneRec
      BY LanesInvParts DEF Sound
<1>2. SetLanes(Lanes)
      BY DEF SetLanes, Lanes
<1> QED BY <1>1, <1>2, LanesStep

LEMMA RestartLoopKeeps ==
    ASSUME LanesInv, \/ RequestRestart \/ (\E w \in {"tasks", "runs"} : Drained(w))
                     \/ DrainTimeout \/ Restart \/ StartServer
    PROVE  LanesInv'
<1>1. ControlTypeOK
      BY LanesInvParts
<1>2. CASE RequestRestart
      <2>1. ControlTypeOK'
            <3>1. ActiveTasks \in SUBSET (Lane \X Run)
                  BY DEF ActiveTasks
            <3>2. {w \in {"tasks"} : ActiveTasks # {}} \cup {w \in {"runs"} : Registered # {}} \in SUBSET {"tasks", "runs"}
                  OBVIOUS
            <3>3. restarts' \in 0 .. MaxRestarts
                  BY <1>1, <1>2, WidthAssumption DEF RequestRestart, ControlTypeOK
            <3> QED BY <1>1, <1>2, <3>1, <3>2, <3>3 DEF RequestRestart, ControlTypeOK
      <2> QED BY <1>2, <2>1, LanesAlone DEF RequestRestart
<1>3. ASSUME NEW w \in {"tasks", "runs"}, Drained(w)
      PROVE  LanesInv'
      <2>1. ControlTypeOK'
            BY <1>1, <1>3 DEF Drained, ControlTypeOK
      <2> QED BY <1>3, <2>1, LanesAlone DEF Drained
<1>4. CASE DrainTimeout
      <2>1. ControlTypeOK'
            BY <1>1, <1>4 DEF DrainTimeout, ControlTypeOK
      <2> QED BY <1>4, <2>1, LanesAlone DEF DrainTimeout
<1>5. CASE Restart
      <2>1. CASE gateway.loop = "waiting" /\ ResetAllLanes
            <3>1. width' = width /\ ControlTypeOK'
                  <4>1. carried' \subseteq Run /\ missed' \in BOOLEAN
                        BY <1>1, <1>5, <2>1 DEF Restart, ResetAllLanes, ControlTypeOK
                  <4>2. gateway' = [gateway EXCEPT !.loop = "starting", !.shutdown = FALSE,
                                                   !.draining = FALSE, !.atStart = {}]
                        BY <1>5, <2>1 DEF Restart
                  <4>3. gateway.waits = {} /\ UNCHANGED <<width, handle, restarts>>
                        BY <1>5 DEF Restart
                  <4> QED BY <1>1, <4>1, <4>2, <4>3 DEF ControlTypeOK
            <3> QED BY <2>1, <3>1, ResetAllLanesKeeps
      <2>2. CASE ~(gateway.loop = "waiting" /\ ResetAllLanes)
            <3>1. /\ UNCHANGED <<queue, active, width, phase, handle, restarts, carried>> /\ missed' = TRUE
                  /\ gateway' = [gateway EXCEPT !.shutdown = FALSE, !.atStart = {}]
                  /\ gateway.waits = {}
                  BY <1>5, <2>2 DEF Restart
            <3>2. ControlTypeOK'
                  BY <1>1, <3>1 DEF ControlTypeOK
            <3> QED BY <3>1, <3>2, LanesAlone
      <2> QED BY <2>1, <2>2
<1>6. CASE StartServer
      <2>1. ControlTypeOK'
            BY <1>1, <1>6 DEF StartServer, ControlTypeOK
      <2> QED BY <1>6, <2>1, LanesAlone DEF StartServer
<1> QED BY <1>2, <1>3, <1>4, <1>5, <1>6

LEMMA LanesStart ==
    ASSUME LanesInit
    PROVE  LanesInv
<1>1. ControlTypeOK
      <2>1. handle \in [Session -> Run \cup {NoRun}]
            BY DEF LanesInit
      <2>2. gateway \in [loop : {"starting", "waiting"}, shutdown : BOOLEAN, draining : BOOLEAN,
                         waits : SUBSET {"tasks", "runs"}, atStart : SUBSET (Lane \X Run)]
            BY DEF LanesInit
      <2>3. restarts \in 0 .. MaxRestarts
            BY WidthAssumption DEF LanesInit
      <2>4. width \in Widths /\ carried \subseteq Run /\ missed \in BOOLEAN /\ gateway.waits = {}
            BY DEF LanesInit
      <2> QED BY <2>1, <2>2, <2>3, <2>4 DEF ControlTypeOK
<1>2. Lanes \in LaneRec
      <2>1. "new" \in RunPhase
            BY DEF RunPhase
      <2> QED BY <2>1, NothingWaits DEF LanesInit, Lanes, LaneRec
<1>3. /\ \A l \in Lane : Lanes.queue[l] = <<>> /\ Lanes.active[l] = {}
      /\ \A r \in Run : Lanes.phase[r] = "new"
      /\ Main \in Lane /\ Session \subseteq Lane
      BY DEF LanesInit, Lanes, Lane
<1>4. Placed(Lanes.queue, Lanes.phase)
      BY <1>3, NothingWaits DEF Placed
<1>5. Turns(Lanes.phase)
      BY <1>3 DEF Turns, Behind
<1>6. Slots(Lanes.active, Lanes.phase, carried)
      BY <1>3 DEF Slots, Executing
<1>7. IsFiniteSet(Submitted(Lanes.phase))
      <2>1. Submitted(Lanes.phase) = {}
            BY <1>3 DEF Submitted
      <2> QED BY <2>1, FS_EmptySet
<1>8. NoRoom(Lanes, width) /\ Awake(Lanes, {})
      BY <1>3 DEF NoRoom, Awake
<1> QED BY <1>1, <1>2, <1>4, <1>5, <1>6, <1>7, <1>8, LanesInvParts DEF Sound

\* LanesInv is an invariant of the command lanes.
THEOREM LanesInductive == LanesSpec => []LanesInv
<1>1. ASSUME LanesInv, [LanesNext]_lanesVars
      PROVE  LanesInv'
      <2>1. CASE UNCHANGED lanesVars
            <3>1. ControlTypeOK'
                  BY <1>1, <2>1, LanesInvParts DEF lanesVars, ControlTypeOK
            <3> QED BY <1>1, <2>1, <3>1, LanesAlone DEF lanesVars
      <2>2. ASSUME NEW r \in Run, SubmitRun(r) \/ RegisterRun(r) \/ FinishRun(r)
            PROVE  LanesInv'
            BY <1>1, <2>2, SubmitRunKeeps, RegisterRunKeeps, FinishRunKeeps
      <2>3. ASSUME NEW s \in Session, ClearLane(s)
            PROVE  LanesInv'
            BY <1>1, <2>3, ClearLaneKeeps
      <2>4. ASSUME NEW n \in Widths, SetWidth(n)
            PROVE  LanesInv'
            BY <1>1, <2>4, SetWidthKeeps
      <2>5. CASE \/ RequestRestart \/ (\E w \in {"tasks", "runs"} : Drained(w))
                 \/ DrainTimeout \/ Restart \/ StartServer
            BY <1>1, <2>5, RestartLoopKeeps
      <2> QED BY <1>1, <2>1, <2>2, <2>3, <2>4, <2>5 DEF LanesNext
<1>2. LanesInit => LanesInv
      BY LanesStart
<1> QED BY <1>1, <1>2, PTL DEF LanesSpec

\* An ordered queue holds a run in one place, or not at all.
LEMMA PlacesCount ==
    ASSUME NEW q \in Seq(Run), Ordered(q), NEW r
    PROVE  Cardinality({i \in DOMAIN q : q[i] = r}) = IF r \in ToSet(q) THEN 1 ELSE 0
<1> DEFINE places == {i \in DOMAIN q : q[i] = r}
<1>1. CASE r \in ToSet(q)
      <2>1. PICK i \in 1 .. Len(q) : q[i] = r
            BY <1>1, EntryFacts
      <2>2. places = {i}
            BY <2>1, EntryFacts, OrderedInjective
      <2> HIDE DEF places
      <2>3. Cardinality(places) = 1
            BY <2>2, FS_Singleton
      <2> QED BY <1>1, <2>3 DEF places
<1>2. CASE r \notin ToSet(q)
      <2>1. places = {}
            BY <1>2, EntryFacts
      <2> HIDE DEF places
      <2>2. Cardinality(places) = 0
            BY <2>1, FS_EmptySet
      <2> QED BY <1>2, <2>2 DEF places
<1> QED BY <1>1, <1>2

\* Every entry that is not settled is in one place of one queue, and no lane has
\* both room and entries: the invariant EntriesServed of the run gateway.
THEOREM EntriesAreServed == LanesSpec => []EntriesServed
<1>1. ASSUME LanesInv
      PROVE  EntriesServed
      <2>1. Sound(Lanes, carried) /\ NoRoom(Lanes, width) /\ Awake(Lanes, {})
            BY <1>1, LanesInvParts
      <2>2. /\ \A l \in Lane : queue[l] \in Seq(Run) /\ Ordered(queue[l])
            /\ \A r \in Run, s \in Session : r \in ToSet(queue[s]) <=> SessionOf[r] = s /\ phase[r] = "queued"
            /\ \A r \in Run : r \in ToSet(queue[Main]) <=> phase[r] = "waiting"
            BY <1>1, <2>1, LanesParts DEF LanesInv, LanesTypeOK, Sound, Placed
      <2>3. ASSUME NEW r \in Run
            PROVE  LET places(l) == {i \in DOMAIN queue[l] : queue[l][i] = r} IN
                   /\ Cardinality(places(SessionOf[r])) = IF phase[r] = "queued" THEN 1 ELSE 0
                   /\ Cardinality(places(Main)) = IF phase[r] = "waiting" THEN 1 ELSE 0
            <3>1. SessionOf[r] \in Session /\ SessionOf[r] \in Lane /\ Main \in Lane
                  BY RunAssumption DEF Lane
            <3>2. /\ Cardinality({i \in DOMAIN queue[SessionOf[r]] : queue[SessionOf[r]][i] = r})
                     = IF r \in ToSet(queue[SessionOf[r]]) THEN 1 ELSE 0
                  /\ Cardinality({i \in DOMAIN queue[Main] : queue[Main][i] = r})
                     = IF r \in ToSet(queue[Main]) THEN 1 ELSE 0
                  BY <2>2, <3>1, PlacesCount
            <3> QED BY <2>2, <3>1, <3>2
      <2>4. NoLaneSleeps
            <3>1. \A s \in Session : queue[s] # <<>> => active[s] # {}
                  BY <2>1, LanesParts DEF Awake
            <3>2. queue[Main] # <<>> => Cardinality(active[Main]) >= width
                  BY <2>1, LanesParts DEF NoRoom
            <3> QED BY <3>1, <3>2 DEF NoLaneSleeps
      <2> QED BY <1>1, <2>3, <2>4 DEF EntriesServed, EntriesKept, LanesInv
<1> QED BY <1>1, LanesInductive, PTL

\* The runs of a session start in their order, and two of them execute at once
\* only if a reset has carried one over: the invariant SessionsInTurn of the run gateway.
THEOREM SessionsTakeTurns == LanesSpec => []SessionsInTurn
<1>1. ASSUME LanesInv
      PROVE  SessionsInTurn
      <2>1. Turns(phase) /\ Slots(active, phase, carried)
            BY <1>1, LanesInvParts, LanesParts DEF Sound
      <2>2. SessionOrder
            BY <2>1 DEF SessionOrder, Turns, Behind, Executing
      <2>3. SessionSerial
            BY <2>1 DEF SessionSerial, Slots
      <2> QED BY <2>2, <2>3 DEF SessionsInTurn
<1> QED BY <1>1, LanesInductive, PTL

-----------------------------------------------------------------------------
(* The turns of the sessions.                                              *)

\* The stages of the runs, as SessionTurns has them.
Shown(phases) == [r \in Run |-> StageOf(phases[r])]

Lined(stages, s) == {r \in Run : SessionOf[r] = s /\ stages[r] = "lined"}

Firsts(line) == {r \in line : \A q \in line : SessionOf[q] = SessionOf[r] => r <= q}

\* A slot is held by a run that has its turn, and by none that was carried over.
SlotsHeld(actives, stages, over) ==
    /\ \A s \in Session : \A r \in actives[s] : SessionOf[r] = s /\ r \notin over /\ stages[r] = "turn"
    /\ \A r \in over : stages[r] \in {"turn", "ended"}

SlotsFaithful == SlotsHeld(active, Shown(phase), carried)

LEMMA StageFacts ==
    ASSUME NEW p \in RunPhase
    PROVE  /\ StageOf(p) = "new" <=> p = "new"
           /\ StageOf(p) = "lined" <=> p = "queued"
           /\ StageOf(p) = "turn" <=> p \in Executing \cup {"waiting"}
           /\ StageOf(p) = "ended" <=> p = "ended"
           /\ StageOf(p) = "dropped" <=> p \in {"refused", "cleared"}
<1>1. CASE p = "new"
      BY <1>1 DEF StageOf, Executing
<1>2. CASE p = "queued"
      BY <1>2 DEF StageOf, Executing
<1>3. CASE p \in Executing \cup {"waiting"}
      BY <1>3 DEF StageOf, Executing
<1>4. CASE p = "ended"
      BY <1>4 DEF StageOf, Executing
<1>5. CASE p \in {"refused", "cleared"}
      BY <1>5 DEF StageOf, Executing
<1> QED BY <1>1, <1>2, <1>3, <1>4, <1>5 DEF RunPhase, Settled

\* What the invariant says of the stages.
LEMMA ShownFacts ==
    ASSUME NEW over, NEW lanes, Sound(lanes, over)
    PROVE  LET stages == Shown(lanes.phase) IN
           /\ \A r \in Run : stages[r] = StageOf(lanes.phase[r]) /\ lanes.phase[r] \in RunPhase
           /\ \A r \in Run : stages[r] = "turn" => r \in over \/ lanes.active[SessionOf[r]] = {r}
           /\ \A s \in Session :
                 /\ lanes.active[s] \subseteq Run
                 /\ lanes.queue[s] = <<>> <=> Lined(stages, s) = {}
                 /\ ToSet(lanes.queue[s]) = Lined(stages, s)
                 /\ lanes.queue[s] # <<>> => /\ Head(lanes.queue[s]) \in Run
                                             /\ Firsts(Lined(stages, s)) = {Head(lanes.queue[s])}
<1> DEFINE stages == Shown(lanes.phase)
<1>1. \A r \in Run : stages[r] = StageOf(lanes.phase[r]) /\ lanes.phase[r] \in RunPhase
      BY RecFacts DEF Sound, Shown
<1> HIDE DEF stages
<1>2. \A r \in Run : stages[r] = "turn" => r \in over \/ lanes.active[SessionOf[r]] = {r}
      BY <1>1, StageFacts DEF Sound, Slots
<1>3. ASSUME NEW s \in Session
      PROVE  /\ lanes.active[s] \subseteq Run
             /\ lanes.queue[s] = <<>> <=> Lined(stages, s) = {}
             /\ ToSet(lanes.queue[s]) = Lined(stages, s)
             /\ lanes.queue[s] # <<>> => /\ Head(lanes.queue[s]) \in Run
                                         /\ Firsts(Lined(stages, s)) = {Head(lanes.queue[s])}
      <2> DEFINE q == lanes.queue[s]
                 line == Lined(stages, s)
      <2>1. q \in Seq(Run) /\ Ordered(q) /\ lanes.active[s] \subseteq Run
            BY RecFacts DEF Sound, Placed
      <2>2. \A r \in Run : r \in ToSet(q) <=> SessionOf[r] = s /\ stages[r] = "lined"
            BY <1>1, StageFacts DEF Sound, Placed
      <2> HIDE DEF q
      <2>3. ToSet(q) = line
            BY <2>1, <2>2, EntryFacts DEF Lined
      <2>4. q = <<>> <=> ToSet(q) = {}
            BY <2>1, EntryFacts
      <2>5. ASSUME q # <<>>
            PROVE  Head(q) \in Run /\ Firsts(line) = {Head(q)}
            <3> DEFINE h == Head(q)
            <3>1. /\ h \in ToSet(q) /\ h \in Run
                  /\ \A x \in ToSet(q) : SessionOf[x] = SessionOf[h] => x = h \/ h < x
                  BY <2>1, <2>5, OrderedTail
            <3> HIDE DEF h
            <3>2. \A x \in line : x \in Run /\ x \in Nat /\ SessionOf[x] = s
                  BY RunAssumption DEF Lined
            <3>3. h \in line /\ \A x \in line : x = h \/ h < x
                  BY <2>3, <3>1, <3>2
            <3> HIDE DEF line
            <3>4. h \in Firsts(line)
                  BY <3>2, <3>3 DEF Firsts
            <3>5. \A x \in Firsts(line) : x = h
                  BY <3>2, <3>3 DEF Firsts
            <3> QED BY <3>1, <3>4, <3>5 DEF h
      <2> QED BY <2>1, <2>3, <2>4, <2>5 DEF q
<1> QED BY <1>1, <1>2, <1>3 DEF stages

\* Stages by their values.
LEMMA ShownIs ==
    ASSUME NEW phases, NEW stages, \A r \in Run : StageOf(phases[r]) = stages[r],
           DOMAIN stages = Run, stages = [r \in Run |-> stages[r]]
    PROVE  Shown(phases) = stages
BY DEF Shown

LEMMA TurnKept ==
    StageOf("waiting") = "turn" /\ StageOf("starting") = "turn" /\ StageOf("refused") = "dropped"
BY DEF StageOf, Executing

\* The slot of a session is taken, or nobody is in its line; or the line is
\* dropped; or the head of the line gets the turn.
Passed(lanes, new, s) ==
    LET stages == Shown(lanes.phase)
        line   == Lined(stages, s)
    IN  \/ new = lanes /\ (lanes.active[s] # {} \/ line = {})
        \/ /\ lanes.active[s] = {} /\ new.active = lanes.active
           /\ Shown(new.phase) = [r \in Run |-> IF r \in line THEN "dropped" ELSE stages[r]]
        \/ /\ lanes.active[s] = {}
           /\ Shown(new.phase) = [r \in Run |-> IF r \in Firsts(line) THEN "turn" ELSE stages[r]]
           /\ \E first \in line : Firsts(line) = {first} /\ new.active[s] = {first}
           /\ \A u \in Session \ {s} : new.active[u] = lanes.active[u]

LEMMA PumpSessionPasses ==
    ASSUME NEW over, NEW lanes, Sound(lanes, over), NEW s \in Session, width \in Nat
    PROVE  Passed(lanes, PumpSession(lanes, s), s)
<1> DEFINE new == PumpSession(lanes, s)
           admitted == Admitted(lanes, s)
           refused == Move([lanes EXCEPT !.queue[s] = <<>>], ToSet(lanes.queue[s]), "refused")
           stages == Shown(lanes.phase)
           line == Lined(stages, s)
<1>1. /\ \A r \in Run : stages[r] = StageOf(lanes.phase[r]) /\ lanes.phase[r] \in RunPhase
      /\ lanes.queue[s] = <<>> <=> line = {}
      /\ ToSet(lanes.queue[s]) = line
      /\ lanes.queue[s] # <<>> => Head(lanes.queue[s]) \in Run /\ Firsts(line) = {Head(lanes.queue[s])}
      BY ShownFacts
<1>2. CASE lanes.active[s] # {} \/ lanes.queue[s] = <<>>
      <2>1. new = lanes
            BY <1>2 DEF PumpSession
      <2> HIDE DEF new
      <2> QED BY <1>1, <1>2, <2>1 DEF Passed, new
<1>3. CASE lanes.active[s] = {} /\ lanes.queue[s] # <<>> /\ gateway.draining
      <2>1. new = refused
            BY <1>3 DEF PumpSession
      <2>2. /\ Sound(refused, over) /\ refused.active = lanes.active
            /\ Phased(lanes.phase, ToSet(lanes.queue[s]), "refused", refused.phase)
            BY DropSound
      <2> HIDE DEF refused, new, stages, line
      <2>3. \A r \in Run : StageOf(refused.phase[r]) = IF r \in line THEN "dropped" ELSE stages[r]
            BY <1>1, <2>2, TurnKept DEF Phased
      <2>4. Shown(refused.phase) = [r \in Run |-> IF r \in line THEN "dropped" ELSE stages[r]]
            BY <2>3 DEF Shown
      <2>5. Passed(lanes, refused, s)
            BY <1>3, <2>2, <2>4 DEF Passed, stages, line
      <2> QED BY <2>1, <2>5 DEF new
<1>4. CASE lanes.active[s] = {} /\ lanes.queue[s] # <<>> /\ ~gateway.draining
      <2> DEFINE first == Head(lanes.queue[s])
      <2>1. new = PumpMain(admitted, width)
            BY <1>4 DEF PumpSession, Admitted
      <2>2. /\ Sound(admitted, over) /\ admitted.active[s] = {first}
            /\ Phased(lanes.phase, {first}, "waiting", admitted.phase)
            /\ \A u \in Session \ {s} : admitted.active[u] = lanes.active[u]
            <3>1. Sound(admitted, over) /\ HeadAdmitted(lanes, s, admitted)
                  BY <1>4, AdmitSound
            <3> HIDE DEF admitted
            <3> QED BY <3>1 DEF HeadAdmitted
      <2>3. first \in Run /\ Firsts(line) = {first}
            BY <1>1, <1>4
      <2> HIDE DEF admitted, new, stages, line, first
      <2>4. /\ \A u \in Session : new.active[u] = admitted.active[u]
            /\ \A r \in Run : admitted.phase[r] # "waiting" => new.phase[r] = admitted.phase[r]
            /\ \A r \in Run : admitted.phase[r] = "waiting" => new.phase[r] \in {"waiting", "starting"}
            BY <2>1, <2>2, PumpMainSound
      <2>5. \A r \in Run : StageOf(new.phase[r]) = IF r \in Firsts(line) THEN "turn" ELSE stages[r]
            BY <1>1, <2>2, <2>3, <2>4, TurnKept DEF Phased
      <2>6. Shown(new.phase) = [r \in Run |-> IF r \in Firsts(line) THEN "turn" ELSE stages[r]]
            BY <2>5 DEF Shown
      <2>7. first \in line
            BY <2>3 DEF Firsts
      <2>8. /\ new.active[s] = {first}
            /\ \A u \in Session \ {s} : new.active[u] = lanes.active[u]
            BY <2>2, <2>4
      <2>9. Passed(lanes, new, s)
            BY <1>4, <2>3, <2>6, <2>7, <2>8 DEF Passed, stages, line
      <2> QED BY <2>9 DEF new
<1> QED BY <1>2, <1>3, <1>4

\* Slots stay held while whoever has its turn, or had it, stays in that stage.
LEMMA HeldStays ==
    ASSUME NEW actives, NEW stages, NEW over, SlotsHeld(actives, stages, over),
           NEW news, NEW next, over \subseteq Run,
           \A s \in Session : news[s] = actives[s] /\ actives[s] \subseteq Run,
           \A r \in Run : stages[r] \in {"turn", "ended"} => next[r] = stages[r]
    PROVE  SlotsHeld(news, next, over)
BY DEF SlotsHeld

LEMMA PassedHolds ==
    ASSUME NEW over, NEW lanes, NEW new, NEW s \in Session, Passed(lanes, new, s),
           SlotsHeld(lanes.active, Shown(lanes.phase), over), over \subseteq Run,
           \A u \in Session : lanes.active[u] \subseteq Run
    PROVE  SlotsHeld(new.active, Shown(new.phase), over)
<1> DEFINE stages == Shown(lanes.phase)
           next == Shown(new.phase)
           line == Lined(stages, s)
<1>1. \A r \in line : r \in Run /\ SessionOf[r] = s /\ stages[r] = "lined" /\ r \notin over
      BY DEF Lined, SlotsHeld
<1>2. Firsts(line) \subseteq line
      BY DEF Firsts
<1>3. CASE new = lanes
      BY <1>3
<1>4. CASE /\ new.active = lanes.active
           /\ next = [r \in Run |-> IF r \in line THEN "dropped" ELSE stages[r]]
      <2> HIDE DEF stages, next, line
      <2>1. \A r \in Run : stages[r] \in {"turn", "ended"} => next[r] = stages[r]
            BY <1>1, <1>4
      <2>2. SlotsHeld(lanes.active, stages, over)
            BY DEF stages
      <2>3. SlotsHeld(new.active, next, over)
            BY <1>4, <2>1, <2>2, HeldStays
      <2> QED BY <2>3 DEF next
<1>5. ASSUME next = [r \in Run |-> IF r \in Firsts(line) THEN "turn" ELSE stages[r]],
             NEW first \in line, Firsts(line) = {first}, new.active[s] = {first},
             \A u \in Session \ {s} : new.active[u] = lanes.active[u]
      PROVE  SlotsHeld(new.active, next, over)
      <2> HIDE DEF stages, next, line
      <2>1. \A r \in Run : stages[r] \in {"turn", "ended"} => next[r] = stages[r]
            BY <1>1, <1>5
      <2>2. SlotsHeld(lanes.active, stages, over)
            BY DEF stages
      <2>3. next[first] = "turn" /\ SessionOf[first] = s /\ first \notin over
            BY <1>1, <1>5
      <2> QED BY <1>5, <2>1, <2>2, <2>3 DEF SlotsHeld
<1> QED BY <1>3, <1>4, <1>5 DEF Passed

\* Stages and slots, from the lanes of the module.
LEMMA TurnParts ==
    ASSUME LanesInv, SlotsFaithful
    PROVE  /\ Sound(Lanes, carried) /\ NoRoom(Lanes, width) /\ Awake(Lanes, {}) /\ width \in Nat
           /\ carried \subseteq Run
           /\ SlotsHeld(Lanes.active, Shown(Lanes.phase), carried)
           /\ \A s \in Session : Lanes.active[s] \subseteq Run
<1>1. /\ Sound(Lanes, carried) /\ NoRoom(Lanes, width) /\ Awake(Lanes, {}) /\ ControlTypeOK
      BY LanesInvParts
<1> QED BY <1>1, WidthFacts, LanesParts, ShownFacts DEF ControlTypeOK, SlotsFaithful

\* A slot is taken if and only if the turn of its session is.
LEMMA TakenIff ==
    ASSUME LanesInv, SlotsFaithful, NEW s \in Session
    PROVE  Turn!Taken(s) <=> active[s] # {}
<1> DEFINE stages == Shown(phase)
<1>1. /\ \A r \in Run : stages[r] = "turn" => r \in carried \/ active[SessionOf[r]] = {r}
      /\ SlotsHeld(active, stages, carried) /\ active[s] \subseteq Run
      BY TurnParts, ShownFacts, LanesParts
<1>2. Turn!Taken(s) <=> \E r \in Run : SessionOf[r] = s /\ stages[r] = "turn" /\ r \notin carried
      BY DEF Turn!Taken, Shown
<1> HIDE DEF stages
<1> QED BY <1>1, <1>2 DEF SlotsHeld

\* The lanes after a step that sets them.
LEMMA TurnSet ==
    ASSUME NEW lanes, SetLanes(lanes)
    PROVE  /\ Shown(phase)' = Shown(lanes.phase) /\ active' = lanes.active
           /\ SlotsHeld(lanes.active, Shown(lanes.phase), carried') => SlotsFaithful'
<1>1. phase' = lanes.phase /\ active' = lanes.active
      BY DEF SetLanes
<1> QED BY <1>1 DEF Shown, SlotsFaithful, SlotsHeld

LEMMA TurnUnmoved ==
    ASSUME SlotsFaithful, Shown(phase)' = Shown(phase), UNCHANGED carried
    PROVE  UNCHANGED Turn!turns
BY DEF Turn!turns, Shown

LEMMA SubmitTurns ==
    ASSUME LanesInv, SlotsFaithful, NEW r \in Run, SubmitRun(r)
    PROVE  Turn!Submit(r) /\ SlotsFaithful'
<1> DEFINE s == SessionOf[r]
           refused == Move(Lanes, {r}, "refused")
           enqueued == Move([Lanes EXCEPT !.queue[s] = Append(@, r)], {r}, "queued")
           stages == Shown(phase)
<1>1. /\ Sound(Lanes, carried) /\ Awake(Lanes, {}) /\ width \in Nat /\ s \in Session
      /\ SlotsHeld(Lanes.active, Shown(Lanes.phase), carried) /\ carried \subseteq Run
      /\ \A u \in Session : Lanes.active[u] \subseteq Run
      /\ Lanes.phase = phase /\ Lanes.active = active
      BY TurnParts, LanesParts, RunAssumption
<1>2. /\ Lanes.phase[r] = "new"
      /\ \A q \in Run : SessionOf[q] = SessionOf[r] /\ Lanes.phase[q] = "new" => r <= q
      BY LanesParts DEF SubmitRun
<1>3. carried' = carried
      BY DEF SubmitRun
<1>4. \A q \in Run : stages[q] = StageOf(phase[q]) /\ phase[q] \in RunPhase
      BY <1>1, ShownFacts
<1>5. stages[r] = "new" /\ SlotsHeld(active, stages, carried)
      BY <1>1, <1>2, <1>4, StageFacts
\* The step, by the stage that the run comes to.
<1>6. ASSUME NEW next \in {"dropped", IF active[s] # {} THEN "lined" ELSE "turn"},
             Shown(phase)' = [stages EXCEPT ![r] = next]
      PROVE  Turn!Submit(r)
      <2>1. next \in {"dropped", IF Turn!Taken(s) THEN "lined" ELSE "turn"}
            BY <1>1, <1>6, TakenIff
      <2>2. [q \in Run |-> StageOf(phase[q])]' = [[q \in Run |-> StageOf(phase[q])] EXCEPT ![r] = next]
            BY <1>6 DEF Shown
      <2> QED BY <1>3, <1>4, <1>5, <2>1, <2>2 DEF Turn!Submit
<1>7. CASE gateway.draining
      <2>1. SetLanes(refused)
            BY <1>7 DEF SubmitRun
      <2>2. /\ refused \in LaneRec /\ refused.active = Lanes.active
            /\ \A q \in Run : refused.phase[q] = IF q = r THEN "refused" ELSE Lanes.phase[q]
            <3>1. "refused" \in RunPhase /\ Lanes \in LaneRec
                  BY <1>1 DEF RunPhase, Settled, Sound
            <3> QED BY <3>1, MoveFields
      <2> HIDE DEF refused, stages, s
      <2>3. \A q \in Run : StageOf(refused.phase[q]) = IF q = r THEN "dropped" ELSE stages[q]
            BY <1>1, <1>4, <2>2, TurnKept
      <2>4. Shown(refused.phase) = [stages EXCEPT ![r] = "dropped"]
            BY <2>3 DEF Shown, stages
      <2>5. SlotsHeld(refused.active, Shown(refused.phase), carried)
            <3>1. \A q \in Run : stages[q] \in {"turn", "ended"} => Shown(refused.phase)[q] = stages[q]
                  BY <1>5, <2>4 DEF Shown, stages
            <3> QED BY <1>1, <1>5, <2>2, <3>1, HeldStays
      <2>6. Shown(phase)' = [stages EXCEPT ![r] = "dropped"] /\ SlotsFaithful'
            BY <1>3, <2>1, <2>2, <2>4, <2>5, TurnSet
      <2> QED BY <1>6, <2>6
<1>8. CASE ~gateway.draining
      <2> DEFINE new == PumpSession(enqueued, s)
                 mids == Shown(enqueued.phase)
      <2>1. SetLanes(new)
            BY <1>8 DEF SubmitRun
      <2>2. /\ Sound(enqueued, carried) /\ enqueued.active = Lanes.active
            /\ \A q \in Run : enqueued.phase[q] = IF q = r THEN "queued" ELSE Lanes.phase[q]
            <3>1. Sound(Lanes, carried)
                  BY <1>1
            <3>2. Sound(enqueued, carried) /\ enqueued.active = Lanes.active
                  BY <3>1, <1>2, EnqueueSound
            <3>3. Phased(Lanes.phase, {r}, "queued", enqueued.phase)
                  BY <3>1, <1>2, EnqueueSound
            <3> QED BY <3>2, <3>3 DEF Phased
      <2> HIDE DEF enqueued, stages, s, new
      <2>3. mids = [stages EXCEPT ![r] = "lined"]
            <3>1. \A q \in Run : StageOf(enqueued.phase[q]) = IF q = r THEN "lined" ELSE stages[q]
                  <4>1. StageOf("queued") = "lined"
                        BY DEF StageOf, Executing
                  <4> QED BY <1>1, <1>4, <2>2, <4>1
            <3> QED BY <3>1 DEF Shown, stages
      <2>4. DOMAIN stages = Run
            BY DEF stages, Shown
      <2> HIDE DEF mids
      <2>5. SlotsHeld(enqueued.active, mids, carried)
            <3>1. \A q \in Run : stages[q] \in {"turn", "ended"} => mids[q] = stages[q]
                  BY <1>5, <2>3, <2>4
            <3> QED BY <1>1, <1>5, <2>2, <3>1, HeldStays
      <2>6. Passed(enqueued, new, s)
            BY <1>1, <2>2, PumpSessionPasses DEF new
      <2>7. active[s] = {} => Lined(mids, s) = {r}
            <3>1. active[s] = {} => Lined(stages, s) = {}
                  <4>1. Lanes.queue[s] = <<>> <=> Lined(Shown(Lanes.phase), s) = {}
                        BY <1>1, ShownFacts
                  <4> QED BY <1>1, <4>1 DEF Awake, stages
            <3>2. SessionOf[r] = s
                  BY DEF s
            <3> QED BY <2>3, <2>4, <3>1, <3>2 DEF Lined
      <2>8. r \in Lined(mids, s)
            BY <2>3, <2>4 DEF Lined, s
      <2>9. PICK next \in {"dropped", IF active[s] # {} THEN "lined" ELSE "turn"} :
               Shown(new.phase) = [stages EXCEPT ![r] = next]
            <3>1. CASE new = enqueued /\ enqueued.active[s] # {}
                  BY <1>1, <2>2, <2>3, <3>1 DEF mids
            <3>2. CASE /\ active[s] = {}
                       /\ Shown(new.phase) = [q \in Run |-> IF q \in Lined(mids, s) THEN "dropped" ELSE mids[q]]
                  <4>1. Shown(new.phase) = [stages EXCEPT ![r] = "dropped"]
                        BY <2>3, <2>4, <2>7, <3>2
                  <4> QED BY <4>1
            <3>3. CASE /\ active[s] = {}
                       /\ Shown(new.phase) = [q \in Run |-> IF q \in Firsts(Lined(mids, s)) THEN "turn" ELSE mids[q]]
                       /\ \E first \in Lined(mids, s) : Firsts(Lined(mids, s)) = {first}
                  <4>1. Firsts(Lined(mids, s)) = {r}
                        BY <2>7, <3>3
                  <4>2. Shown(new.phase) = [stages EXCEPT ![r] = "turn"]
                        BY <2>3, <2>4, <3>3, <4>1
                  <4> QED BY <3>3, <4>2
            <3> QED BY <1>1, <2>2, <2>6, <2>8, <3>1, <3>2, <3>3 DEF Passed, mids
      <2>10. SlotsHeld(new.active, Shown(new.phase), carried)
            <3>1. \A u \in Session : enqueued.active[u] \subseteq Run
                  BY <1>1, <2>2
            <3> QED BY <1>1, <2>5, <2>6, <3>1, PassedHolds DEF mids
      <2>11. Shown(phase)' = [stages EXCEPT ![r] = next] /\ SlotsFaithful'
            BY <1>3, <2>1, <2>9, <2>10, TurnSet
      <2> QED BY <1>6, <2>11 DEF s
<1> QED BY <1>7, <1>8

\* A step of the runs that shows no session anything.
LEMMA HiddenStep ==
    ASSUME LanesInv, SlotsFaithful, NEW lanes, SetLanes(lanes), carried' = carried,
           \A s \in Session : lanes.active[s] = Lanes.active[s],
           \A r \in Run : StageOf(lanes.phase[r]) = StageOf(Lanes.phase[r])
    PROVE  UNCHANGED Turn!turns /\ SlotsFaithful'
<1>1. /\ SlotsHeld(Lanes.active, Shown(Lanes.phase), carried)
      /\ Lanes.phase = phase
      BY TurnParts, LanesParts
<1>2. Shown(lanes.phase) = Shown(Lanes.phase)
      BY DEF Shown
<1>3. SlotsHeld(lanes.active, Shown(lanes.phase), carried)
      BY <1>1, <1>2 DEF SlotsHeld
<1>4. Shown(phase)' = Shown(phase) /\ SlotsFaithful'
      BY <1>1, <1>2, <1>3, TurnSet
<1> QED BY <1>4, TurnUnmoved

LEMMA RegisterTurns ==
    ASSUME LanesInv, SlotsFaithful, NEW r \in Run, RegisterRun(r)
    PROVE  UNCHANGED Turn!turns /\ SlotsFaithful'
<1> DEFINE new == Move(Lanes, {r}, "running")
<1>1. SetLanes(new) /\ carried' = carried /\ Lanes.phase[r] = "starting"
      BY LanesParts DEF RegisterRun
<1>2. /\ new.active = Lanes.active
      /\ \A q \in Run : new.phase[q] = IF q = r THEN "running" ELSE Lanes.phase[q]
      <2>1. "running" \in RunPhase /\ Lanes \in LaneRec
            BY TurnParts DEF RunPhase, Executing, Sound
      <2> QED BY <2>1, MoveFields
<1>3. StageOf("running") = StageOf("starting")
      BY DEF StageOf, Executing
<1> HIDE DEF new
<1> QED BY <1>1, <1>2, <1>3, HiddenStep

LEMMA SetWidthTurns ==
    ASSUME LanesInv, SlotsFaithful, NEW n \in Widths, SetWidth(n)
    PROVE  UNCHANGED Turn!turns /\ SlotsFaithful'
<1> DEFINE new == PumpMain(Lanes, n)
<1>1. SetLanes(new) /\ carried' = carried
      BY DEF SetWidth
<1>2. Sound(Lanes, carried) /\ n \in Nat
      BY TurnParts, WidthAssumption
<1>3. /\ Sound(new, carried)
      /\ \A s \in Session : new.active[s] = Lanes.active[s]
      /\ \A r \in Run : Lanes.phase[r] # "waiting" => new.phase[r] = Lanes.phase[r]
      /\ \A r \in Run : Lanes.phase[r] = "waiting" => new.phase[r] \in {"waiting", "starting"}
      BY <1>2, PumpMainSound
<1> HIDE DEF new
<1>4. \A r \in Run : StageOf(new.phase[r]) = StageOf(Lanes.phase[r])
      BY <1>3, TurnKept
<1> QED BY <1>1, <1>3, <1>4, HiddenStep

LEMMA ClearTurns ==
    ASSUME LanesInv, SlotsFaithful, NEW s \in Session, ClearLane(s)
    PROVE  Turn!Clear(s) /\ SlotsFaithful'
<1> DEFINE new == Move([Lanes EXCEPT !.queue[s] = <<>>], ToSet(Lanes.queue[s]), "cleared")
           stages == Shown(phase)
<1>1. SetLanes(new) /\ carried' = carried
      BY LanesParts DEF ClearLane
<1>2. /\ Sound(Lanes, carried) /\ SlotsHeld(Lanes.active, stages, carried) /\ carried \subseteq Run
      /\ \A u \in Session : Lanes.active[u] \subseteq Run
      /\ ToSet(Lanes.queue[s]) = Lined(stages, s)
      /\ \A r \in Run : stages[r] = StageOf(Lanes.phase[r])
      BY TurnParts, LanesParts, ShownFacts
<1>3. /\ Sound(new, carried) /\ new.active = Lanes.active
      /\ Phased(Lanes.phase, ToSet(Lanes.queue[s]), "cleared", new.phase)
      BY <1>2, DropSound
<1> HIDE DEF new
<1>4. Shown(new.phase) = [r \in Run |-> IF r \in Lined(stages, s) THEN "dropped" ELSE stages[r]]
      <2> HIDE DEF stages
      <2>1. StageOf("cleared") = "dropped"
            BY DEF StageOf, Executing
      <2>2. \A r \in Run : StageOf(new.phase[r]) = IF r \in Lined(stages, s) THEN "dropped" ELSE stages[r]
            BY <1>2, <1>3, <2>1 DEF Phased
      <2> QED BY <2>2 DEF Shown
<1>5. SlotsHeld(new.active, Shown(new.phase), carried)
      <2>1. \A r \in Run : stages[r] \in {"turn", "ended"} => Shown(new.phase)[r] = stages[r]
            BY <1>4 DEF Lined
      <2> HIDE DEF stages
      <2> QED BY <1>2, <1>3, <2>1, HeldStays
<1>6. /\ SlotsFaithful'
      /\ Shown(phase)' = [r \in Run |-> IF r \in Lined(stages, s) THEN "dropped" ELSE stages[r]]
      BY <1>1, <1>4, <1>5, TurnSet
<1>7. Turn!Line({s}) = Lined(stages, s)
      BY DEF Turn!Line, Lined, Shown
<1> HIDE DEF stages
<1>8. [r \in Run |-> StageOf(phase[r])]' = [r \in Run |-> IF r \in Turn!Line({s}) THEN "dropped" ELSE stages[r]]
      BY <1>6, <1>7 DEF Shown
<1>9. Turn!Clear(s)
      BY <1>1, <1>8 DEF Turn!Clear, stages, Shown
<1> QED BY <1>6, <1>9

LEMMA FinishTurns ==
    ASSUME LanesInv, SlotsFaithful, NEW r \in Run, FinishRun(r)
    PROVE  Turn!End(r) /\ SlotsFaithful'
<1> DEFINE s == SessionOf[r]
           mid == FinishMain(Move(Lanes, {r}, "ended"), r)
           new == FinishSession(mid, r)
           stages == Shown(phase)
           mids == Shown(mid.phase)
           line == Lined(stages, s)
<1>1. /\ Sound(Lanes, carried) /\ NoRoom(Lanes, width) /\ Awake(Lanes, {}) /\ width \in Nat
      /\ carried \subseteq Run /\ s \in Session /\ Lanes.phase = phase /\ Lanes.active = active
      BY TurnParts, LanesParts, RunAssumption
<1>2. /\ SlotsHeld(active, stages, carried)
      /\ \A u \in Session : active[u] \subseteq Run
      /\ \A q \in Run : stages[q] = StageOf(phase[q]) /\ phase[q] \in RunPhase
      /\ \A q \in Run : stages[q] = "turn" => q \in carried \/ active[SessionOf[q]] = {q}
      BY TurnParts, LanesParts, ShownFacts
<1>3. phase[r] \in Executing /\ SetLanes(new) /\ carried' = carried
      BY DEF FinishRun
<1>4. stages[r] = "turn"
      BY <1>2, <1>3, StageFacts
<1>5. /\ Sound(mid, carried) /\ mid.phase[r] = "ended"
      /\ \A u \in Session : mid.active[u] = active[u]
      /\ \A q \in Run \ {r} : IF phase[q] = "waiting" THEN mid.phase[q] \in {"waiting", "starting"}
                                                      ELSE mid.phase[q] = phase[q]
      BY <1>1, <1>3, FinishMainSound
<1> HIDE DEF mid, stages, s
<1>6. mids = [q \in Run |-> IF q = r THEN "ended" ELSE stages[q]]
      <2>1. \A q \in Run : StageOf(mid.phase[q]) = IF q = r THEN "ended" ELSE stages[q]
            <3>1. StageOf("ended") = "ended"
                  BY DEF StageOf, Executing
            <3> QED BY <1>2, <1>5, <3>1, TurnKept
      <2> QED BY <2>1 DEF Shown
<1> HIDE DEF mids, line, new
\* The step, by what becomes of the line.
<1>7. ASSUME NEW past, past = IF r \in carried THEN {} ELSE line,
             \/ Shown(phase)' = [q \in Run |-> IF q = r THEN "ended" ELSE IF q \in Firsts(past) THEN "turn" ELSE stages[q]]
             \/ Shown(phase)' = [q \in Run |-> IF q = r THEN "ended" ELSE IF q \in past THEN "dropped" ELSE stages[q]]
      PROVE  Turn!End(r)
      <2>1. Turn!Line({s}) = line
            BY DEF Turn!Line, line, Lined, stages, Shown
      <2>2. Turn!Heads(past) = Firsts(past)
            BY DEF Turn!Heads, Firsts
      <2> QED BY <1>3, <1>4, <1>7, <2>1, <2>2 DEF Turn!End, Shown, stages, s
<1>8. CASE r \notin active[s]
      <2>1. new = mid
            BY <1>1, <1>5, <1>8 DEF FinishSession, new, s
      <2>2. r \in carried
            BY <1>2, <1>4, <1>8 DEF s
      <2>3. SlotsHeld(mid.active, mids, carried)
            <3>1. \A u \in Session : r \notin active[u]
                  BY <1>2, <1>8 DEF SlotsHeld, s
            <3> QED BY <1>1, <1>2, <1>5, <1>6, <3>1 DEF SlotsHeld
      <2>4. Shown(phase)' = mids /\ SlotsFaithful'
            BY <1>3, <2>1, <2>3, TurnSet DEF mids
      <2>5. Firsts({}) = {}
            BY DEF Firsts
      <2>6. Turn!End(r)
            BY <1>6, <1>7, <2>2, <2>4, <2>5
      <2> QED BY <2>4, <2>6
<1>9. CASE r \in active[s]
      <2> DEFINE freed == [mid EXCEPT !.active[s] = @ \ {r}]
      <2>1. new = PumpSession(freed, s)
            BY <1>1, <1>5, <1>9 DEF FinishSession, new, s
      <2>2. r \notin carried /\ active[s] = {r}
            BY <1>1, <1>2, <1>4, <1>9 DEF SlotsHeld, s
      <2>3. /\ Sound(freed, carried) /\ freed.phase = mid.phase
            /\ freed.active[s] = {} /\ \A u \in Session \ {s} : freed.active[u] = active[u]
            <3>1. /\ Sound(freed, carried)
                  /\ \A l \in Lane \ {s} : freed.active[l] = mid.active[l]
                  BY <1>1, <1>5, <1>9, FreeSound DEF s
            <3>2. freed.phase = mid.phase /\ freed.active[s] = mid.active[s] \ {r}
                  BY <1>1, <1>5 DEF Sound, LaneRec, Lane
            <3> QED BY <1>1, <1>5, <2>2, <3>1, <3>2, LaneAssumption DEF Lane
      <2> HIDE DEF freed
      <2>4. SlotsHeld(freed.active, mids, carried)
            <3>1. \A u \in Session \ {s} : r \notin active[u]
                  BY <1>2 DEF SlotsHeld, s
            <3> QED BY <1>1, <1>2, <1>6, <2>2, <2>3, <3>1 DEF SlotsHeld
      <2>5. Passed(freed, new, s)
            BY <1>1, <2>1, <2>3, PumpSessionPasses
      <2>6. Lined(mids, s) = line
            BY <1>4, <1>6 DEF Lined, line
      <2>7. \/ Shown(new.phase) = [q \in Run |-> IF q = r THEN "ended" ELSE IF q \in Firsts(line) THEN "turn" ELSE stages[q]]
            \/ Shown(new.phase) = [q \in Run |-> IF q = r THEN "ended" ELSE IF q \in line THEN "dropped" ELSE stages[q]]
            <3>1. r \notin line /\ Firsts(line) \subseteq line
                  BY <1>4 DEF line, Lined, Firsts
            <3>2. CASE new = freed /\ line = {}
                  <4>1. Shown(new.phase) = mids
                        BY <2>3, <3>2 DEF mids
                  <4> QED BY <1>6, <3>2, <4>1
            <3>3. CASE Shown(new.phase) = [q \in Run |-> IF q \in line THEN "dropped" ELSE mids[q]]
                  BY <1>6, <3>1, <3>3
            <3>4. CASE Shown(new.phase) = [q \in Run |-> IF q \in Firsts(line) THEN "turn" ELSE mids[q]]
                  BY <1>6, <3>1, <3>4
            <3> QED BY <2>3, <2>5, <2>6, <3>2, <3>3, <3>4 DEF Passed, mids
      <2>8. SlotsHeld(new.active, Shown(new.phase), carried)
            <3>1. \A u \in Session : freed.active[u] \subseteq Run
                  BY <1>2, <2>3
            <3>2. SlotsHeld(freed.active, Shown(freed.phase), carried)
                  BY <2>3, <2>4 DEF mids
            <3> QED BY <1>1, <2>5, <3>1, <3>2, PassedHolds
      <2>9. Shown(phase)' = Shown(new.phase) /\ SlotsFaithful'
            BY <1>3, <2>8, TurnSet
      <2>10. Turn!End(r)
            BY <1>7, <2>2, <2>7, <2>9
      <2> QED BY <2>9, <2>10
<1> QED BY <1>8, <1>9

\* A reset of the lanes gives turns anew.
LEMMA ResetTurns ==
    ASSUME LanesInv, SlotsFaithful, ResetAllLanes
    PROVE  Turn!Restart /\ SlotsFaithful'
<1> DEFINE asking == {s \in Session : Lanes.queue[s] # <<>>}
           heads == {Head(Lanes.queue[s]) : s \in asking}
           stages == Shown(phase)
           line == {r \in Run : stages[r] = "lined"}
<1>1. /\ Sound(Lanes, carried) /\ width \in Nat /\ carried \subseteq Run
      /\ SlotsHeld(active, stages, carried) /\ Lanes.phase = phase
      BY TurnParts, LanesParts
<1>2. /\ \A r \in Run : stages[r] = StageOf(phase[r]) /\ phase[r] \in RunPhase
      /\ \A s \in Session :
            /\ Lanes.queue[s] = <<>> <=> Lined(stages, s) = {}
            /\ Lanes.queue[s] # <<>> => /\ Head(Lanes.queue[s]) \in Run
                                        /\ Firsts(Lined(stages, s)) = {Head(Lanes.queue[s])}
      BY <1>1, ShownFacts
<1>3. /\ \E order \in SetToSeqs(heads) : SetLanes(PumpMain(Reset(Lanes, asking, heads, order), width))
      /\ carried' = carried \cup UnderWay(phase)
      BY ResetIs, LanesParts
<1> HIDE DEF asking, heads, stages
<1>4. PICK order \in SetToSeqs(heads) : SetLanes(PumpMain(Reset(Lanes, asking, heads, order), width))
      BY <1>3
<1> DEFINE mid == Reset(Lanes, asking, heads, order)
           new == PumpMain(mid, width)
<1>5. /\ Sound(mid, carried \cup UnderWay(phase))
      /\ \A s \in asking : mid.active[s] = {Head(Lanes.queue[s])}
      /\ \A s \in Session \ asking : mid.active[s] = {}
      /\ \A r \in Run : mid.phase[r] = IF r \in heads THEN "waiting" ELSE phase[r]
      <2>1. asking = {s \in Session : Lanes.queue[s] # <<>>} /\ heads = {Head(Lanes.queue[s]) : s \in asking}
            BY DEF asking, heads
      <2> HIDE DEF mid
      <2>2. Sound(mid, carried \cup UnderWay(Lanes.phase)) /\ FirstSlots(Lanes, asking, mid)
            BY <1>1, <1>4, <2>1, ResetSound DEF mid
      <2>3. Phased(Lanes.phase, heads, "waiting", mid.phase)
            BY <1>1, <1>4, <2>1, ResetSound DEF mid
      <2> QED BY <1>1, <2>2, <2>3 DEF Phased, FirstSlots
<1> HIDE DEF mid
<1>6. /\ \A s \in Session : new.active[s] = mid.active[s]
      /\ \A r \in Run : mid.phase[r] # "waiting" => new.phase[r] = mid.phase[r]
      /\ \A r \in Run : mid.phase[r] = "waiting" => new.phase[r] \in {"waiting", "starting"}
      BY <1>1, <1>5, PumpMainSound
<1>7. SetLanes(new)
      BY <1>4 DEF mid
<1> HIDE DEF new
\* The heads of the lines.
<1>8. /\ heads = Firsts(line) /\ heads \subseteq line
      /\ \A s \in asking : SessionOf[Head(Lanes.queue[s])] = s
      <2>1. ASSUME NEW s \in Session
            PROVE  \A r : r \in Firsts(Lined(stages, s)) <=> r \in Firsts(line) /\ SessionOf[r] = s
            BY DEF Firsts, Lined
      <2>2. \A r \in Firsts(line) : r \in Run /\ SessionOf[r] \in Session /\ r \in line
            BY RunAssumption DEF Firsts
      <2>3. ASSUME NEW s \in asking
            PROVE  Head(Lanes.queue[s]) \in Firsts(line) /\ SessionOf[Head(Lanes.queue[s])] = s
            <3>1. s \in Session /\ Head(Lanes.queue[s]) \in Firsts(Lined(stages, s))
                  BY <1>2 DEF asking
            <3> QED BY <2>1, <3>1
      <2>4. ASSUME NEW r \in Firsts(line)
            PROVE  r \in heads
            <3> DEFINE s == SessionOf[r]
            <3>1. s \in Session /\ r \in Firsts(Lined(stages, s))
                  BY <2>1, <2>2
            <3>2. Lined(stages, s) # {}
                  BY <3>1 DEF Firsts
            <3> HIDE DEF s
            <3>3. s \in asking /\ r = Head(Lanes.queue[s])
                  BY <1>2, <3>1, <3>2 DEF asking
            <3> QED BY <3>3 DEF heads
      <2> QED BY <2>2, <2>3, <2>4 DEF heads
<1> HIDE DEF line
<1>9. \A r \in Run : StageOf(new.phase[r]) = IF r \in Firsts(line) THEN "turn" ELSE stages[r]
      BY <1>2, <1>5, <1>6, <1>8, TurnKept
<1>10. Shown(new.phase) = [r \in Run |-> IF r \in Firsts(line) THEN "turn" ELSE stages[r]]
      BY <1>9 DEF Shown
<1>11. UnderWay(phase) = {r \in Run : stages[r] = "turn"}
      BY <1>2, StageFacts DEF UnderWay
<1>12. SlotsHeld(new.active, Shown(new.phase), carried')
      <2>1. \A r \in line : r \in Run /\ stages[r] = "lined"
            BY DEF line
      <2>2. ASSUME NEW s \in Session, NEW r \in new.active[s]
            PROVE  SessionOf[r] = s /\ r \notin carried' /\ Shown(new.phase)[r] = "turn"
            <3>1. s \in asking /\ r = Head(Lanes.queue[s])
                  BY <1>5, <1>6, <2>2
            <3>2. r \in heads
                  BY <3>1 DEF heads
            <3> QED BY <1>1, <1>3, <1>8, <1>10, <1>11, <2>1, <3>1, <3>2 DEF SlotsHeld
      <2>3. ASSUME NEW r \in carried'
            PROVE  Shown(new.phase)[r] \in {"turn", "ended"}
            BY <1>1, <1>3, <1>8, <1>10, <1>11, <2>1, <2>3 DEF SlotsHeld
      <2> QED BY <2>2, <2>3 DEF SlotsHeld
<1>13. Shown(phase)' = Shown(new.phase) /\ SlotsFaithful'
      BY <1>7, <1>12, TurnSet
<1>14. Turn!Restart
      <2>1. Turn!Line(Session) = line
            BY RunAssumption DEF Turn!Line, line, stages, Shown
      <2>2. Turn!Heads(line) = Firsts(line)
            BY DEF Turn!Heads, Firsts
      <2> QED BY <1>3, <1>10, <1>11, <1>13, <2>1, <2>2 DEF Turn!Restart, Shown, stages
<1> QED BY <1>13, <1>14

\* Steps of the restart loop.
LEMMA RestartLoopTurns ==
    ASSUME LanesInv, SlotsFaithful,
           \/ RequestRestart \/ (\E w \in {"tasks", "runs"} : Drained(w))
           \/ DrainTimeout \/ Restart \/ StartServer
    PROVE  (Turn!Restart \/ UNCHANGED Turn!turns) /\ SlotsFaithful'
<1>1. CASE ResetAllLanes
      BY <1>1, ResetTurns
<1>2. CASE UNCHANGED <<queue, active, phase, carried>>
      <2>1. SetLanes(Lanes)
            BY <1>2 DEF SetLanes, Lanes
      <2> QED BY <1>2, <2>1, HiddenStep
<1> QED BY <1>1, <1>2 DEF RequestRestart, Drained, DrainTimeout, Restart, StartServer

\* The lanes, their slots and the restarts do what SessionTurns promises to the
\* sessions: each session's runs take turns, in their order, and whoever ends
\* passes the turn on (enqueueCommandInLane, drainLane, resetAllLanes).
THEOREM TurnsImplemented == LanesSpec => ImplementsTurns
<1>1. LanesInit => Turn!Init /\ SlotsFaithful
      <2> SUFFICES ASSUME LanesInit PROVE Turn!Init /\ SlotsFaithful
          OBVIOUS
      <2>1. StageOf("new") = "new"
            BY DEF StageOf, Executing
      <2>2. \A r \in Run : phase[r] = "new"
            BY DEF LanesInit
      <2>3. Turn!Init
            BY <2>1, <2>2 DEF LanesInit, Turn!Init
      <2>4. SlotsFaithful
            BY DEF LanesInit, SlotsFaithful, SlotsHeld, Lane
      <2> QED BY <2>3, <2>4
<1>2. LanesInv /\ SlotsFaithful /\ [LanesNext]_lanesVars => [Turn!Next]_Turn!turns /\ SlotsFaithful'
      <2> SUFFICES ASSUME LanesInv, SlotsFaithful, [LanesNext]_lanesVars
                   PROVE  [Turn!Next]_Turn!turns /\ SlotsFaithful'
          OBVIOUS
      <2>1. CASE UNCHANGED lanesVars
            <3>1. SetLanes(Lanes) /\ carried' = carried
                  BY <2>1 DEF lanesVars, SetLanes, Lanes
            <3> QED BY <3>1, HiddenStep
      <2>2. ASSUME NEW r \in Run, SubmitRun(r) \/ RegisterRun(r) \/ FinishRun(r)
            PROVE  [Turn!Next]_Turn!turns /\ SlotsFaithful'
            BY <2>2, SubmitTurns, RegisterTurns, FinishTurns DEF Turn!Next
      <2>3. ASSUME NEW s \in Session, ClearLane(s)
            PROVE  [Turn!Next]_Turn!turns /\ SlotsFaithful'
            BY <2>3, ClearTurns DEF Turn!Next
      <2>4. ASSUME NEW n \in Widths, SetWidth(n)
            PROVE  [Turn!Next]_Turn!turns /\ SlotsFaithful'
            BY <2>4, SetWidthTurns
      <2>5. CASE \/ RequestRestart \/ (\E w \in {"tasks", "runs"} : Drained(w))
                 \/ DrainTimeout \/ Restart \/ StartServer
            BY <2>5, RestartLoopTurns DEF Turn!Next
      <2> QED BY <2>1, <2>2, <2>3, <2>4, <2>5 DEF LanesNext
<1> QED BY <1>1, <1>2, LanesInductive, PTL DEF LanesSpec, ImplementsTurns, Turn!Spec

-----------------------------------------------------------------------------
(* The followup queue.                                                     *)

QueueRec == [items : BoundedSeq(Message, Cap), dropped : SUBSET Message,
             mode : {"collect", "followup"}, drop : {"summarize", "old", "new"},
             step : {"off", "debounce", "single", "collect", "summary"},
             batch : BoundedSeq(Message, Cap), told : SUBSET Message,
             forced : BOOLEAN, made : BOOLEAN]

Arrived(fates) == {m \in Message : fates[m] \notin Arriving}

\* The objects were made one after the other, each for a message of its own.
MadeInTurn(objects, fates) ==
    \E k \in 0 .. Cardinality(Message) :
        /\ k <= Cardinality(Arrived(fates))
        /\ \A o \in Queues : objects[o].made <=> o <= k

\* What an object holds, it holds once, and its messages say so.
Holding(q, fates) ==
    /\ ~q.made => Empty(q) /\ q.step = "off"
    /\ IsInjective(q.items)
    /\ \A m \in ToSet(q.items) : fates[m] = "queued"
    /\ \A m \in q.dropped : fates[m] = "noted"

\* What is dropped has somebody to report it.
Reportable(q, ms) ==
    /\ q.dropped # {} => q.drop = "summarize" \/ "switched" \in ms
    /\ q.dropped # {} => q.items # <<>> \/ q.mode = "collect" \/ ms \cap {"overrun", "switched"} # {}

Apart(objects) ==
    \A o, p \in Queues : o # p =>
        /\ ToSet(objects[o].items) \cap ToSet(objects[p].items) = {}
        /\ objects[o].dropped \cap objects[p].dropped = {}

\* Messages are in the object that is registered, unless that was replaced.
Reached(objects, reg, fates, ms) ==
    "replaced" \notin ms =>
        /\ \A m \in Message : fates[m] = "queued" => \E o \in Queues : m \in ToSet(objects[o].items)
        /\ \A o \in Queues : o # reg => Empty(objects[o])

Kept(objects, reg, fates, ms, cl) ==
    /\ objects \in [Queues -> QueueRec]
    /\ reg \in Queues \cup {NoQueue}
    /\ reg # NoQueue => objects[reg].made
    /\ fates \in [Message -> Fates]
    /\ MadeInTurn(objects, fates)
    /\ \A o \in Queues : Holding(objects[o], fates) /\ Reportable(objects[o], ms)
    /\ Apart(objects)
    /\ Reached(objects, reg, fates, ms)
    /\ \A m \in Message : fates[m] \in {"lost", "forgotten"} => "overrun" \in ms
    /\ cl = 0 => \A o \in Queues : objects[o].step # "off" => o = reg

Begins(batch, items) ==
    Len(batch) <= Len(items) /\ \A i \in DOMAIN batch : batch[i] = items[i]

\* A run under way was given what is in front of its queue and on record.
Given(q, unregistered, ms) ==
    q.step \in {"single", "collect", "summary"} /\ "overrun" \notin ms =>
        /\ Begins(q.batch, q.items) \/ (q.items = <<>> /\ unregistered)
        /\ q.told # {} => q.dropped \subseteq q.told
        /\ "switched" \notin ms /\ q.dropped # {} /\ q.told = {} /\ q.mode = "followup" =>
               Len(q.items) > Len(q.batch)

AllGiven(objects, reg, ms) == \A o \in Queues : Given(objects[o], o # reg, ms)

CountersTyped ==
    callback \in BOOLEAN /\ clears \in 0 .. MaxClears /\ marks \subseteq Marks /\ belated \subseteq Message

FollowupInv ==
    /\ CountersTyped
    /\ Kept(queues, registered, fate, marks, clears)
    /\ AllGiven(queues, registered, marks)

LEMMA ItemFacts ==
    ASSUME NEW q \in BoundedSeq(Message, Cap)
    PROVE  /\ q \in Seq(Message) /\ Len(q) \in Nat /\ Len(q) <= Cap /\ DOMAIN q = 1 .. Len(q)
           /\ \A i \in 1 .. Len(q) : q[i] \in Message /\ q[i] \in ToSet(q)
           /\ q = <<>> <=> Len(q) = 0
           /\ ToSet(q) \subseteq Message
           /\ \A m : m \in ToSet(q) <=> \E i \in 1 .. Len(q) : q[i] = m
<1>1. PICK n \in 0 .. Cap : q \in [1 .. n -> Message]
      BY DEF BoundedSeq, SeqOf
<1>2. n \in Nat /\ n <= Cap
      BY <1>1, FollowupAssumption
<1>3. q \in Seq(Message) /\ Len(q) = n /\ DOMAIN q = 1 .. n
      BY <1>1, <1>2
<1>4. \A m : m \in ToSet(q) <=> \E i \in 1 .. n : q[i] = m
      BY <1>3 DEF ToSet
<1>5. q = <<>> <=> Len(q) = 0
      BY <1>3, EmptySeq
<1> QED BY <1>1, <1>2, <1>3, <1>4, <1>5

LEMMA ItemsBounded ==
    ASSUME NEW q \in Seq(Message), Len(q) <= Cap
    PROVE  q \in BoundedSeq(Message, Cap)
<1>1. Len(q) \in 0 .. Cap /\ q \in [1 .. Len(q) -> Message]
      BY LenProperties, FollowupAssumption
<1> QED BY <1>1 DEF BoundedSeq, SeqOf

LEMMA NoItems ==
    /\ <<>> \in BoundedSeq(Message, Cap) /\ IsInjective(<<>>)
    /\ ToSet(<<>>) = {} /\ Len(<<>>) = 0 /\ DOMAIN <<>> = {}
<1>1. <<>> \in Seq(Message) /\ Len(<<>>) <= Cap
      BY FollowupAssumption
<1>2. DOMAIN <<>> = {}
      OBVIOUS
<1> QED BY <1>1, <1>2, ItemsBounded DEF IsInjective, ToSet

\* What is left of a queue when k items are taken from its front.
LEMMA CutFacts ==
    ASSUME NEW q \in BoundedSeq(Message, Cap), IsInjective(q), NEW k \in Nat
    PROVE  LET rest == SubSeq(q, k + 1, Len(q))
               cut  == {q[i] : i \in DOMAIN q \cap (1 .. k)}
           IN  /\ rest \in BoundedSeq(Message, Cap) /\ IsInjective(rest)
               /\ Len(rest) = IF k <= Len(q) THEN Len(q) - k ELSE 0
               /\ \A i \in 1 .. Len(rest) : rest[i] = q[i + k]
               /\ cut \subseteq ToSet(q)
               /\ \A m : m \in ToSet(rest) <=> m \in ToSet(q) /\ m \notin cut
<1> DEFINE n == Len(q)
           rest == SubSeq(q, k + 1, n)
           cut == {q[i] : i \in DOMAIN q \cap (1 .. k)}
<1>1. q \in Seq(Message) /\ n \in Nat /\ n <= Cap /\ DOMAIN q = 1 .. n /\ \A i \in 1 .. n : q[i] \in Message
      BY ItemFacts
<1>2. /\ rest \in Seq(Message) /\ Len(rest) = IF k + 1 <= n THEN n - (k + 1) + 1 ELSE 0
      /\ \A i \in 1 .. n - (k + 1) + 1 : rest[i] = q[(k + 1) + i - 1]
      <2>1. \A i \in k + 1 .. n : q[i] \in Message
            BY <1>1
      <2> QED BY <1>1, <2>1, SubSeqProperties
<1>3. \A i, j \in 1 .. n : q[i] = q[j] => i = j
      BY <1>1 DEF IsInjective
<1>4. cut \subseteq ToSet(q)
      BY <1>1 DEF ToSet
<1> HIDE DEF rest, n
<1>5. Len(rest) = (IF k <= n THEN n - k ELSE 0) /\ Len(rest) <= Cap
      BY <1>1, <1>2, FollowupAssumption
<1>6. DOMAIN rest = 1 .. Len(rest)
      BY <1>2, LenProperties
<1>7. ASSUME NEW i \in 1 .. Len(rest)
      PROVE  rest[i] = q[i + k] /\ i + k \in 1 .. n /\ i + k \notin 1 .. k
      <2>1. i \in 1 .. n - (k + 1) + 1 /\ (k + 1) + i - 1 = i + k /\ i + k \in 1 .. n /\ i + k \notin 1 .. k
            BY <1>1, <1>5
      <2>2. rest[i] = q[(k + 1) + i - 1]
            BY <1>2, <2>1
      <2> QED BY <2>1, <2>2
<1>8. IsInjective(rest)
      <2> SUFFICES ASSUME NEW i \in 1 .. Len(rest), NEW j \in 1 .. Len(rest), rest[i] = rest[j]
                   PROVE  i = j
          BY <1>6 DEF IsInjective
      <2>1. i + k = j + k
            BY <1>3, <1>7
      <2> QED BY <1>5, <2>1
<1>9. ASSUME NEW m
      PROVE  m \in ToSet(rest) <=> m \in ToSet(q) /\ m \notin cut
      <2>1. ASSUME m \in ToSet(rest)
            PROVE  m \in ToSet(q) /\ m \notin cut
            <3>1. PICK i \in 1 .. Len(rest) : rest[i] = m
                  BY <1>6, <2>1 DEF ToSet
            <3> QED BY <1>1, <1>3, <1>7, <3>1 DEF ToSet
      <2>2. ASSUME m \in ToSet(q), m \notin cut
            PROVE  m \in ToSet(rest)
            <3>1. PICK i \in 1 .. n : q[i] = m
                  BY <1>1, <2>2 DEF ToSet
            <3>2. i \notin 1 .. k
                  BY <1>1, <2>2, <3>1
            <3>3. i - k \in 1 .. Len(rest) /\ (i - k) + k = i
                  BY <1>1, <1>5, <3>2
            <3>4. rest[i - k] = m
                  BY <1>7, <3>1, <3>3
            <3> QED BY <1>6, <3>3, <3>4 DEF ToSet
      <2> QED BY <2>1, <2>2
<1> HIDE DEF cut
<1>10. rest \in BoundedSeq(Message, Cap)
      BY <1>2, <1>5, ItemsBounded
<1> QED BY <1>4, <1>5, <1>7, <1>8, <1>9, <1>10 DEF rest, cut, n

LEMMA AddFacts ==
    ASSUME NEW q \in BoundedSeq(Message, Cap), IsInjective(q), Len(q) < Cap,
           NEW m \in Message, m \notin ToSet(q)
    PROVE  LET new == Append(q, m) IN
           /\ new \in BoundedSeq(Message, Cap) /\ IsInjective(new)
           /\ new # <<>> /\ Len(new) = Len(q) + 1
           /\ \A i \in 1 .. Len(q) : new[i] = q[i]
           /\ \A n : n \in ToSet(new) <=> n \in ToSet(q) \/ n = m
<1> DEFINE new == Append(q, m)
           k == Len(q)
<1>1. q \in Seq(Message) /\ k \in Nat /\ DOMAIN q = 1 .. k /\ \A i \in 1 .. k : q[i] \in ToSet(q)
      BY ItemFacts
<1>2. /\ new \in Seq(Message) /\ new # <<>> /\ Len(new) = k + 1
      /\ \A i \in 1 .. k : new[i] = q[i]
      /\ new[k + 1] = m
      BY <1>1, AppendProperties
<1>3. new \in BoundedSeq(Message, Cap)
      <2>1. k + 1 <= Cap
            BY <1>1, FollowupAssumption
      <2> QED BY <1>2, <2>1, ItemsBounded
<1> HIDE DEF new, k
<1>4. DOMAIN new = 1 .. k + 1
      BY <1>2, <1>3, ItemFacts
<1>5. \A i : i \in 1 .. k + 1 <=> i \in 1 .. k \/ i = k + 1
      BY <1>1
<1>6. IsInjective(new)
      <2>1. \A i, j \in 1 .. k : q[i] = q[j] => i = j
            BY <1>1 DEF IsInjective
      <2>2. \A i \in 1 .. k : q[i] # m
            BY <1>1
      <2> QED BY <1>2, <1>4, <1>5, <2>1, <2>2 DEF IsInjective
<1>7. ASSUME NEW n
      PROVE  n \in ToSet(new) <=> n \in ToSet(q) \/ n = m
      <2>1. n \in ToSet(new) <=> \E i \in 1 .. k + 1 : new[i] = n
            BY <1>4 DEF ToSet
      <2>2. n \in ToSet(q) <=> \E i \in 1 .. k : q[i] = n
            BY <1>1 DEF ToSet
      <2> QED BY <1>2, <1>5, <2>1, <2>2
<1> QED BY <1>2, <1>3, <1>6, <1>7 DEF new, k

\* What a full queue drops for a new message is in front.
LEMMA ExcessFacts ==
    ASSUME NEW q \in BoundedSeq(Message, Cap), Len(q) >= Cap
    PROVE  LET excess == SubSeq(q, 1, Len(q) - Cap + 1) IN
           /\ Len(excess) = 1 /\ Len(q) = Cap
           /\ ToSet(excess) = {q[i] : i \in DOMAIN q \cap (1 .. 1)}
<1> DEFINE n == Len(q)
           excess == SubSeq(q, 1, 1)
<1>1. q \in Seq(Message) /\ n \in Nat /\ n = Cap /\ 1 <= n /\ DOMAIN q = 1 .. n /\ \A i \in 1 .. n : q[i] \in Message
      BY ItemFacts, FollowupAssumption
<1>2. excess \in Seq(Message) /\ Len(excess) = 1 /\ excess[1] = q[1]
      <2>1. \A i \in 1 .. 1 : q[i] \in Message
            BY <1>1
      <2>2. /\ excess \in Seq(Message) /\ Len(excess) = IF 1 <= 1 THEN 1 - 1 + 1 ELSE 0
            /\ \A i \in 1 .. 1 - 1 + 1 : excess[i] = q[1 + i - 1]
            BY <1>1, <2>1, SubSeqProperties
      <2> HIDE DEF excess
      <2>3. 1 \in 1 .. 1 - 1 + 1 /\ 1 + 1 - 1 = 1
            OBVIOUS
      <2>4. Len(excess) = 1
            BY <2>2
      <2>5. excess[1] = q[1 + 1 - 1]
            BY <2>2, <2>3
      <2> QED BY <2>2, <2>3, <2>4, <2>5
<1>3. n - Cap + 1 = 1
      BY <1>1
<1> HIDE DEF n, excess
<1>4. DOMAIN excess = {1}
      <2>1. DOMAIN excess = 1 .. 1
            BY <1>2, LenProperties
      <2> QED BY <2>1
<1>5. DOMAIN q \cap (1 .. 1) = {1}
      BY <1>1
<1>6. ToSet(excess) = {q[1]}
      BY <1>2, <1>4 DEF ToSet
<1>7. {q[i] : i \in DOMAIN q \cap (1 .. 1)} = {q[1]}
      BY <1>5
<1>8. SubSeq(q, 1, Len(q) - Cap + 1) = excess
      BY <1>3 DEF n, excess
<1> QED BY <1>1, <1>2, <1>6, <1>7, <1>8 DEF n

-----------------------------------------------------------------------------
(* Drains, seen from what they leave alone.                                *)

Alike(q, p) ==
    q.items = p.items /\ q.dropped = p.dropped /\ q.mode = p.mode /\ q.drop = p.drop /\ q.made = p.made

LEMMA AlikeKeeps ==
    ASSUME NEW objects, NEW reg, NEW fates, NEW ms, NEW cl, Kept(objects, reg, fates, ms, cl),
           NEW new \in [Queues -> QueueRec],
           \A p \in Queues : /\ Alike(new[p], objects[p])
                             /\ new[p].step # "off" => p = reg \/ objects[p].step # "off"
    PROVE  Kept(new, reg, fates, ms, cl)
<1>1. ASSUME NEW p \in Queues
      PROVE  Holding(new[p], fates) /\ Reportable(new[p], ms)
      <2>1. Holding(objects[p], fates) /\ Reportable(objects[p], ms)
            BY DEF Kept
      <2>2. new[p].step # "off" => new[p].made
            BY <2>1, NoQueueAssumption DEF Kept, Holding, Alike
      <2> QED BY <2>1, <2>2 DEF Holding, Reportable, Alike, Empty
<1>2. MadeInTurn(new, fates)
      <2>1. \A p \in Queues : new[p].made <=> objects[p].made
            BY DEF Alike
      <2> QED BY <2>1 DEF Kept, MadeInTurn
<1>3. Apart(new)
      BY DEF Kept, Apart, Alike
<1>4. Reached(new, reg, fates, ms)
      <2>1. \A p \in Queues : new[p].items = objects[p].items /\ (Empty(objects[p]) => Empty(new[p]))
            BY DEF Alike, Empty
      <2> QED BY <2>1 DEF Kept, Reached
<1>5. reg # NoQueue => new[reg].made
      BY DEF Kept, Alike
<1>6. cl = 0 => \A p \in Queues : new[p].step # "off" => p = reg
      BY DEF Kept
<1> QED BY <1>1, <1>2, <1>3, <1>4, <1>5, <1>6 DEF Kept

LEMMA UnregisterKeeps ==
    ASSUME NEW objects, NEW reg, NEW fates, NEW ms, NEW cl, Kept(objects, reg, fates, ms, cl),
           "replaced" \notin ms /\ reg # NoQueue => Empty(objects[reg]),
           cl = 0 /\ reg # NoQueue => objects[reg].step = "off"
    PROVE  Kept(objects, NoQueue, fates, ms, cl)
<1>1. Reached(objects, NoQueue, fates, ms)
      BY DEF Kept, Reached
<1>2. cl = 0 => \A p \in Queues : objects[p].step = "off"
      BY NoQueueAssumption DEF Kept
<1> QED BY <1>1, <1>2 DEF Kept

LEMMA MarksKeep ==
    ASSUME NEW objects, NEW reg, NEW fates, NEW cl, NEW ms, Kept(objects, reg, fates, ms, cl),
           NEW new, ms \subseteq new
    PROVE  /\ Kept(objects, reg, fates, new, cl)
           /\ \A q, u : Given(q, u, ms) => Given(q, u, new)
<1>1. \A p \in Queues : Reportable(objects[p], new)
      BY DEF Kept, Reportable
<1>2. Reached(objects, reg, fates, new)
      BY DEF Kept, Reached
<1>3. \A m \in Message : fates[m] \in {"lost", "forgotten"} => "overrun" \in new
      BY DEF Kept
<1>4. \A q, u : Given(q, u, ms) => Given(q, u, new)
      BY DEF Given
<1> QED BY <1>1, <1>2, <1>3, <1>4 DEF Kept

LEMMA IdleFields ==
    ASSUME NEW q \in QueueRec
    PROVE  Idle(q) \in QueueRec /\ Alike(Idle(q), q) /\ Idle(q).step = "off"
BY NoItems DEF Idle, QueueRec, Alike

\* A drain that is not running owes nothing.
LEMMA RestingGiven ==
    ASSUME NEW q, q.step \notin {"single", "collect", "summary"}, NEW u, NEW ms
    PROVE  Given(q, u, ms)
BY DEF Given

LEMMA ScheduledKeeps ==
    ASSUME NEW objects, NEW reg, NEW fates, NEW ms, NEW cl, Kept(objects, reg, fates, ms, cl),
           AllGiven(objects, reg, ms), Scheduled(objects, reg), callback \in BOOLEAN
    PROVE  /\ Kept(queues', registered', fates, ms, cl)
           /\ AllGiven(queues', registered', ms)
           /\ callback' \in BOOLEAN
<1> DEFINE left == reg = NoQueue \/ objects[reg].step # "off" \/ Empty(objects[reg])
           gone == reg # NoQueue /\ objects[reg].step = "off" /\ Empty(objects[reg])
<1>1. /\ queues' = IF left THEN objects ELSE [objects EXCEPT ![reg].step = "debounce"]
      /\ callback' \in BOOLEAN
      /\ registered' = IF gone THEN NoQueue ELSE reg
      BY DEF Scheduled, Schedule
<1>2. objects \in [Queues -> QueueRec] /\ reg \in Queues \cup {NoQueue}
      BY DEF Kept
<1>3. CASE gone
      <2>1. queues' = objects /\ registered' = NoQueue
            BY <1>1, <1>3
      <2>2. Kept(objects, NoQueue, fates, ms, cl)
            BY <1>3, UnregisterKeeps
      <2>3. AllGiven(objects, NoQueue, ms)
            <3>1. \A p \in Queues : p # reg => p # NoQueue
                  BY NoQueueAssumption
            <3>2. \A p \in Queues : p = reg => Given(objects[p], p # NoQueue, ms)
                  BY <1>3, RestingGiven
            <3> QED BY <3>1, <3>2, NoQueueAssumption DEF AllGiven, Given
      <2> QED BY <1>1, <2>1, <2>2, <2>3
<1>4. CASE ~gone /\ left
      <2>1. queues' = objects /\ registered' = reg
            BY <1>1, <1>4
      <2> QED BY <1>1, <2>1
<1>5. CASE ~left
      <2> DEFINE new == [objects EXCEPT ![reg].step = "debounce"]
      <2>1. queues' = new /\ registered' = reg
            BY <1>1, <1>5
      <2>2. reg \in Queues /\ objects[reg] \in QueueRec
            BY <1>2, <1>5
      <2>3. /\ new \in [Queues -> QueueRec]
            /\ Alike(new[reg], objects[reg]) /\ new[reg].step = "debounce"
            /\ \A p \in Queues \ {reg} : new[p] = objects[p]
            <3>1. [objects[reg] EXCEPT !.step = "debounce"] \in QueueRec
                  BY <2>2 DEF QueueRec
            <3>2. new = [objects EXCEPT ![reg] = [objects[reg] EXCEPT !.step = "debounce"]]
                  OBVIOUS
            <3> QED BY <1>2, <2>2, <3>1, <3>2 DEF Alike, QueueRec
      <2> HIDE DEF new
      <2>4. Kept(new, reg, fates, ms, cl)
            BY <2>2, <2>3, AlikeKeeps DEF Alike
      <2>5. AllGiven(new, reg, ms)
            BY <2>3, RestingGiven DEF AllGiven
      <2> QED BY <1>1, <2>1, <2>4, <2>5
<1> QED BY <1>3, <1>4, <1>5

LEMMA FinishDrainKeeps ==
    ASSUME NEW objects, NEW fates, Kept(objects, registered, fates, marks, clears),
           NEW o \in Queues, objects[o].step # "off",
           \A p \in Queues \ {o} : Given(objects[p], p # registered, marks),
           FinishDrain(objects, o), callback \in BOOLEAN, marks \subseteq Marks
    PROVE  /\ Kept(queues', registered', fates, marks', clears)
           /\ AllGiven(queues', registered', marks')
           /\ callback' \in BOOLEAN /\ marks' \subseteq Marks
<1> DEFINE idle == [objects EXCEPT ![o] = Idle(@)]
<1>1. /\ objects \in [Queues -> QueueRec] /\ registered \in Queues \cup {NoQueue}
      /\ clears = 0 => \A p \in Queues : objects[p].step # "off" => p = registered
      BY DEF Kept
<1>2. /\ idle \in [Queues -> QueueRec] /\ Alike(idle[o], objects[o]) /\ idle[o].step = "off"
      /\ \A p \in Queues \ {o} : idle[p] = objects[p]
      BY <1>1, IdleFields
<1>3. Empty(objects[o]) => Empty(idle[o])
      BY <1>2 DEF Empty, Alike
<1>4. FinishDrain(objects, o) <=>
         IF Empty(objects[o])
         THEN /\ queues' = idle /\ registered' = NoQueue
              /\ Mark("replaced", registered \notin {o, NoQueue}) /\ UNCHANGED callback
         ELSE Scheduled(idle, registered) /\ UNCHANGED marks
      BY DEF FinishDrain
<1> HIDE DEF idle
<1>5. Kept(idle, registered, fates, marks, clears)
      BY <1>2, AlikeKeeps DEF Alike
<1>6. AllGiven(idle, registered, marks)
      BY <1>2, RestingGiven DEF AllGiven
<1>7. CASE Empty(objects[o])
      <2>1. /\ queues' = idle /\ registered' = NoQueue /\ callback' = callback
            /\ marks' = marks \cup {x \in {"replaced"} : registered \notin {o, NoQueue}}
            BY <1>4, <1>7 DEF Mark
      <2>2. marks \subseteq marks' /\ marks' \subseteq Marks
            BY <2>1 DEF Marks
      <2>3. Kept(idle, registered, fates, marks', clears) /\ AllGiven(idle, registered, marks')
            BY <1>5, <1>6, <2>2, MarksKeep DEF AllGiven
      <2>4. Kept(idle, NoQueue, fates, marks', clears)
            <3>1. "replaced" \notin marks' /\ registered # NoQueue => registered = o
                  BY <2>1
            <3>2. clears = 0 => registered = o
                  BY <1>1
            <3> QED BY <1>2, <1>3, <1>7, <2>3, <3>1, <3>2, UnregisterKeeps
      <2>5. AllGiven(idle, NoQueue, marks')
            BY <2>3, NoQueueAssumption DEF AllGiven, Given
      <2> QED BY <2>1, <2>2, <2>4, <2>5
<1>8. CASE ~Empty(objects[o])
      <2>1. Scheduled(idle, registered) /\ marks' = marks
            BY <1>4, <1>8
      <2> QED BY <1>5, <1>6, <2>1, ScheduledKeeps
<1> QED BY <1>7, <1>8

LEMMA NextRoundKeeps ==
    ASSUME NEW objects, NEW fates, Kept(objects, registered, fates, marks, clears),
           NEW o \in Queues, objects[o].step # "off",
           \A p \in Queues \ {o} : Given(objects[p], p # registered, marks),
           NextRound(objects, o), callback \in BOOLEAN, marks \subseteq Marks
    PROVE  /\ Kept(queues', registered', fates, marks', clears)
           /\ AllGiven(queues', registered', marks')
           /\ callback' \in BOOLEAN /\ marks' \subseteq Marks
<1>1. CASE Empty(objects[o])
      <2>1. FinishDrain(objects, o)
            BY <1>1 DEF NextRound
      <2> QED BY <2>1, FinishDrainKeeps
<1>2. CASE ~Empty(objects[o])
      <2> DEFINE new == [objects EXCEPT ![o].step = "debounce", ![o].batch = <<>>, ![o].told = {}]
      <2>1. queues' = new /\ registered' = registered /\ callback' = callback /\ marks' = marks
            BY <1>2 DEF NextRound
      <2>2. objects \in [Queues -> QueueRec] /\ objects[o] \in QueueRec
            BY DEF Kept
      <2>3. /\ new \in [Queues -> QueueRec]
            /\ Alike(new[o], objects[o]) /\ new[o].step = "debounce"
            /\ \A p \in Queues \ {o} : new[p] = objects[p]
            <3> DEFINE q == [objects[o] EXCEPT !.step = "debounce", !.batch = <<>>, !.told = {}]
            <3>1. q \in QueueRec /\ Alike(q, objects[o]) /\ q.step = "debounce"
                  BY <2>2, NoItems DEF QueueRec, Alike
            <3>2. new = [objects EXCEPT ![o] = q]
                  BY <2>2
            <3> HIDE DEF q, new
            <3> QED BY <2>2, <3>1, <3>2
      <2> HIDE DEF new
      <2>4. Kept(new, registered, fates, marks, clears)
            BY <2>2, <2>3, AlikeKeeps DEF Alike
      <2>5. AllGiven(new, registered, marks)
            BY <2>3, RestingGiven DEF AllGiven
      <2> QED BY <2>1, <2>4, <2>5
<1> QED BY <1>1, <1>2

-----------------------------------------------------------------------------
(* What a message comes to.                                                *)

LEMMA FateFacts ==
    /\ Arriving \subseteq Fates
    /\ {"queued", "handled", "mute", "lost", "noted", "summarized",
        "forgotten", "dropped", "cleared"} \subseteq Fates
    /\ Arriving \cap {"queued", "handled", "mute", "lost", "noted", "summarized",
                      "forgotten", "dropped", "cleared"} = {}
BY DEF Fates, Arriving

\* A message that has not come to the queue yet.
LEMMA ArrivingKeeps ==
    ASSUME NEW objects, NEW reg, NEW fates, NEW ms, NEW cl, Kept(objects, reg, fates, ms, cl),
           NEW m \in Message, fates[m] \in Arriving, NEW to \in Arriving
    PROVE  Kept(objects, reg, [fates EXCEPT ![m] = to], ms, cl)
<1> DEFINE new == [fates EXCEPT ![m] = to]
<1>1. fates \in [Message -> Fates]
      BY DEF Kept
<1>2. /\ new \in [Message -> Fates] /\ new[m] = to
      /\ \A n \in Message : n # m => new[n] = fates[n]
      BY <1>1, FateFacts
<1> HIDE DEF new
<1>3. Arrived(new) = Arrived(fates)
      BY <1>2 DEF Arrived
<1>4. \A n : fates[n] \in {"queued", "noted"} => n # m
      BY FateFacts
<1>5. ASSUME NEW p \in Queues
      PROVE  Holding(objects[p], new)
      <2>1. Holding(objects[p], fates) /\ objects[p] \in QueueRec
            BY DEF Kept
      <2>2. ToSet(objects[p].items) \subseteq Message /\ objects[p].dropped \subseteq Message
            BY <2>1, ItemFacts DEF QueueRec
      <2> QED BY <1>2, <1>4, <2>1, <2>2 DEF Holding
<1>6. \A n \in Message : new[n] = "queued" => fates[n] = "queued"
      BY <1>2, FateFacts
<1>7. Reached(objects, reg, new, ms)
      BY <1>6 DEF Kept, Reached
<1>8. \A n \in Message : new[n] \in {"lost", "forgotten"} => fates[n] \in {"lost", "forgotten"}
      BY <1>2, FateFacts
<1>9. MadeInTurn(objects, new)
      BY <1>3 DEF Kept, MadeInTurn
<1> QED BY <1>2, <1>5, <1>7, <1>8, <1>9 DEF Kept, new

Ends == {"handled", "mute", "lost", "summarized", "forgotten", "dropped", "cleared"}

\* The messages that are gone leave p, which becomes q.
Leaves(p, q, gone, ms) ==
    /\ gone \subseteq ToSet(p.items) \cup p.dropped
    /\ q.mode = p.mode /\ q.drop = p.drop /\ q.made = p.made /\ q.step = p.step
    /\ IsInjective(q.items)
    /\ \A m : m \in ToSet(q.items) <=> m \in ToSet(p.items) /\ m \notin gone
    /\ q.dropped = p.dropped \ gone
    /\ q.dropped # {} => q.items # <<>> \/ q.mode = "collect" \/ ms \cap {"overrun", "switched"} # {}

\* The messages that are gone have come to something.
Ended(fates, new, gone, ms) ==
    /\ \A m \in Message : IF m \in gone THEN new[m] \in Ends ELSE new[m] = fates[m]
    /\ \A m \in gone : new[m] \in {"lost", "forgotten"} => "overrun" \in ms

LEMMA LeaveKeeps ==
    ASSUME NEW objects, NEW reg, NEW fates, NEW ms, NEW cl, Kept(objects, reg, fates, ms, cl),
           NEW o \in Queues, NEW q \in QueueRec, NEW gone, Leaves(objects[o], q, gone, ms),
           NEW new \in [Message -> Fates], Ended(fates, new, gone, ms)
    PROVE  Kept([objects EXCEPT ![o] = q], reg, new, ms, cl)
<1> DEFINE after == [objects EXCEPT ![o] = q]
<1> USE DEF Leaves, Ended
<1>1. objects \in [Queues -> QueueRec] /\ fates \in [Message -> Fates]
      BY DEF Kept
<1>2. /\ after \in [Queues -> QueueRec] /\ after[o] = q
      /\ \A p \in Queues \ {o} : after[p] = objects[p]
      BY <1>1
<1> HIDE DEF after
<1>3. ASSUME NEW p \in Queues
      PROVE  /\ Holding(objects[p], fates) /\ Reportable(objects[p], ms) /\ objects[p] \in QueueRec
             /\ ToSet(objects[p].items) \subseteq Message /\ objects[p].dropped \subseteq Message
      <2>1. objects[p] \in QueueRec
            BY <1>1
      <2> QED BY <2>1, ItemFacts DEF Kept, QueueRec
<1>4. \A m \in gone : m \in Message /\ fates[m] \in {"queued", "noted"}
      BY <1>3 DEF Holding
<1>5. Arrived(new) = Arrived(fates)
      BY <1>4, FateFacts DEF Arrived, Ends
<1>6. ASSUME NEW p \in Queues \ {o}
      PROVE  \A m \in ToSet(objects[p].items) \cup objects[p].dropped : m \notin gone
      <2>1. /\ ToSet(objects[o].items) \cap ToSet(objects[p].items) = {}
            /\ objects[o].dropped \cap objects[p].dropped = {}
            BY DEF Kept, Apart
      <2> QED BY <1>3, <2>1 DEF Holding
<1>7. ASSUME NEW p \in Queues
      PROVE  Holding(after[p], new) /\ Reportable(after[p], ms)
      <2>1. CASE p = o
            <3>1. Empty(objects[o]) => Empty(q)
                  <4>1. q.items \in BoundedSeq(Message, Cap)
                        BY DEF QueueRec
                  <4>2. q.items # <<>> => \E m : m \in ToSet(q.items)
                        <5>1. q.items # <<>> => 1 \in 1 .. Len(q.items)
                              BY <4>1, ItemFacts
                        <5> QED BY <4>1, <5>1, ItemFacts
                  <4> QED BY <4>2, NoItems DEF Empty
            <3>2. ToSet(q.items) \subseteq Message /\ q.dropped \subseteq Message
                  BY <1>3
            <3>3. Holding(q, new)
                  BY <1>3, <3>1, <3>2 DEF Holding
            <3>4. Reportable(q, ms)
                  BY <1>3 DEF Reportable
            <3> QED BY <1>2, <2>1, <3>3, <3>4
      <2>2. CASE p # o
            BY <1>2, <1>3, <1>6, <2>2 DEF Holding
      <2> QED BY <2>1, <2>2
<1>8. MadeInTurn(after, new)
      <2>1. \A p \in Queues : after[p].made <=> objects[p].made
            BY <1>2
      <2> QED BY <1>5, <2>1 DEF Kept, MadeInTurn
<1>9. Apart(after)
      <2>1. ToSet(q.items) \subseteq ToSet(objects[o].items) /\ q.dropped \subseteq objects[o].dropped
            OBVIOUS
      <2>2. \A p \in Queues : /\ ToSet(after[p].items) \subseteq ToSet(objects[p].items)
                              /\ after[p].dropped \subseteq objects[p].dropped
            BY <1>2, <2>1
      <2>3. Apart(objects)
            BY DEF Kept
      <2> SUFFICES ASSUME NEW p \in Queues, NEW r \in Queues, p # r
                   PROVE  /\ ToSet(after[p].items) \cap ToSet(after[r].items) = {}
                          /\ after[p].dropped \cap after[r].dropped = {}
          BY DEF Apart
      <2>4. /\ ToSet(objects[p].items) \cap ToSet(objects[r].items) = {}
            /\ objects[p].dropped \cap objects[r].dropped = {}
            BY <2>3 DEF Apart
      <2> QED BY <2>2, <2>4
<1>10. Reached(after, reg, new, ms)
      <2> SUFFICES ASSUME "replaced" \notin ms
                   PROVE  /\ \A m \in Message : new[m] = "queued" => \E p \in Queues : m \in ToSet(after[p].items)
                          /\ \A p \in Queues : p # reg => Empty(after[p])
          BY DEF Reached
      <2>1. ASSUME NEW m \in Message, new[m] = "queued"
            PROVE  \E p \in Queues : m \in ToSet(after[p].items)
            <3>1. m \notin gone /\ fates[m] = "queued"
                  BY <2>1 DEF Ends
            <3>2. PICK p \in Queues : m \in ToSet(objects[p].items)
                  BY <3>1 DEF Kept, Reached
            <3> QED BY <1>2, <3>1, <3>2
      <2>2. ASSUME NEW p \in Queues, p # reg
            PROVE  Empty(after[p])
            <3>1. Empty(objects[p])
                  BY <2>2 DEF Kept, Reached
            <3>2. CASE p = o
                  <4>1. \A m : m \notin ToSet(q.items)
                        BY <3>1, <3>2, NoItems DEF Empty
                  <4>2. q.items \in BoundedSeq(Message, Cap)
                        BY DEF QueueRec
                  <4>3. q.items = <<>>
                        <5>1. q.items # <<>> => 1 \in 1 .. Len(q.items)
                              BY <4>2, ItemFacts
                        <5> QED BY <4>1, <4>2, <5>1, ItemFacts
                  <4> QED BY <1>2, <3>1, <3>2, <4>3 DEF Empty
            <3> QED BY <1>2, <3>1, <3>2
      <2> QED BY <2>1, <2>2
<1>11. reg # NoQueue => after[reg].made
      BY <1>2 DEF Kept
<1>12. cl = 0 => \A p \in Queues : after[p].step # "off" => p = reg
      BY <1>2 DEF Kept
<1>13. \A m \in Message : new[m] \in {"lost", "forgotten"} => "overrun" \in ms
      BY DEF Kept
<1>14. reg \in Queues \cup {NoQueue}
      BY DEF Kept
<1> QED BY <1>2, <1>7, <1>8, <1>9, <1>10, <1>11, <1>12, <1>13, <1>14 DEF Kept, after

\* The queue a message finds, or makes: there is an object left for it.
LEMMA FoundFacts ==
    ASSUME NEW ms, NEW cl, Kept(queues, registered, fate, ms, cl),
           NEW m \in Message, fate[m] = "busy"
    PROVE  /\ QueueFound \in Queues
           /\ registered # NoQueue => QueueFound = registered
           /\ registered = NoQueue => ~queues[QueueFound].made
           /\ \A objects, new :
                 /\ \A p \in Queues \ {QueueFound} : objects[p].made = queues[p].made
                 /\ objects[QueueFound].made
                 /\ Arrived(new) = Arrived(fate) \cup {m}
                 => MadeInTurn(objects, new)
<1> DEFINE seen == Arrived(fate)
<1>1. PICK k \in 0 .. Cardinality(Message) :
         k <= Cardinality(seen) /\ \A o \in Queues : queues[o].made <=> o <= k
      BY DEF Kept, MadeInTurn
<1>2. /\ IsFiniteSet(seen \cup {m}) /\ Cardinality(seen \cup {m}) = Cardinality(seen) + 1
      /\ Cardinality(seen) \in Nat /\ Cardinality(Message) \in Nat
      /\ Cardinality(seen) + 1 <= Cardinality(Message)
      <2>1. seen \in SUBSET Message /\ m \notin seen /\ seen \cup {m} \in SUBSET Message
            BY DEF Arrived, Arriving
      <2> HIDE DEF seen
      <2>2. IsFiniteSet(seen) /\ IsFiniteSet(Message)
            BY <2>1, FollowupAssumption, FS_Subset
      <2>3. IsFiniteSet(seen \cup {m}) /\ Cardinality(seen \cup {m}) = Cardinality(seen) + 1
            BY <2>1, <2>2, FS_AddElement
      <2>4. Cardinality(seen \cup {m}) <= Cardinality(Message)
            BY <2>1, <2>2, FS_Subset
      <2> QED BY <2>2, <2>3, <2>4, FS_CardinalityType
<1> DEFINE c == Cardinality(seen)
           all == Cardinality(Message)
<1>3. c \in Nat /\ all \in Nat /\ c + 1 <= all /\ k \in Nat /\ k <= c /\ Queues = 1 .. all
      BY <1>1, <1>2 DEF Queues
<1>4. \A o \in Queues : queues[o].made <=> o <= k
      BY <1>1
<1>5. Cardinality(seen \cup {m}) = c + 1
      BY <1>2
<1> HIDE DEF c, all, seen
<1>6. CASE registered # NoQueue
      <2>1. QueueFound = registered /\ registered \in Queues /\ queues[registered].made
            BY <1>6 DEF QueueFound, Kept
      <2>2. ASSUME NEW objects, NEW new,
                   \A p \in Queues \ {registered} : objects[p].made = queues[p].made,
                   objects[registered].made,
                   Arrived(new) = seen \cup {m}
            PROVE  MadeInTurn(objects, new)
            <3>1. \A p \in Queues : objects[p].made <=> p <= k
                  BY <1>4, <2>1, <2>2
            <3>2. k \in 0 .. Cardinality(Message) /\ k <= Cardinality(Arrived(new))
                  BY <1>3, <1>5, <2>2 DEF all
            <3> QED BY <3>1, <3>2 DEF MadeInTurn
      <2> QED BY <1>6, <2>1, <2>2 DEF seen
<1>7. CASE registered = NoQueue
      <2>1. k + 1 \in Queues /\ ~queues[k + 1].made /\ \A p \in Queues : p < k + 1 => queues[p].made
            BY <1>3, <1>4
      <2>2. \A o \in Queues : ~queues[o].made /\ (\A p \in Queues : p < o => queues[p].made) => o = k + 1
            BY <1>3, <1>4, <2>1
      <2>3. QueueFound = k + 1
            BY <1>7, <2>1, <2>2 DEF QueueFound
      <2>4. ASSUME NEW objects, NEW new,
                   \A p \in Queues \ {k + 1} : objects[p].made = queues[p].made,
                   objects[k + 1].made,
                   Arrived(new) = seen \cup {m}
            PROVE  MadeInTurn(objects, new)
            <3>1. \A p \in Queues : objects[p].made <=> p <= k + 1
                  BY <1>3, <1>4, <2>1, <2>4
            <3>2. k + 1 \in 0 .. Cardinality(Message) /\ k + 1 <= Cardinality(Arrived(new))
                  BY <1>3, <1>5, <2>4 DEF all
            <3> QED BY <3>1, <3>2 DEF MadeInTurn
      <2> QED BY <1>7, <2>1, <2>3, <2>4 DEF seen
<1> QED BY <1>6, <1>7

\* m comes to p, which becomes q, unless it is refused.  Those that are gone make room.
Comes(p, q, m, gone, added, noted) ==
    /\ q.made /\ q.step = p.step
    /\ gone \subseteq ToSet(p.items) /\ added \in {{}, {m}} /\ noted \in {{}, gone}
    /\ IsInjective(q.items)
    /\ \A n : n \in ToSet(q.items) <=> (n \in ToSet(p.items) /\ n \notin gone) \/ n \in added
    /\ q.dropped = p.dropped \cup noted

Answered(fates, new, m, gone, added, noted) ==
    /\ \A n \in Message : n # m => IF n \in gone THEN new[n] = (IF noted = {} THEN "dropped" ELSE "noted")
                                  ELSE new[n] = fates[n]
    /\ new[m] = IF added = {} THEN "dropped" ELSE "queued"

LEMMA ComeKeeps ==
    ASSUME NEW ms, NEW cl, Kept(queues, registered, fate, ms, cl),
           NEW m \in Message, fate[m] = "busy",
           NEW q \in QueueRec, NEW gone, NEW added, NEW noted,
           Comes(queues[QueueFound], q, m, gone, added, noted),
           NEW more, ms \subseteq more, Reportable(q, more),
           NEW new \in [Message -> Fates], Answered(fate, new, m, gone, added, noted)
    PROVE  Kept([queues EXCEPT ![QueueFound] = q], QueueFound, new, more, cl)
<1> USE DEF Comes, Answered
<1> DEFINE o == QueueFound
           after == [queues EXCEPT ![QueueFound] = q]
<1>1. /\ o \in Queues /\ (registered # NoQueue => o = registered)
      /\ registered = NoQueue => ~queues[o].made
      BY FoundFacts
<1>2. queues \in [Queues -> QueueRec] /\ fate \in [Message -> Fates]
      BY DEF Kept
<1>3. /\ after \in [Queues -> QueueRec] /\ after[o] = q
      /\ \A p \in Queues \ {o} : after[p] = queues[p]
      BY <1>1, <1>2
<1>4. /\ \A p \in Queues \ {QueueFound} : after[p].made = queues[p].made
      /\ after[QueueFound].made
      BY <1>3
<1> HIDE DEF after
<1>5. ASSUME NEW p \in Queues
      PROVE  /\ Holding(queues[p], fate) /\ Reportable(queues[p], ms)
             /\ ToSet(queues[p].items) \subseteq Message /\ queues[p].dropped \subseteq Message
             /\ m \notin ToSet(queues[p].items) /\ m \notin queues[p].dropped
      <2>1. queues[p] \in QueueRec /\ Holding(queues[p], fate) /\ Reportable(queues[p], ms)
            BY <1>2 DEF Kept
      <2> QED BY <2>1, ItemFacts DEF QueueRec, Holding
<1>6. \A n \in gone : n \in Message /\ fate[n] = "queued" /\ n # m
      BY <1>1, <1>5 DEF Holding
<1>7. Arrived(new) = Arrived(fate) \cup {m}
      <2>1. \A n \in Message : n # m => (n \in Arrived(new) <=> n \in Arrived(fate))
            BY <1>6, FateFacts DEF Arrived
      <2>2. m \in Arrived(new)
            BY FateFacts DEF Arrived
      <2> QED BY <2>1, <2>2 DEF Arrived
<1>8. MadeInTurn(after, new)
      BY <1>4, <1>7, FoundFacts
<1> HIDE DEF o
<1>9. ASSUME NEW p \in Queues \ {o}
      PROVE  /\ \A n \in ToSet(queues[p].items) \cup queues[p].dropped : n \notin gone
             /\ ToSet(queues[o].items) \cap ToSet(queues[p].items) = {}
             /\ queues[o].dropped \cap queues[p].dropped = {}
      <2>1. /\ ToSet(queues[o].items) \cap ToSet(queues[p].items) = {}
            /\ queues[o].dropped \cap queues[p].dropped = {}
            BY <1>1 DEF Kept, Apart
      <2> QED BY <1>1, <1>5, <1>6, <2>1 DEF Holding, o
<1>10. ASSUME NEW p \in Queues
       PROVE  Holding(after[p], new) /\ Reportable(after[p], more)
      <2>1. CASE p = o
            <3>1. \A n \in ToSet(q.items) : new[n] = "queued"
                  BY <1>1, <1>5 DEF Holding, o
            <3>2. \A n \in q.dropped : new[n] = "noted"
                  <4>1. ASSUME NEW n \in queues[o].dropped
                        PROVE  new[n] = "noted"
                        <5>1. n \in Message /\ n # m /\ fate[n] = "noted"
                              BY <1>1, <1>5 DEF Holding
                        <5>2. n \notin gone
                              BY <1>6, <5>1
                        <5> QED BY <5>1, <5>2
                  <4>2. \A n \in noted : new[n] = "noted"
                        BY <1>6
                  <4> QED BY <4>1, <4>2 DEF o
            <3> QED BY <1>3, <2>1, <3>1, <3>2 DEF Holding
      <2>2. CASE p # o
            <3>1. Holding(queues[p], fate) /\ Reportable(queues[p], ms) /\ after[p] = queues[p]
                  BY <1>3, <1>5, <2>2
            <3>2. \A n \in ToSet(queues[p].items) \cup queues[p].dropped : new[n] = fate[n]
                  BY <1>5, <1>9, <2>2
            <3> QED BY <3>1, <3>2 DEF Holding, Reportable
      <2> QED BY <2>1, <2>2
<1>11. Apart(after)
      <2>1. ASSUME NEW p \in Queues \ {o}
            PROVE  /\ ToSet(after[o].items) \cap ToSet(after[p].items) = {}
                   /\ after[o].dropped \cap after[p].dropped = {}
            <3>1. \A n \in ToSet(after[p].items) : n # m /\ n \notin ToSet(queues[o].items)
                  BY <1>3, <1>5, <1>9
            <3>2. \A n \in after[p].dropped : n \notin gone /\ n \notin queues[o].dropped
                  BY <1>3, <1>9
            <3> QED BY <1>3, <3>1, <3>2 DEF o
      <2>2. \A p, r \in Queues \ {o} : p # r =>
               /\ ToSet(after[p].items) \cap ToSet(after[r].items) = {}
               /\ after[p].dropped \cap after[r].dropped = {}
            BY <1>3 DEF Kept, Apart
      <2> QED BY <2>1, <2>2 DEF Apart
<1>12. Reached(after, o, new, more)
      <2> SUFFICES ASSUME "replaced" \notin more
                   PROVE  /\ \A n \in Message : new[n] = "queued" => \E p \in Queues : n \in ToSet(after[p].items)
                          /\ \A p \in Queues : p # o => Empty(after[p])
          BY DEF Reached
      <2>1. ASSUME NEW n \in Message, new[n] = "queued"
            PROVE  \E p \in Queues : n \in ToSet(after[p].items)
            <3>1. CASE n = m
                  BY <1>1, <1>3, <2>1, <3>1
            <3>2. CASE n # m
                  <4>1. n \notin gone /\ fate[n] = "queued"
                        BY <2>1, <3>2
                  <4>2. PICK p \in Queues : n \in ToSet(queues[p].items)
                        BY <4>1 DEF Kept, Reached
                  <4> QED BY <1>3, <4>1, <4>2 DEF o
            <3> QED BY <3>1, <3>2
      <2>2. ASSUME NEW p \in Queues, p # o
            PROVE  Empty(after[p])
            BY <1>1, <1>3, <2>2, NoQueueAssumption DEF Kept, Reached
      <2> QED BY <2>1, <2>2
<1>13. \A n \in Message : new[n] \in {"lost", "forgotten"} => "overrun" \in more
      BY DEF Kept
<1>14. cl = 0 => \A p \in Queues : after[p].step # "off" => p = o
      BY <1>1, <1>3, NoQueueAssumption DEF Kept, o
<1> QED BY <1>1, <1>3, <1>8, <1>10, <1>11, <1>12, <1>13, <1>14 DEF Kept, after, o

-----------------------------------------------------------------------------
(* The steps of a drain.                                                   *)

\* What a step has to show, part by part.
LEMMA FollowupStep ==
    ASSUME Kept(queues', registered', fate', marks', clears'), AllGiven(queues', registered', marks'),
           callback' \in BOOLEAN, clears' \in 0 .. MaxClears, marks' \subseteq Marks,
           belated' \subseteq Message
    PROVE  FollowupInv'
<1>1. Kept(queues, registered, fate, marks, clears)'
      BY DEF Kept, Holding, Reportable, MadeInTurn, Arrived, Apart, Reached, Empty
<1>2. AllGiven(queues, registered, marks)'
      BY DEF AllGiven, Given, Begins
<1> QED BY <1>1, <1>2 DEF FollowupInv, CountersTyped

LEMMA RunStarts ==
    ASSUME FollowupInv, NEW o \in Queues, queues[o].step = "debounce",
           NEW step \in {"single", "collect", "summary"}, NEW b \in BOOLEAN,
           NEW batch \in BoundedSeq(Message, Cap), Begins(batch, queues[o].items),
           NEW told \in {{}, queues[o].dropped},
           told = {} /\ queues[o].dropped # {} => queues[o].mode # "followup" \/ "switched" \in marks,
           queues' = [queues EXCEPT ![o] = [queues[o] EXCEPT !.step = step, !.batch = batch,
                                                             !.told = told, !.forced = b]],
           UNCHANGED <<registered, callback, marks, fate, clears, belated>>
    PROVE  FollowupInv'
<1> DEFINE q == [queues[o] EXCEPT !.step = step, !.batch = batch, !.told = told, !.forced = b]
           new == [queues EXCEPT ![o] = q]
<1>1. /\ Kept(queues, registered, fate, marks, clears) /\ AllGiven(queues, registered, marks)
      /\ CountersTyped /\ queues \in [Queues -> QueueRec] /\ queues[o] \in QueueRec
      BY DEF FollowupInv, Kept
<1>2. told \subseteq Message
      BY <1>1 DEF QueueRec
<1>3. /\ q \in QueueRec /\ Alike(q, queues[o])
      /\ q.step = step /\ q.batch = batch /\ q.told = told
      BY <1>1, <1>2 DEF QueueRec, Alike
<1>4. queues' = new
      OBVIOUS
<1> HIDE DEF q
<1>5. /\ new \in [Queues -> QueueRec] /\ new[o] = q
      /\ \A p \in Queues \ {o} : new[p] = queues[p]
      BY <1>1, <1>3
<1> HIDE DEF new
<1>6. Kept(new, registered, fate, marks, clears)
      BY <1>1, <1>3, <1>5, AlikeKeeps DEF Alike
<1>7. Given(q, o # registered, marks)
      BY <1>3 DEF Given, Alike
<1>8. AllGiven(new, registered, marks)
      BY <1>1, <1>5, <1>7 DEF AllGiven
<1> QED BY <1>1, <1>4, <1>6, <1>8, FollowupStep DEF CountersTyped

LEMMA StartFollowupKeeps ==
    ASSUME FollowupInv, NEW o \in Queues, StartFollowup(o)
    PROVE  FollowupInv'
<1> DEFINE q       == queues[o]
           collect == q.mode = "collect"
           apart   == collect /\ (q.forced \/ CrossChannel(q.items))
           summary == IF q.drop = "summarize" THEN q.dropped ELSE {}
           run(step, batch, told) ==
            /\ queues' = [queues EXCEPT ![o] = [q EXCEPT !.step = step, !.batch = batch, !.told = told,
                                                         !.forced = q.forced \/ apart]]
            /\ UNCHANGED <<registered, callback, marks>>
<1>1. /\ Kept(queues, registered, fate, marks, clears) /\ AllGiven(queues, registered, marks)
      /\ CountersTyped /\ q \in QueueRec /\ Reportable(q, marks)
      BY DEF FollowupInv, Kept
<1>2. /\ q.step = "debounce" /\ UNCHANGED <<fate, clears, belated>>
      /\ \/ collect /\ ~apart /\ ~Empty(q) /\ run("collect", q.items, summary)
         \/ ~collect /\ summary # {} /\ q.items # <<>> /\ run("summary", <<Head(q.items)>>, summary)
         \/ (apart \/ (~collect /\ summary = {})) /\ q.items # <<>> /\ run("single", <<Head(q.items)>>, {})
         \/ FinishDrain(queues, o)
      BY DEF StartFollowup
<1>3. /\ q.items \in BoundedSeq(Message, Cap) /\ Begins(q.items, q.items)
      /\ q.dropped \subseteq Message /\ q.forced \in BOOLEAN /\ q.mode \in {"collect", "followup"}
      BY <1>1, ItemFacts DEF QueueRec, Begins
<1>4. summary \in {{}, q.dropped} /\ (summary = {} /\ q.dropped # {} => "switched" \in marks)
      BY <1>1 DEF Reportable
<1>5. q.items # <<>> => <<Head(q.items)>> \in BoundedSeq(Message, Cap) /\ Begins(<<Head(q.items)>>, q.items)
      <2> SUFFICES ASSUME q.items # <<>>
                   PROVE  <<Head(q.items)>> \in BoundedSeq(Message, Cap) /\ Begins(<<Head(q.items)>>, q.items)
          OBVIOUS
      <2> DEFINE s == q.items
                 h == <<Head(s)>>
      <2>1. s \in Seq(Message) /\ Len(s) \in Nat /\ Len(s) # 0 /\ Head(s) = s[1] /\ s[1] \in Message
            BY <1>3, ItemFacts
      <2>2. h \in Seq(Message) /\ Len(h) = 1 /\ h[1] = Head(s) /\ DOMAIN h = 1 .. 1
            BY <2>1
      <2> HIDE DEF s, h
      <2>3. 1 <= Cap /\ 1 <= Len(s)
            BY <2>1, FollowupAssumption
      <2>4. Begins(h, s)
            BY <2>1, <2>2, <2>3 DEF Begins
      <2> QED BY <2>2, <2>3, <2>4, ItemsBounded DEF h, s
<1> DEFINE forced == q.forced \/ apart
<1>6. forced \in BOOLEAN
      BY <1>3
<1> HIDE DEF forced
<1>7. CASE collect /\ ~apart /\ ~Empty(q) /\ run("collect", q.items, summary)
      <2>1. /\ queues' = [queues EXCEPT ![o] = [q EXCEPT !.step = "collect", !.batch = q.items,
                                                         !.told = summary, !.forced = forced]]
            /\ UNCHANGED <<registered, callback, marks>>
            BY <1>7 DEF forced
      <2> HIDE DEF summary
      <2> QED BY <1>2, <1>3, <1>4, <1>6, <2>1, RunStarts
<1>8. CASE ~collect /\ summary # {} /\ q.items # <<>> /\ run("summary", <<Head(q.items)>>, summary)
      <2>1. /\ queues' = [queues EXCEPT ![o] = [q EXCEPT !.step = "summary", !.batch = <<Head(q.items)>>,
                                                         !.told = summary, !.forced = forced]]
            /\ UNCHANGED <<registered, callback, marks>>
            BY <1>8 DEF forced
      <2> DEFINE h == <<Head(q.items)>>
      <2>2. h \in BoundedSeq(Message, Cap) /\ Begins(h, q.items)
            BY <1>5, <1>8
      <2>3. summary = {} /\ q.dropped # {} => q.mode # "followup" \/ "switched" \in marks
            BY <1>8
      <2>4. /\ queues' = [queues EXCEPT ![o] = [q EXCEPT !.step = "summary", !.batch = h,
                                                         !.told = summary, !.forced = forced]]
            /\ UNCHANGED <<registered, callback, marks>>
            BY <2>1
      <2>5. summary \in {{}, q.dropped} /\ q.step = "debounce" /\ UNCHANGED <<fate, clears, belated>>
            BY <1>2, <1>4
      <2> HIDE DEF summary, h
      <2> QED BY <1>6, <2>2, <2>3, <2>4, <2>5, RunStarts
<1>9. CASE (apart \/ (~collect /\ summary = {})) /\ q.items # <<>> /\ run("single", <<Head(q.items)>>, {})
      <2>1. /\ queues' = [queues EXCEPT ![o] = [q EXCEPT !.step = "single", !.batch = <<Head(q.items)>>,
                                                         !.told = {}, !.forced = forced]]
            /\ UNCHANGED <<registered, callback, marks>>
            BY <1>9 DEF forced
      <2>2. q.dropped # {} => q.mode # "followup" \/ "switched" \in marks
            BY <1>4, <1>9
      <2> HIDE DEF summary
      <2> QED BY <1>2, <1>5, <1>6, <1>9, <2>1, <2>2, RunStarts
<1>10. CASE FinishDrain(queues, o)
      <2>1. \A p \in Queues \ {o} : Given(queues[p], p # registered, marks)
            BY <1>1 DEF AllGiven
      <2>2. /\ Kept(queues', registered', fate, marks', clears)
            /\ AllGiven(queues', registered', marks')
            /\ callback' \in BOOLEAN /\ marks' \subseteq Marks
            BY <1>1, <1>2, <1>10, <2>1, FinishDrainKeeps DEF CountersTyped
      <2> QED BY <1>1, <1>2, <2>2, FollowupStep DEF CountersTyped
<1> QED BY <1>2, <1>7, <1>8, <1>9, <1>10

LEMMA FailFollowupKeeps ==
    ASSUME FollowupInv, NEW o \in Queues, FailFollowup(o)
    PROVE  FollowupInv'
<1>1. /\ Kept(queues, registered, fate, marks, clears) /\ AllGiven(queues, registered, marks)
      /\ CountersTyped /\ queues[o].step # "off"
      BY DEF FollowupInv, FailFollowup, Running
<1>2. FinishDrain(queues, o) /\ UNCHANGED <<fate, clears, belated>>
      BY DEF FailFollowup
<1>3. \A p \in Queues \ {o} : Given(queues[p], p # registered, marks)
      BY <1>1 DEF AllGiven
<1>4. /\ Kept(queues', registered', fate, marks', clears)
      /\ AllGiven(queues', registered', marks')
      /\ callback' \in BOOLEAN /\ marks' \subseteq Marks
      BY <1>1, <1>2, <1>3, FinishDrainKeeps DEF CountersTyped
<1> QED BY <1>1, <1>2, <1>4, FollowupStep DEF CountersTyped

LEMMA EndFollowupKeeps ==
    ASSUME FollowupInv, NEW o \in Queues, EndFollowup(o)
    PROVE  FollowupInv'
<1> DEFINE q       == queues[o]
           k       == Len(q.batch)
           rest    == SubSeq(q.items, k + 1, Len(q.items))
           removed == {q.items[i] : i \in DOMAIN q.items \cap DOMAIN q.batch}
           cleared == IF q.told # {} THEN q.dropped ELSE {}
           heard   == IF q.step = "summary" THEN "mute" ELSE "handled"
           gone    == removed \cup cleared
           after   == [q EXCEPT !.items = rest, !.dropped = @ \ cleared]
           objects == [queues EXCEPT ![o] = after]
           fates   == [m \in Message |->
                          CASE m \in removed -> IF m \in ToSet(q.batch) THEN heard ELSE "lost"
                            [] m \in cleared -> IF m \in q.told THEN "summarized" ELSE "forgotten"
                            [] OTHER -> fate[m]]
<1>1. /\ Kept(queues, registered, fate, marks, clears) /\ AllGiven(queues, registered, marks)
      /\ CountersTyped /\ queues \in [Queues -> QueueRec] /\ q \in QueueRec
      /\ fate \in [Message -> Fates]
      /\ Holding(q, fate) /\ Reportable(q, marks) /\ Given(q, o # registered, marks)
      BY DEF FollowupInv, Kept, AllGiven
<1>2. q.step \in {"single", "collect", "summary"} /\ UNCHANGED <<clears, belated>>
      BY DEF EndFollowup, Running
<1>3. fate' = fates
      BY DEF EndFollowup
<1>4. NextRound(objects, o)
      <2>1. [queues EXCEPT ![o].items = SubSeq(@, Len(q.batch) + 1, Len(@)), ![o].dropped = @ \ cleared]
            = objects
            BY <1>1
      <2> HIDE DEF objects
      <2> QED BY <2>1 DEF EndFollowup
<1>5. /\ q.items \in BoundedSeq(Message, Cap) /\ q.batch \in BoundedSeq(Message, Cap)
      /\ k \in Nat /\ DOMAIN q.batch = 1 .. k /\ DOMAIN q.items = 1 .. Len(q.items) /\ Len(q.items) \in Nat
      /\ q.dropped \subseteq Message /\ q.told \subseteq Message
      /\ q.mode \in {"collect", "followup"}
      /\ ToSet(q.items) \subseteq Message
      BY <1>1, ItemFacts DEF QueueRec
<1> HIDE DEF k
<1>6. /\ rest \in BoundedSeq(Message, Cap) /\ IsInjective(rest)
      /\ Len(rest) = IF k <= Len(q.items) THEN Len(q.items) - k ELSE 0
      /\ removed \subseteq ToSet(q.items)
      /\ \A m : m \in ToSet(rest) <=> m \in ToSet(q.items) /\ m \notin removed
      <2>1. IsInjective(q.items)
            BY <1>1 DEF Holding
      <2> HIDE DEF q
      <2> QED BY <1>5, <2>1, CutFacts
<1> HIDE DEF rest, removed, cleared
<1>7. /\ after \in QueueRec /\ after.items = rest /\ after.dropped = q.dropped \ cleared
      /\ after.mode = q.mode /\ after.drop = q.drop /\ after.made = q.made /\ after.step = q.step
      <2>1. q.dropped \ cleared \in SUBSET Message
            BY <1>5
      <2> HIDE DEF q
      <2> QED BY <1>1, <1>6, <2>1 DEF QueueRec
<1>8. \A m \in removed : fate[m] = "queued" /\ m \in Message
      BY <1>1, <1>5, <1>6 DEF Holding
<1>9. cleared \subseteq q.dropped /\ \A m \in cleared : fate[m] = "noted" /\ m \in Message
      BY <1>1, <1>5 DEF Holding, cleared
<1>10. /\ fates \in [Message -> Fates]
       /\ \A m \in Message : /\ m \in removed => fates[m] = IF m \in ToSet(q.batch) THEN heard ELSE "lost"
                             /\ m \in cleared => fates[m] = IF m \in q.told THEN "summarized" ELSE "forgotten"
                             /\ m \notin gone => fates[m] = fate[m]
      <2>1. \A m : ~(m \in removed /\ m \in cleared)
            BY <1>8, <1>9
      <2>2. \A m \in Message : /\ m \in removed => fates[m] = IF m \in ToSet(q.batch) THEN heard ELSE "lost"
                               /\ m \in cleared => fates[m] = IF m \in q.told THEN "summarized" ELSE "forgotten"
                               /\ m \notin gone => fates[m] = fate[m]
            BY <2>1
      <2>3. \A m \in Message : fates[m] \in Fates
            <3>1. heard \in Fates /\ {"lost", "summarized", "forgotten"} \subseteq Fates
                  BY FateFacts
            <3> HIDE DEF heard, fates
            <3> QED BY <1>1, <2>2, <3>1
      <2>4. fates = [m \in Message |-> fates[m]]
            OBVIOUS
      <2> HIDE DEF fates
      <2> QED BY <2>2, <2>3, <2>4
<1>11. ASSUME NEW m \in gone, fates[m] \in {"lost", "forgotten"}
       PROVE  "overrun" \in marks
      <2> SUFFICES ASSUME "overrun" \notin marks PROVE FALSE
          OBVIOUS
      <2>1. /\ Begins(q.batch, q.items) \/ q.items = <<>>
            /\ q.told # {} => q.dropped \subseteq q.told
            BY <1>1, <1>2 DEF Given
      <2>2. CASE m \in removed
            <3>1. PICK i \in DOMAIN q.items \cap DOMAIN q.batch : q.items[i] = m
                  BY <2>2 DEF removed
            <3>2. q.items # <<>>
                  BY <3>1
            <3>3. q.batch[i] = m
                  BY <2>1, <3>1, <3>2 DEF Begins
            <3>4. m \in ToSet(q.batch)
                  BY <3>1, <3>3 DEF ToSet
            <3>5. fates[m] = heard
                  BY <1>8, <1>10, <2>2, <3>4
            <3> QED BY <1>11, <3>5
      <2>3. CASE m \in cleared
            <3>1. m \in q.told
                  BY <2>1, <2>3 DEF cleared
            <3>2. fates[m] = "summarized"
                  BY <1>9, <1>10, <2>3, <3>1
            <3> QED BY <1>11, <3>2
      <2> QED BY <2>2, <2>3
<1>12. after.dropped # {} =>
          after.items # <<>> \/ after.mode = "collect" \/ marks \cap {"overrun", "switched"} # {}
      <2> SUFFICES ASSUME after.dropped # {}, after.mode # "collect", marks \cap {"overrun", "switched"} = {}
                   PROVE  rest # <<>>
          BY <1>7
      <2>1. q.told = {} /\ q.dropped # {} /\ q.mode = "followup"
            BY <1>5, <1>7 DEF cleared
      <2>2. Len(q.items) > Len(q.batch)
            BY <1>1, <1>2, <2>1 DEF Given
      <2>3. Len(rest) # 0
            BY <1>5, <1>6, <2>2 DEF k
      <2> QED BY <1>6, <2>3, ItemFacts
<1>13. \A m : m \in ToSet(after.items) <=> m \in ToSet(q.items) /\ m \notin gone
      BY <1>1, <1>6, <1>7, <1>9 DEF Holding
<1>14. after.dropped = q.dropped \ gone
      BY <1>1, <1>7, <1>8 DEF Holding
<1>15. \A m \in Message : IF m \in gone THEN fates[m] \in Ends ELSE fates[m] = fate[m]
      <2>1. heard \in Ends /\ {"lost", "summarized", "forgotten"} \subseteq Ends
            BY DEF Ends
      <2> HIDE DEF heard, fates
      <2> QED BY <1>10, <2>1
<1>16. Kept(objects, registered, fates, marks, clears)
      <2>1. gone \subseteq ToSet(q.items) \cup q.dropped
            BY <1>6, <1>9
      <2>2. Leaves(q, after, gone, marks)
            <3> HIDE DEF after, gone
            <3> QED BY <1>6, <1>7, <1>12, <1>13, <1>14, <2>1 DEF Leaves
      <2>3. Ended(fate, fates, gone, marks)
            <3> HIDE DEF fates, gone
            <3> QED BY <1>11, <1>15 DEF Ended
      <2> HIDE DEF after, fates, gone
      <2> QED BY <1>1, <1>7, <1>10, <2>2, <2>3, LeaveKeeps
<1>17. /\ objects[o].step # "off"
       /\ \A p \in Queues \ {o} : Given(objects[p], p # registered, marks)
      <2> HIDE DEF after
      <2> QED BY <1>1, <1>2, <1>7 DEF AllGiven
<1> HIDE DEF objects, fates
<1>18. /\ Kept(queues', registered', fates, marks', clears)
       /\ AllGiven(queues', registered', marks')
       /\ callback' \in BOOLEAN /\ marks' \subseteq Marks
      BY <1>1, <1>4, <1>16, <1>17, NextRoundKeeps DEF CountersTyped
<1> QED BY <1>1, <1>2, <1>3, <1>18, FollowupStep DEF CountersTyped

\* A new message is put at the end, and a full queue makes room for it first.
Excess(items) == IF Len(items) >= Cap THEN SubSeq(items, 1, Len(items) - Cap + 1) ELSE <<>>

Joined(items, m) == Append(SubSeq(items, Len(Excess(items)) + 1, Len(items)), m)

LEMMA PlaceFacts ==
    ASSUME NEW items \in BoundedSeq(Message, Cap), IsInjective(items), NEW m \in Message, m \notin ToSet(items)
    PROVE  /\ Joined(items, m) \in BoundedSeq(Message, Cap) /\ IsInjective(Joined(items, m))
           /\ Joined(items, m) # <<>> /\ ToSet(Excess(items)) \subseteq ToSet(items)
           /\ \A n : n \in ToSet(Joined(items, m)) <=>
                     (n \in ToSet(items) /\ n \notin ToSet(Excess(items))) \/ n = m
           /\ ~ Len(items) >= Cap =>
                 /\ ToSet(Excess(items)) = {} /\ Len(Joined(items, m)) = Len(items) + 1
                 /\ \A i \in 1 .. Len(items) : Joined(items, m)[i] = items[i]
<1> DEFINE n == Len(items)
           excess == IF Len(items) >= Cap THEN SubSeq(items, 1, Len(items) - Cap + 1) ELSE <<>>
           k == Len(excess)
           rest == SubSeq(items, k + 1, n)
           cut == {items[i] : i \in DOMAIN items \cap (1 .. k)}
           placed == Append(rest, m)
<1>1. n \in Nat /\ n <= Cap /\ Cap \in Nat \ {0}
      BY ItemFacts, FollowupAssumption
<1>2. k \in Nat /\ ToSet(excess) = cut /\ (n >= Cap => k = 1 /\ n = Cap) /\ (~ n >= Cap => k = 0 /\ cut = {})
      <2>1. CASE n >= Cap
            <3>1. Len(SubSeq(items, 1, Len(items) - Cap + 1)) = 1 /\ n = Cap
                  /\ ToSet(SubSeq(items, 1, Len(items) - Cap + 1)) = {items[i] : i \in DOMAIN items \cap (1 .. 1)}
                  BY <2>1, ExcessFacts
            <3>2. excess = SubSeq(items, 1, Len(items) - Cap + 1)
                  BY <2>1
            <3>3. k = 1 /\ ToSet(excess) = {items[i] : i \in DOMAIN items \cap (1 .. 1)}
                  BY <3>1, <3>2
            <3> HIDE DEF k, n, excess
            <3> QED BY <2>1, <3>1, <3>3
      <2>2. CASE ~ n >= Cap
            <3>1. excess = <<>>
                  BY <2>2
            <3>2. k = 0 /\ ToSet(excess) = {}
                  BY <3>1, NoItems
            <3> HIDE DEF k, n, excess
            <3>3. 1 .. k = {}
                  BY <3>2
            <3> QED BY <2>2, <3>2, <3>3
      <2> QED BY <2>1, <2>2
<1> HIDE DEF excess, k
<1>3. /\ rest \in BoundedSeq(Message, Cap) /\ IsInjective(rest)
      /\ Len(rest) = (IF k <= n THEN n - k ELSE 0)
      /\ \A i \in 1 .. Len(rest) : rest[i] = items[i + k]
      /\ cut \subseteq ToSet(items)
      /\ \A x : x \in ToSet(rest) <=> x \in ToSet(items) /\ x \notin cut
      BY <1>2, CutFacts
<1> HIDE DEF rest, cut, n
<1>4. Len(rest) < Cap /\ m \notin ToSet(rest)
      BY <1>1, <1>2, <1>3
<1>5. /\ placed \in BoundedSeq(Message, Cap) /\ IsInjective(placed)
      /\ placed # <<>> /\ Len(placed) = Len(rest) + 1
      /\ \A i \in 1 .. Len(rest) : placed[i] = rest[i]
      /\ \A x : x \in ToSet(placed) <=> x \in ToSet(rest) \/ x = m
      BY <1>3, <1>4, AddFacts
<1> HIDE DEF placed
<1>6. ASSUME ~ n >= Cap
      PROVE  Len(placed) = n + 1 /\ \A i \in 1 .. n : placed[i] = items[i]
      <2>1. k = 0 /\ Len(rest) = n
            BY <1>1, <1>2, <1>3, <1>6
      <2>2. \A i \in 1 .. n : i + k = i
            BY <1>1, <2>1
      <2> QED BY <1>3, <1>5, <2>1, <2>2
<1>7. \A x : x \in ToSet(placed) <=> (x \in ToSet(items) /\ x \notin ToSet(excess)) \/ x = m
      BY <1>2, <1>3, <1>5
<1>8. Excess(items) = excess /\ Joined(items, m) = placed
      BY DEF Excess, Joined, placed, rest, excess, k, n
<1> QED BY <1>2, <1>3, <1>5, <1>6, <1>7, <1>8 DEF n

\* The drains that are under way when a message comes to the queue it finds.
LEMMA ComeGiven ==
    ASSUME Kept(queues, registered, fate, marks, clears), AllGiven(queues, registered, marks),
           NEW m \in Message, fate[m] = "busy", NEW q \in QueueRec, NEW more, marks \subseteq more,
           Given(queues[QueueFound], FALSE, marks) => Given(q, FALSE, more),
           q.step = queues[QueueFound].step
    PROVE  AllGiven([queues EXCEPT ![QueueFound] = q], QueueFound, more)
<1> DEFINE o == QueueFound
           after == [queues EXCEPT ![QueueFound] = q]
<1>1. /\ o \in Queues /\ (registered # NoQueue => o = registered)
      /\ registered = NoQueue => ~queues[o].made
      BY FoundFacts
<1>2. queues \in [Queues -> QueueRec] /\ Holding(queues[o], fate)
      BY <1>1 DEF Kept
<1>3. after[o] = q /\ \A p \in Queues \ {o} : after[p] = queues[p]
      BY <1>1, <1>2
<1> HIDE DEF after, o
<1>4. ASSUME NEW p \in Queues \ {o}
      PROVE  Given(after[p], p # o, more)
      <2>1. Given(queues[p], p # registered, marks)
            BY DEF AllGiven
      <2> QED BY <1>3, <2>1 DEF Given
<1>5. Given(after[o], o # o, more)
      <2>1. CASE registered = NoQueue
            <3>1. q.step = "off"
                  BY <1>1, <1>2, <2>1 DEF Holding, o
            <3> QED BY <1>3, <3>1 DEF Given
      <2>2. CASE registered # NoQueue
            <3>1. Given(queues[o], FALSE, marks)
                  <4>1. Given(queues[o], o # registered, marks) /\ o = registered
                        BY <1>1, <2>2 DEF AllGiven
                  <4> QED BY <4>1 DEF Given
            <3>2. Given(q, FALSE, more)
                  BY <3>1 DEF o
            <3> QED BY <1>3, <3>2 DEF Given
      <2> QED BY <2>1, <2>2
<1> QED BY <1>4, <1>5 DEF AllGiven, after, o

LEMMA EnqueueKeeps ==
    ASSUME FollowupInv, NEW m \in Message, NEW setting \in Settings, Enqueue(m, setting)
    PROVE  FollowupInv'
<1> DEFINE o      == QueueFound
           p      == queues[o]
           q      == [p EXCEPT !.mode = setting[1], !.drop = setting[2], !.made = TRUE]
           full   == Len(p.items) >= Cap
           note   == setting[2] = "summarize"
           excess == Excess(p.items)
           items  == Joined(p.items, m)
           noted  == IF note THEN ToSet(excess) ELSE {}
           r      == [q EXCEPT !.items = items, !.dropped = p.dropped \cup noted]
           fates  == [SetFate(ToSet(excess), IF note THEN "noted" ELSE "dropped") EXCEPT ![m] = "queued"]
           more   == marks \cup {x \in {"overrun"} : Running(o) /\ full /\ setting[2] # "new"}
                           \cup {x \in {"switched"} : p.dropped # {} /\ ~note}
<1>1. /\ Kept(queues, registered, fate, marks, clears) /\ AllGiven(queues, registered, marks)
      /\ CountersTyped /\ queues \in [Queues -> QueueRec] /\ fate \in [Message -> Fates]
      BY DEF FollowupInv, Kept
<1>2. fate[m] = "busy" /\ clears' = clears
      BY DEF Enqueue
<1>3. o \in Queues
      BY <1>1, <1>2, FoundFacts
<1>4. p \in QueueRec /\ Holding(p, fate) /\ Reportable(p, marks)
      BY <1>1, <1>3 DEF Kept
<1>5. /\ q \in QueueRec /\ q.items = p.items /\ q.dropped = p.dropped /\ q.step = p.step
      /\ q.batch = p.batch /\ q.told = p.told
      /\ q.mode = setting[1] /\ q.drop = setting[2] /\ q.made
      <2>1. setting[1] \in {"collect", "followup"} /\ setting[2] \in {"summarize", "old", "new"}
            BY FollowupAssumption
      <2> HIDE DEF p
      <2> QED BY <1>4, <2>1 DEF QueueRec
<1>6. /\ marks' = more
      /\ \/ /\ full /\ setting[2] = "new"
            /\ queues' = [queues EXCEPT ![o] = q] /\ registered' = o
            /\ fate' = [fate EXCEPT ![m] = "dropped"]
            /\ UNCHANGED <<callback, belated>>
         \/ /\ ~(full /\ setting[2] = "new")
            /\ \/ Scheduled([queues EXCEPT ![o] = r], o)
               \/ queues' = [queues EXCEPT ![o] = r] /\ registered' = o /\ UNCHANGED callback
            /\ fate' = fates
            /\ \E S \in SUBSET {m} : belated' = belated \cup S
      BY <1>5 DEF Enqueue, Full, Excess, Joined
<1>7. marks \subseteq more /\ more \subseteq Marks
      BY <1>1 DEF Marks, CountersTyped
<1>8. p.items \in BoundedSeq(Message, Cap) /\ IsInjective(p.items) /\ m \notin ToSet(p.items)
      /\ p.dropped \subseteq Message /\ Len(p.items) \in Nat
      BY <1>2, <1>4, ItemFacts DEF QueueRec, Holding
<1>9. CASE full /\ setting[2] = "new"
      <2> DEFINE new == [fate EXCEPT ![m] = "dropped"]
      <2>1. /\ queues' = [queues EXCEPT ![o] = q] /\ registered' = o /\ fate' = new
            /\ callback' = callback /\ belated' = belated
            BY <1>6, <1>9
      <2>2. new \in [Message -> Fates] /\ new[m] = "dropped" /\ \A n \in Message : n # m => new[n] = fate[n]
            BY <1>1, FateFacts
      <2> HIDE DEF new
      <2>3. Answered(fate, new, m, {}, {}, {})
            BY <2>2 DEF Answered
      <2>4. Comes(p, q, m, {}, {}, {})
            <3> HIDE DEF p, q
            <3> QED BY <1>5, <1>8 DEF Comes
      <2>5. p.items # <<>>
            BY <1>8, <1>9, NoItems, FollowupAssumption
      <2>6. p.dropped # {} => "switched" \in more
            BY <1>9
      <2>7. Reportable(q, more)
            <3> HIDE DEF p, q, more
            <3> QED BY <1>5, <2>5, <2>6 DEF Reportable
      <2>8. Given(p, FALSE, marks) => Given(q, FALSE, more)
            <3> HIDE DEF p, q, more
            <3> QED BY <1>5, <1>7, <2>6 DEF Given
      <2>9. Kept([queues EXCEPT ![o] = q], o, new, more, clears)
            <3> HIDE DEF q, more
            <3> QED BY <1>1, <1>2, <1>5, <1>7, <2>2, <2>3, <2>4, <2>7, ComeKeeps
      <2>10. AllGiven([queues EXCEPT ![o] = q], o, more)
            <3> HIDE DEF q, more
            <3> QED BY <1>1, <1>2, <1>5, <1>7, <2>8, ComeGiven
      <2> HIDE DEF o, q, more
      <2> QED BY <1>1, <1>2, <1>6, <1>7, <2>1, <2>9, <2>10, FollowupStep DEF CountersTyped
<1>10. CASE ~(full /\ setting[2] = "new")
      <2>1. /\ items \in BoundedSeq(Message, Cap) /\ IsInjective(items) /\ items # <<>>
            /\ ToSet(excess) \subseteq ToSet(p.items)
            /\ \A n : n \in ToSet(items) <=> (n \in ToSet(p.items) /\ n \notin ToSet(excess)) \/ n = m
            /\ ~full => /\ ToSet(excess) = {} /\ Len(items) = Len(p.items) + 1
                        /\ \A i \in 1 .. Len(p.items) : items[i] = p.items[i]
            BY <1>8, PlaceFacts
      <2>2. ToSet(p.items) \subseteq Message /\ DOMAIN p.items = 1 .. Len(p.items)
            BY <1>8, ItemFacts
      <2> DEFINE gone == ToSet(excess)
      <2>3. noted \in {{}, gone} /\ (note => noted = gone) /\ (~note => noted = {}) /\ p.dropped \cup noted \subseteq Message
            BY <1>8, <2>1, <2>2
      <2> HIDE DEF items, gone, noted
      <2>4. /\ r \in QueueRec /\ r.items = items /\ r.dropped = p.dropped \cup noted
            /\ r.step = p.step /\ r.batch = p.batch /\ r.told = p.told
            /\ r.mode = setting[1] /\ r.drop = setting[2] /\ r.made
            <3> HIDE DEF p, q
            <3> QED BY <1>5, <2>1, <2>3 DEF QueueRec
      <2>5. /\ fates \in [Message -> Fates] /\ fates[m] = "queued"
            /\ \A n \in Message : n # m => fates[n] = IF n \in gone THEN (IF note THEN "noted" ELSE "dropped") ELSE fate[n]
            <3> DEFINE set == SetFate(ToSet(excess), IF note THEN "noted" ELSE "dropped")
            <3>1. set = [n \in Message |-> IF n \in gone THEN (IF note THEN "noted" ELSE "dropped") ELSE fate[n]]
                  BY DEF SetFate, gone
            <3>2. set \in [Message -> Fates]
                  BY <1>1, <3>1, FateFacts
            <3>3. fates = [set EXCEPT ![m] = "queued"]
                  OBVIOUS
            <3> HIDE DEF set, fates
            <3> QED BY <3>1, <3>2, <3>3, FateFacts
      <2> HIDE DEF fates
      <2>6. Answered(fate, fates, m, gone, {m}, noted)
            <3> HIDE DEF note
            <3> QED BY <2>3, <2>5 DEF Answered
      <2>7. Comes(p, r, m, gone, {m}, noted)
            <3> HIDE DEF p, r, excess
            <3> QED BY <2>1, <2>3, <2>4 DEF Comes, gone
      <2>8. ~note /\ p.dropped # {} => "switched" \in more
            OBVIOUS
      <2>9. Reportable(r, more)
            <3> HIDE DEF p, r, more
            <3> QED BY <2>1, <2>3, <2>4, <2>8 DEF Reportable
      <2>10. Running(o) /\ full => "overrun" \in more
            BY <1>10
      <2>11. Given(p, FALSE, marks) => Given(r, FALSE, more)
            <3> SUFFICES ASSUME Given(p, FALSE, marks), p.step \in {"single", "collect", "summary"}, "overrun" \notin more
                         PROVE  /\ Begins(p.batch, items)
                                /\ p.told # {} => p.dropped \cup noted \subseteq p.told
                                /\ Len(items) > Len(p.batch)
                BY <2>4 DEF Given
            <3>1. ~full
                  BY <2>10 DEF Running
            <3>2. noted = {}
                  BY <2>1, <2>3, <3>1 DEF gone
            <3>3. Begins(p.batch, p.items) /\ (p.told # {} => p.dropped \subseteq p.told)
                  BY <1>7 DEF Given
            <3>4. p.batch \in BoundedSeq(Message, Cap)
                  BY <1>4 DEF QueueRec
            <3>5. Len(p.batch) \in Nat /\ DOMAIN p.batch = 1 .. Len(p.batch)
                  BY <3>4, ItemFacts
            <3>6. Len(p.batch) <= Len(p.items) /\ Len(items) = Len(p.items) + 1
                  BY <2>1, <3>1, <3>3 DEF Begins
            <3>7. \A i \in 1 .. Len(p.batch) : i \in 1 .. Len(p.items) /\ p.batch[i] = p.items[i] /\ items[i] = p.items[i]
                  BY <1>8, <2>1, <3>1, <3>3, <3>5, <3>6 DEF Begins
            <3> HIDE DEF p
            <3>8. Begins(p.batch, items)
                  BY <1>8, <3>5, <3>6, <3>7 DEF Begins
            <3>9. Len(items) > Len(p.batch)
                  BY <1>8, <3>5, <3>6
            <3> QED BY <3>2, <3>3, <3>8, <3>9
      <2>12. Kept([queues EXCEPT ![o] = r], o, fates, more, clears)
            <3> HIDE DEF r, more
            <3> QED BY <1>1, <1>2, <1>7, <2>4, <2>5, <2>6, <2>7, <2>9, ComeKeeps
      <2>13. AllGiven([queues EXCEPT ![o] = r], o, more)
            <3> HIDE DEF r, more
            <3> QED BY <1>1, <1>2, <1>7, <2>4, <2>11, ComeGiven
      <2> DEFINE placed == [queues EXCEPT ![o] = r]
      <2>14. /\ Scheduled(placed, o) \/ (queues' = placed /\ registered' = o /\ callback' = callback)
             /\ fate' = fates
             /\ belated' \subseteq Message
            <3>1. belated \subseteq Message
                  BY <1>1 DEF CountersTyped
            <3> HIDE DEF r, o
            <3> QED BY <1>6, <1>10, <3>1
      <2> HIDE DEF placed, more, o
      <2>15. Kept(placed, o, fates, more, clears) /\ AllGiven(placed, o, more) /\ callback \in BOOLEAN
            BY <1>1, <2>12, <2>13 DEF placed, CountersTyped
      <2>16. /\ Kept(queues', registered', fates, more, clears)
             /\ AllGiven(queues', registered', more)
             /\ callback' \in BOOLEAN
            BY <2>14, <2>15, ScheduledKeeps
      <2> QED BY <1>1, <1>2, <1>6, <1>7, <2>14, <2>16, FollowupStep DEF CountersTyped
<1> QED BY <1>9, <1>10

LEMMA ClearQueuesKeeps ==
    ASSUME FollowupInv, ClearQueues
    PROVE  FollowupInv'
<1>1. /\ Kept(queues, registered, fate, marks, clears) /\ AllGiven(queues, registered, marks)
      /\ CountersTyped /\ queues \in [Queues -> QueueRec] /\ fate \in [Message -> Fates]
      /\ registered \in Queues \cup {NoQueue}
      BY DEF FollowupInv, Kept
<1>2. /\ clears' \in 0 .. MaxClears /\ clears' # 0 /\ callback' = FALSE /\ registered' = NoQueue
      /\ UNCHANGED <<marks, belated>>
      BY <1>1, FollowupAssumption DEF ClearQueues, CountersTyped
<1>3. ASSUME NEW objects, NEW new, Kept(objects, registered, new, marks, clears),
             registered # NoQueue => Empty(objects[registered])
      PROVE  Kept(objects, NoQueue, new, marks, clears')
      <2>1. Kept(objects, registered, new, marks, clears')
            BY <1>2, <1>3 DEF Kept
      <2> QED BY <1>2, <1>3, <2>1, UnregisterKeeps
<1>4. CASE registered = NoQueue
      <2>1. queues' = queues /\ fate' = fate
            BY <1>4 DEF ClearQueues
      <2>2. Kept(queues, NoQueue, fate, marks, clears')
            BY <1>1, <1>3, <1>4
      <2> QED BY <1>1, <1>2, <1>4, <2>1, <2>2, FollowupStep DEF CountersTyped
<1>5. CASE registered # NoQueue
      <2> DEFINE o == registered
                 q == queues[o]
                 gone == ToSet(q.items) \cup q.dropped
                 bare == [q EXCEPT !.items = <<>>, !.dropped = {}]
                 after == [queues EXCEPT ![o] = bare]
                 new == SetFate(gone, "cleared")
      <2>1. o \in Queues /\ q \in QueueRec
            BY <1>1, <1>5
      <2>2. queues' = after /\ fate' = new
            <3>1. [queues EXCEPT ![o].items = <<>>, ![o].dropped = {}] = after
                  BY <1>1, <2>1
            <3> QED BY <1>5, <3>1 DEF ClearQueues
      <2>3. /\ bare \in QueueRec /\ bare.items = <<>> /\ bare.dropped = {}
            /\ bare.mode = q.mode /\ bare.drop = q.drop /\ bare.made = q.made /\ bare.step = q.step
            <3> HIDE DEF q
            <3> QED BY <2>1, NoItems DEF QueueRec
      <2>4. new \in [Message -> Fates] /\ \A m \in Message : new[m] = IF m \in gone THEN "cleared" ELSE fate[m]
            BY <1>1, FateFacts DEF SetFate
      <2>5. gone \subseteq Message
            BY <2>1, ItemFacts DEF QueueRec
      <2> HIDE DEF new, bare
      <2>6. Leaves(q, bare, gone, marks)
            BY <2>3, NoItems DEF Leaves
      <2>7. Ended(fate, new, gone, marks)
            <3> HIDE DEF gone
            <3> QED BY <2>4, <2>5 DEF Ended, Ends
      <2>8. Kept(after, o, new, marks, clears)
            <3> HIDE DEF gone
            <3> QED BY <1>1, <2>1, <2>3, <2>4, <2>6, <2>7, LeaveKeeps
      <2>9. after[o] = bare /\ \A p \in Queues \ {o} : after[p] = queues[p]
            BY <1>1, <2>1
      <2> HIDE DEF after
      <2>10. Empty(after[o])
            BY <2>3, <2>9 DEF Empty
      <2>11. Kept(after, NoQueue, new, marks, clears')
            BY <1>3, <2>8, <2>10
      <2>12. ASSUME NEW p \in Queues
             PROVE  Given(after[p], p # NoQueue, marks)
            <3>1. p # NoQueue
                  BY NoQueueAssumption
            <3>2. CASE p = o
                  <4>1. Given(bare, TRUE, marks)
                        BY <2>3 DEF Given
                  <4> QED BY <2>9, <3>1, <3>2, <4>1 DEF Given
            <3>3. CASE p # o
                  <4>1. Given(queues[p], p # registered, marks)
                        BY <1>1 DEF AllGiven
                  <4> QED BY <2>9, <3>1, <3>3, <4>1 DEF Given
            <3> QED BY <3>2, <3>3
      <2>13. AllGiven(after, NoQueue, marks)
            BY <2>12 DEF AllGiven
      <2> QED BY <1>1, <1>2, <2>2, <2>11, <2>13, FollowupStep DEF CountersTyped
<1> QED BY <1>4, <1>5

LEMMA ArrivalsKeep ==
    ASSUME FollowupInv, NEW m \in Message, Arrive(m) \/ EndDirect(m) \/ Finalize(m)
    PROVE  FollowupInv'
<1>1. /\ Kept(queues, registered, fate, marks, clears) /\ AllGiven(queues, registered, marks)
      /\ CountersTyped
      BY DEF FollowupInv
<1>2. \A to \in Arriving : fate[m] \in Arriving => Kept(queues, registered, [fate EXCEPT ![m] = to], marks, clears)
      BY <1>1, ArrivingKeeps
<1>3. CASE Arrive(m) \/ EndDirect(m)
      <2>1. /\ fate[m] \in Arriving /\ \E to \in Arriving : fate' = [fate EXCEPT ![m] = to]
            /\ UNCHANGED <<queues, registered, callback, clears, marks, belated>>
            BY <1>3 DEF Arrive, EndDirect, Arriving
      <2>2. Kept(queues', registered', fate', marks', clears')
            BY <1>2, <2>1
      <2> QED BY <1>1, <2>1, <2>2, FollowupStep DEF CountersTyped
<1>4. CASE Finalize(m)
      <2>1. /\ fate[m] \in Arriving /\ fate' = [fate EXCEPT ![m] = "replied"] /\ "replied" \in Arriving
            /\ Scheduled(queues, registered) /\ UNCHANGED <<clears, marks, belated>>
            BY <1>4 DEF Finalize, Arriving
      <2>2. Kept(queues, registered, fate', marks, clears)
            BY <1>2, <2>1
      <2>3. /\ Kept(queues', registered', fate', marks, clears)
            /\ AllGiven(queues', registered', marks)
            /\ callback' \in BOOLEAN
            BY <1>1, <2>1, <2>2, ScheduledKeeps DEF CountersTyped
      <2> QED BY <1>1, <2>1, <2>3, FollowupStep DEF CountersTyped
<1> QED BY <1>3, <1>4

LEMMA FollowupStarts == FollowupInit => FollowupInv
<1> SUFFICES ASSUME FollowupInit PROVE FollowupInv
    OBVIOUS
<1> DEFINE fresh == [items |-> <<>>, dropped |-> {}, mode |-> "collect",
                     drop |-> "summarize", step |-> "off", batch |-> <<>>,
                     told |-> {}, forced |-> FALSE, made |-> FALSE]
<1>1. /\ queues = [o \in Queues |-> fresh] /\ registered = NoQueue /\ callback = FALSE
      /\ fate = [m \in Message |-> "new"] /\ clears = 0 /\ marks = {} /\ belated = {}
      BY DEF FollowupInit
<1>2. fresh \in QueueRec /\ Empty(fresh) /\ fresh.step = "off" /\ ~fresh.made
      /\ fresh.items = <<>> /\ fresh.dropped = {}
      BY NoItems DEF QueueRec, Empty
<1> HIDE DEF fresh
<1>3. queues \in [Queues -> QueueRec] /\ \A o \in Queues : queues[o] = fresh
      BY <1>1, <1>2
<1>4. fate \in [Message -> Fates] /\ \A m \in Message : fate[m] = "new"
      BY <1>1, FateFacts DEF Arriving
<1>5. MadeInTurn(queues, fate)
      <2>1. Arrived(fate) = {}
            BY <1>4 DEF Arrived, Arriving
      <2>2. Cardinality(Arrived(fate)) = 0 /\ Cardinality(Message) \in Nat
            BY <2>1, FS_EmptySet, FS_CardinalityType, FollowupAssumption
      <2>3. \A o \in Queues : queues[o].made <=> o <= 0
            BY <1>2, <1>3 DEF Queues
      <2> QED BY <2>2, <2>3 DEF MadeInTurn
<1>6. \A o \in Queues : Holding(queues[o], fate) /\ Reportable(queues[o], marks)
      BY <1>2, <1>3, NoItems DEF Holding, Reportable
<1>7. Apart(queues)
      BY <1>2, <1>3, NoItems DEF Apart
<1>8. Reached(queues, registered, fate, marks)
      BY <1>2, <1>3, <1>4 DEF Reached
<1>9. Kept(queues, registered, fate, marks, clears)
      BY <1>1, <1>2, <1>3, <1>4, <1>5, <1>6, <1>7, <1>8 DEF Kept
<1>10. AllGiven(queues, registered, marks)
      BY <1>2, <1>3, RestingGiven DEF AllGiven
<1>11. CountersTyped
      <2>1. 0 \in 0 .. MaxClears
            BY FollowupAssumption
      <2>2. callback \in BOOLEAN /\ clears \in 0 .. MaxClears
            BY <1>1, <2>1
      <2>3. marks \subseteq Marks /\ belated \subseteq Message
            BY <1>1
      <2> QED BY <2>2, <2>3 DEF CountersTyped
<1> QED BY <1>9, <1>10, <1>11 DEF FollowupInv

\* Nothing is lost on the way through a queue: what it holds is apart from what the
\* others hold, a run under way was given what is in front, and the marks say why
\* when it is otherwise (queue/drain.ts, queue/enqueue.ts).
THEOREM FollowupInductive == FollowupSpec => []FollowupInv
<1>1. FollowupInit => FollowupInv
      BY FollowupStarts
<1>2. FollowupInv /\ [FollowupNext]_followupVars => FollowupInv'
      <2> SUFFICES ASSUME FollowupInv, [FollowupNext]_followupVars PROVE FollowupInv'
          OBVIOUS
      <2>1. ASSUME NEW m \in Message, Arrive(m) \/ EndDirect(m) \/ Finalize(m)
            PROVE  FollowupInv'
            BY <2>1, ArrivalsKeep
      <2>2. ASSUME NEW m \in Message, NEW setting \in Settings, Enqueue(m, setting)
            PROVE  FollowupInv'
            BY <2>2, EnqueueKeeps
      <2>3. ASSUME NEW o \in Queues, StartFollowup(o)
            PROVE  FollowupInv'
            BY <2>3, StartFollowupKeeps
      <2>4. ASSUME NEW o \in Queues, EndFollowup(o)
            PROVE  FollowupInv'
            BY <2>4, EndFollowupKeeps
      <2>5. ASSUME NEW o \in Queues, FailFollowup(o)
            PROVE  FollowupInv'
            BY <2>5, FailFollowupKeeps
      <2>6. CASE ClearQueues
            BY <2>6, ClearQueuesKeeps
      <2>7. CASE UNCHANGED followupVars
            BY <2>7, FollowupStep DEF followupVars, FollowupInv, CountersTyped
      <2> QED BY <2>1, <2>2, <2>3, <2>4, <2>5, <2>6, <2>7 DEF FollowupNext
<1> QED BY <1>1, <1>2, PTL DEF FollowupSpec

\* A drain gives each message one fate, works alone and comes to an end, but for what
\* is dropped, switched or cleared under it (scheduleFollowupDrain).
THEOREM DrainsAreSound == FollowupSpec => []DrainsSound
<1>1. FollowupInv => DrainsSound
      <2> SUFFICES ASSUME FollowupInv PROVE DrainsSound
          OBVIOUS
      <2>1. Kept(queues, registered, fate, marks, clears)
            BY DEF FollowupInv
      <2>2. \A o \in Queues : /\ queues[o] \in QueueRec
                              /\ Holding(queues[o], fate) /\ Reportable(queues[o], marks)
            BY <2>1 DEF Kept
      <2>3. NoneSlips
            <3>1. ASSUME NEW m \in Message, fate[m] = "queued", "replaced" \notin marks
                  PROVE  \E o \in Queues : m \in ToSet(queues[o].items) /\ (o = registered \/ Draining(o))
                  <4>1. PICK o \in Queues : m \in ToSet(queues[o].items)
                        BY <2>1, <3>1 DEF Kept, Reached
                  <4>2. ~Empty(queues[o])
                        BY <4>1, NoItems DEF Empty
                  <4> QED BY <2>1, <3>1, <4>1, <4>2 DEF Kept, Reached
            <3> QED BY <2>1, <3>1 DEF NoneSlips, Kept
      <2>4. NoneTwice
            BY <2>2 DEF NoneTwice, Holding
      <2>5. OneDrain
            <3> SUFFICES ASSUME clears = 0
                         PROVE  Cardinality({o \in Queues : Draining(o)}) <= 1
                BY DEF OneDrain
            <3> DEFINE draining == {o \in Queues : Draining(o)}
            <3>1. draining = {} \/ draining = {registered}
                  BY <2>1 DEF Kept, Draining
            <3> HIDE DEF draining
            <3>2. Cardinality(draining) = 0 \/ Cardinality(draining) = 1
                  BY <3>1, FS_EmptySet, FS_Singleton
            <3>3. Cardinality(draining) <= 1
                  BY <3>2
            <3> QED BY <3>3 DEF draining
      <2>6. BarrenExplained
            <3> SUFFICES ASSUME NEW o \in Queues, queues[o].items = <<>>, queues[o].dropped # {},
                                queues[o].mode = "followup" \/ queues[o].drop # "summarize"
                         PROVE  marks \cap {"overrun", "switched"} # {}
                BY DEF BarrenExplained
            <3> QED BY <2>2 DEF Reportable
      <2>7. FollowupTypeOK
            BY DEF FollowupInv, Kept, CountersTyped, FollowupTypeOK, QueueRec
      <2> QED BY <2>3, <2>4, <2>5, <2>6, <2>7 DEF DrainsSound
<1> QED BY <1>1, FollowupInductive, PTL

==============================================================================
