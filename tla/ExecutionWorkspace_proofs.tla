----------------------- MODULE ExecutionWorkspace_proofs -----------------------
(***************************************************************************)
(* Proofs about ExecutionWorkspace, for any runners, operators, tasks,     *)
(* agents and worktrees, any requests and any number of faults.  A step is *)
(* seen in what it does to the call of the process that takes it: it opens *)
(* a hook, completes one, drops what it was at, or none of these.          *)
(***************************************************************************)
EXTENDS ExecutionWorkspace, FiniteSetTheorems, TLAPS

\* The steps that have one ending in a pass, a success unless something raises.
Hopeful == {"claimed"} \cup Preparing \cup Working \cup Hooking \cup {"finalize"}

\* What a process may be at.
ShapedCall(p, c) ==
    /\ c \in Call
    /\ c.step = "idle" <=> c.kind = "none"
    /\ c.step # "idle" => c.task \in Task
    /\ c.kind = "run" <=> c.step # "idle" /\ p \in Runner
    /\ c.step \in Hopeful => c.final = "completed"
    /\ c.step \in {"abort", "report", "fail"} => c.kind = "run" /\ c.final = "blocked"
    /\ c.kind \notin {"run", "none"} => c.kind \in Requests /\ c.final = "completed"
    /\ c.kind = "remove" => c.step \in {"remove", "mark"}
    /\ c.kind \in {"prepare", "release"} => c.step \notin Hooking

CallsShaped == \A p \in Proc : ShapedCall(p, call[p])

\* A row of a worktree names its task from the beginning, and what a context
\* or a process knows of is there.
Known(w) == w # None => worktree[w].status # "absent"

RowsShaped ==
    /\ \A w \in Worktree : worktree[w].status # "absent" => worktree[w].task \in Task
    /\ \A t \in Task : Known(context[t].worktree)
    /\ \A p \in Proc : Known(call[p].wt)

\* The processes in a hook of a task.
InsideCall(c, t, h) == c.task = t /\ c.step \in InHook(h) /\ c.kind # "remove"
Inside(t, h) == {p \in Proc : InsideCall(call[p], t, h)}

\* A process in a hook has it open; those that stay open were left by a fault.
HooksCounted ==
    \A t \in Task, h \in Hook :
        /\ Cardinality(Inside(t, h)) <= running[t][h]
        /\ running[t][h] <= faults + Cardinality(Inside(t, h))

\* The processes that have completed the hook before this one.
DueSteps(h) ==
    CASE h = "checkpoint" -> {}
      [] h = "merge"      -> {"merge", "copy", "merging"}
      [] h = "cleanup"    -> {"cleanup", "remove", "mark", "unbind", "cleaning"}
DueCall(c, t, h) == c.task = t /\ c.kind # "remove" /\ c.step \in DueSteps(h)
Due(t, h) == {p \in Proc : DueCall(call[p], t, h)}

\* The requests leave the hooks to the pipeline.
NoHookRequests == Requests \cap Hook = {}

HooksPaired ==
    NoHookRequests =>
        \A t \in Task :
            /\ completed[t]["merge"] + Cardinality(Due(t, "merge")) <= completed[t]["checkpoint"]
            /\ completed[t]["cleanup"] + Cardinality(Due(t, "cleanup")) <= completed[t]["merge"]

HooksInv == TypeOK /\ CallsShaped /\ RowsShaped /\ HooksCounted /\ HooksPaired

\* A pass has marked its agent as executing, and not yet as anything else.
Marked(c) ==
    /\ c.kind = "run" /\ c.step \notin {"claimed", "finalize"}
    /\ c.step \in {"release", "close"} => c.final = "blocked"

AgentsWorked ==
    faults = 0 =>
        \A a \in Owner : agent[a].state = "executing" =>
            LET t == agent[a].task IN
            /\ t \in Task /\ OwnerOf[t] = a
            /\ (\E r \in Runner : TaskOf(r) = t /\ Marked(call[r])) \/ status[t] = "done"

AgentsInv == HooksInv /\ AgentsWorked
-----------------------------------------------------------------------------
(* Counting processes.                                                     *)

LEMMA ProcsCounted ==
    ASSUME NEW S \in SUBSET Proc, NEW p
    PROVE  /\ Cardinality(S) \in Nat
           /\ Cardinality(S \cup {p}) = IF p \in S THEN Cardinality(S) ELSE Cardinality(S) + 1
           /\ Cardinality(S \ {p}) = IF p \in S THEN Cardinality(S) - 1 ELSE Cardinality(S)
           /\ p \in S => Cardinality(S) >= 1
           /\ Cardinality(S \ {p}) \in Nat /\ Cardinality(S \ {p}) <= Cardinality(S)
<1>1. IsFiniteSet(S)
      BY ConstantsAssumption, FS_Subset
<1>2. Cardinality(S) \in Nat /\ Cardinality(S \ {p}) \in Nat
      BY <1>1, FS_CardinalityType, FS_RemoveElement
<1>3. Cardinality(S \cup {p}) = IF p \in S THEN Cardinality(S) ELSE Cardinality(S) + 1
      BY <1>1, FS_AddElement
<1>4. Cardinality(S \ {p}) = IF p \in S THEN Cardinality(S) - 1 ELSE Cardinality(S)
      BY <1>1, FS_RemoveElement
<1> QED BY <1>2, <1>3, <1>4

LEMMA InsideCounted ==
    \A t, h : /\ Inside(t, h) \in SUBSET Proc /\ Cardinality(Inside(t, h)) \in Nat
              /\ Due(t, h) \in SUBSET Proc /\ Cardinality(Due(t, h)) \in Nat
<1>1. \A t, h : Inside(t, h) \in SUBSET Proc /\ Due(t, h) \in SUBSET Proc
      BY DEF Inside, Due
<1> QED BY <1>1, ProcsCounted

LEMMA InsideCountedNext ==
    \A t, h : /\ Inside(t, h)' \in SUBSET Proc /\ Cardinality(Inside(t, h)') \in Nat
              /\ Due(t, h)' \in SUBSET Proc /\ Cardinality(Due(t, h)') \in Nat
<1>1. \A t, h : Inside(t, h)' \in SUBSET Proc /\ Due(t, h)' \in SUBSET Proc
      BY DEF Inside, Due
<1> QED BY <1>1, ProcsCounted

-----------------------------------------------------------------------------
(* What a process does to its call.                                        *)

\* The tables and the files, and what is counted of the operators.
TablesSound ==
    /\ status \in [Task -> TaskStatus]
    /\ agent \in [Owner -> AgentRow]
    /\ context \in [Task -> ContextRow]
    /\ worktree \in [Worktree -> WorktreeRow]
    /\ folder \in [Task -> Folder]
    /\ output \in [Task -> Runner \cup {None}]
    /\ merged \in [Task -> Runner \cup {None}]
    /\ requests \in Nat
    /\ RowsShaped

\* The process is at c afterwards.
MovesTo(p, c) == ShapedCall(p, c) /\ call' = [call EXCEPT ![p] = c]

LEMMA Moved ==
    ASSUME HooksInv, NEW p \in Proc, NEW c, MovesTo(p, c)
    PROVE  /\ call' \in [Proc -> Call] /\ CallsShaped'
           /\ call'[p] = c /\ \A q \in Proc \ {p} : call'[q] = call[q]
           /\ \A t, h : /\ Inside(t, h)' = IF InsideCall(c, t, h) THEN Inside(t, h) \cup {p}
                                           ELSE Inside(t, h) \ {p}
                        /\ Due(t, h)' = IF DueCall(c, t, h) THEN Due(t, h) \cup {p}
                                        ELSE Due(t, h) \ {p}
<1>1. c \in Call /\ call \in [Proc -> Call] /\ call' = [call EXCEPT ![p] = c]
      BY DEF MovesTo, ShapedCall, HooksInv, TypeOK
<1>2. /\ call' \in [Proc -> Call]
      /\ call'[p] = c /\ \A q \in Proc \ {p} : call'[q] = call[q]
      BY <1>1
<1>3. CallsShaped'
      <2>1. \A q \in Proc : ShapedCall(q, call'[q])
            BY <1>2 DEF MovesTo, HooksInv, CallsShaped
      <2> QED BY <2>1 DEF CallsShaped, ShapedCall
<1>4. \A t, h : Inside(t, h)' = {q \in Proc : InsideCall(call'[q], t, h)}
      BY DEF Inside, InsideCall
<1>5. \A t, h : Due(t, h)' = {q \in Proc : DueCall(call'[q], t, h)}
      BY DEF Due, DueCall
<1>6. \A t, h : Inside(t, h)' = IF InsideCall(c, t, h) THEN Inside(t, h) \cup {p}
                                ELSE Inside(t, h) \ {p}
      BY <1>2, <1>4 DEF Inside
<1>7. \A t, h : Due(t, h)' = IF DueCall(c, t, h) THEN Due(t, h) \cup {p}
                             ELSE Due(t, h) \ {p}
      BY <1>2, <1>5 DEF Due
<1> QED BY <1>2, <1>3, <1>6, <1>7

\* A step with no hook: it neither enters nor, unless it fails, leaves one.
Calm(p, c) ==
    /\ MovesTo(p, c) /\ TablesSound' /\ running' = running /\ completed' = completed
    /\ \/ /\ faults' = faults
          /\ \A t \in Task, h \in Hook : InsideCall(call[p], t, h) => InsideCall(c, t, h)
       \/ faults' = faults + 1
    /\ \A t \in Task, h \in Hook : InsideCall(c, t, h) => InsideCall(call[p], t, h)
    /\ NoHookRequests => \A t \in Task, h \in Hook : DueCall(c, t, h) => DueCall(call[p], t, h)

LEMMA CalmStep ==
    ASSUME HooksInv, NEW p \in Proc, NEW c, Calm(p, c)
    PROVE  HooksInv'
<1>1. /\ MovesTo(p, c) /\ TablesSound' /\ running' = running /\ completed' = completed
      /\ faults \in Nat /\ faults' \in {faults, faults + 1}
      BY DEF Calm, HooksInv, TypeOK
<1>2. TypeOK' /\ CallsShaped' /\ RowsShaped'
      <2>1. call' \in [Proc -> Call] /\ CallsShaped'
            BY <1>1, Moved
      <2> QED BY <1>1, <2>1 DEF TablesSound, HooksInv, TypeOK
<1>3. HooksCounted'
      <2> SUFFICES ASSUME NEW t \in Task, NEW h \in Hook
                   PROVE  /\ Cardinality(Inside(t, h)') <= running[t][h]
                          /\ running[t][h] <= faults' + Cardinality(Inside(t, h)')
          BY <1>1 DEF HooksCounted
      <2>1. /\ Cardinality(Inside(t, h)) <= running[t][h] /\ running[t][h] \in Nat
            /\ running[t][h] <= faults + Cardinality(Inside(t, h))
            BY DEF HooksInv, HooksCounted, TypeOK, HookCount
      <2>2. Inside(t, h) \in SUBSET Proc
            BY InsideCounted
      <2>3. CASE Inside(t, h)' = Inside(t, h)
            <3>1. Cardinality(Inside(t, h)') = Cardinality(Inside(t, h))
                  BY <2>3
            <3>2. Cardinality(Inside(t, h)) \in Nat
                  BY InsideCounted
            <3> QED BY <1>1, <2>1, <3>1, <3>2
      <2>4. CASE Inside(t, h)' # Inside(t, h)
            <3>1. /\ Inside(t, h)' = Inside(t, h) \ {p} /\ p \in Inside(t, h)
                  /\ faults' = faults + 1
                  BY <1>1, <2>4, Moved DEF Calm, Inside
            <3> QED BY <1>1, <2>1, <2>2, <3>1, ProcsCounted
      <2> QED BY <2>3, <2>4
<1>4. HooksPaired'
      <2> SUFFICES ASSUME NoHookRequests, NEW t \in Task
                   PROVE  /\ completed[t]["merge"] + Cardinality(Due(t, "merge")')
                                <= completed[t]["checkpoint"]
                          /\ completed[t]["cleanup"] + Cardinality(Due(t, "cleanup")')
                                <= completed[t]["merge"]
          BY <1>1 DEF HooksPaired
      <2>1. /\ completed[t]["merge"] \in Nat /\ completed[t]["cleanup"] \in Nat
            /\ completed[t]["checkpoint"] \in Nat
            BY DEF HooksInv, TypeOK, HookCount, Hook
      <2>2. ASSUME NEW h \in Hook
            PROVE  /\ Cardinality(Due(t, h)') <= Cardinality(Due(t, h))
                   /\ Cardinality(Due(t, h)) \in Nat /\ Cardinality(Due(t, h)') \in Nat
            <3>1. Due(t, h)' \in {Due(t, h), Due(t, h) \ {p}}
                  BY <1>1, Moved DEF Calm, Due
            <3>2. Due(t, h) \in SUBSET Proc
                  BY InsideCounted
            <3>3. /\ Cardinality(Due(t, h) \ {p}) \in Nat /\ Cardinality(Due(t, h)) \in Nat
                  /\ Cardinality(Due(t, h) \ {p}) <= Cardinality(Due(t, h))
                  BY <3>2, ProcsCounted
            <3>4. CASE Due(t, h)' = Due(t, h)
                  BY <3>3, <3>4
            <3>5. CASE Due(t, h)' = Due(t, h) \ {p}
                  BY <3>3, <3>5
            <3> QED BY <3>1, <3>4, <3>5
      <2> QED BY <2>1, <2>2 DEF HooksInv, HooksPaired, Hook
<1> QED BY <1>2, <1>3, <1>4 DEF HooksInv

\* A step that opens a hook.
Opens(p, u, c, g) ==
    /\ TaskOf(p) = u /\ u \in Task
    /\ MovesTo(p, c) /\ TablesSound' /\ completed' = completed /\ faults' = faults
    /\ running' = [running EXCEPT ![u][g] = @ + 1]
    /\ \A t \in Task, h \in Hook :
          /\ ~InsideCall(call[p], t, h)
          /\ InsideCall(c, t, h) <=> t = u /\ h = g
          /\ DueCall(c, t, h) => DueCall(call[p], t, h)

\* A step that completes one.
Closes(p, u, c, g) ==
    /\ TaskOf(p) = u /\ u \in Task
    /\ MovesTo(p, c) /\ TablesSound' /\ faults' = faults
    /\ running' = [running EXCEPT ![u][g] = @ - 1]
    /\ completed' = [completed EXCEPT ![u][g] = @ + 1]
    /\ \A t \in Task, h \in Hook :
          /\ InsideCall(call[p], t, h) <=> t = u /\ h = g
          /\ ~InsideCall(c, t, h)
          /\ DueCall(call[p], t, h) <=> t = u /\ h = g /\ g # "checkpoint"
          /\ DueCall(c, t, h) =>
                t = u /\ <<g, h>> \in {<<"checkpoint", "merge">>, <<"merge", "cleanup">>}

LEMMA DueShrinks ==
    ASSUME HooksInv, NEW p \in Proc, NEW c, MovesTo(p, c), NEW t \in Task, NEW h \in Hook,
           DueCall(c, t, h) => DueCall(call[p], t, h)
    PROVE  Cardinality(Due(t, h)') <= Cardinality(Due(t, h))
<1>1. Due(t, h)' \in {Due(t, h), Due(t, h) \ {p}}
      BY Moved DEF Due
<1>2. /\ Cardinality(Due(t, h) \ {p}) \in Nat /\ Cardinality(Due(t, h)) \in Nat
      /\ Cardinality(Due(t, h) \ {p}) <= Cardinality(Due(t, h))
      BY InsideCounted, ProcsCounted
<1>3. CASE Due(t, h)' = Due(t, h)
      BY <1>2, <1>3
<1>4. CASE Due(t, h)' = Due(t, h) \ {p}
      BY <1>2, <1>4
<1> QED BY <1>1, <1>3, <1>4

\* One count of one task is another.
Changed(f, u, g, n) == [f EXCEPT ![u][g] = n]

LEMMA CountChanged ==
    ASSUME NEW f \in HookCount, NEW u \in Task, NEW g \in Hook, NEW n \in Nat
    PROVE  /\ Changed(f, u, g, n) \in HookCount
           /\ \A t \in Task, h \in Hook :
                 Changed(f, u, g, n)[t][h] = IF t = u /\ h = g THEN n ELSE f[t][h]
<1>1. \A t \in Task : f[t] \in [Hook -> Nat]
      BY DEF HookCount
<1>2. /\ Changed(f, u, g, n)[u] = [f[u] EXCEPT ![g] = n]
      /\ Changed(f, u, g, n) = [t \in Task |-> Changed(f, u, g, n)[t]]
      /\ \A t \in Task \ {u} : Changed(f, u, g, n)[t] = f[t]
      BY DEF HookCount, Changed
<1>3. \A t \in Task : Changed(f, u, g, n)[t] \in [Hook -> Nat]
      BY <1>1, <1>2
<1>4. Changed(f, u, g, n) \in HookCount
      BY <1>2, <1>3 DEF HookCount
<1>5. \A t \in Task, h \in Hook :
          Changed(f, u, g, n)[t][h] = IF t = u /\ h = g THEN n ELSE f[t][h]
      BY <1>1, <1>2
<1> QED BY <1>4, <1>5

LEMMA CountUp ==
    ASSUME NEW f \in HookCount, NEW u \in Task, NEW g \in Hook
    PROVE  /\ Changed(f, u, g, f[u][g] + 1) \in HookCount
           /\ \A t \in Task, h \in Hook :
                 Changed(f, u, g, f[u][g] + 1)[t][h] = IF t = u /\ h = g THEN f[t][h] + 1 ELSE f[t][h]
<1>0. SUFFICES ASSUME NEW n, n = f[u][g] + 1
               PROVE  /\ Changed(f, u, g, n) \in HookCount
                      /\ \A t \in Task, h \in Hook :
                            Changed(f, u, g, n)[t][h] = IF t = u /\ h = g THEN f[t][h] + 1 ELSE f[t][h]
      OBVIOUS
<1>1. f[u] \in [Hook -> Nat]
      BY DEF HookCount
<1>2. n \in Nat
      BY <1>0, <1>1
<1>3. /\ Changed(f, u, g, n) \in HookCount
      /\ \A t \in Task, h \in Hook :
            Changed(f, u, g, n)[t][h] = IF t = u /\ h = g THEN n ELSE f[t][h]
      BY <1>2, CountChanged
<1>4. \A t \in Task, h \in Hook : t = u /\ h = g => n = f[t][h] + 1
      BY <1>0
<1> QED BY <1>3, <1>4

\* Where what is due does not grow, the counts stay in their order.
LEMMA PairedStays ==
    ASSUME HooksInv, NoHookRequests, NEW t \in Task, NEW m \in Nat, NEW n \in Nat,
           m <= Cardinality(Due(t, "merge")), n <= Cardinality(Due(t, "cleanup"))
    PROVE  /\ completed[t]["merge"] + m <= completed[t]["checkpoint"]
           /\ completed[t]["cleanup"] + n <= completed[t]["merge"]
<1>1. {"checkpoint", "merge", "cleanup"} = Hook
      BY DEF Hook
<1>2. completed[t] \in [Hook -> Nat]
      BY DEF HooksInv, TypeOK, HookCount
<1>3. /\ completed[t]["merge"] \in Nat /\ completed[t]["cleanup"] \in Nat
      /\ completed[t]["checkpoint"] \in Nat
      BY <1>1, <1>2
<1>4. /\ completed[t]["merge"] + Cardinality(Due(t, "merge")) <= completed[t]["checkpoint"]
      /\ completed[t]["cleanup"] + Cardinality(Due(t, "cleanup")) <= completed[t]["merge"]
      BY DEF HooksInv, HooksPaired
<1>5. Cardinality(Due(t, "merge")) \in Nat /\ Cardinality(Due(t, "cleanup")) \in Nat
      BY InsideCounted
<1> QED BY <1>3, <1>4, <1>5

LEMMA OpenStep ==
    ASSUME HooksInv, NEW p \in Proc, NEW c, NEW u, NEW g \in Hook, Opens(p, u, c, g)
    PROVE  HooksInv'
<1>1. /\ MovesTo(p, c) /\ TaskOf(p) = u /\ u \in Task /\ TablesSound' /\ completed' = completed
      /\ faults' = faults /\ faults \in Nat
      /\ running' = [running EXCEPT ![u][g] = @ + 1]
      BY DEF Opens, HooksInv, TypeOK
<1>2. /\ running' \in HookCount
      /\ \A t \in Task, h \in Hook :
            /\ running[t][h] \in Nat
            /\ running'[t][h] = IF t = u /\ h = g THEN running[t][h] + 1 ELSE running[t][h]
      <2>1. /\ running \in HookCount
            /\ \A t \in Task, h \in Hook : running[t][h] \in Nat
            BY DEF HooksInv, TypeOK, HookCount
      <2>2. u \in Task
            BY <1>1
      <2>3. running' = Changed(running, u, g, running[u][g] + 1)
            BY <1>1 DEF Changed
      <2> QED BY <2>1, <2>2, <2>3, CountUp
<1>3. TypeOK' /\ CallsShaped' /\ RowsShaped'
      <2>1. call' \in [Proc -> Call] /\ CallsShaped'
            BY <1>1, Moved
      <2> QED BY <1>1, <1>2, <2>1 DEF TablesSound, HooksInv, TypeOK
<1>4. HooksCounted'
      <2> SUFFICES ASSUME NEW t \in Task, NEW h \in Hook
                   PROVE  /\ Cardinality(Inside(t, h)') <= running'[t][h]
                          /\ running'[t][h] <= faults + Cardinality(Inside(t, h)')
          BY <1>1 DEF HooksCounted
      <2>1. /\ Cardinality(Inside(t, h)) <= running[t][h]
            /\ running[t][h] <= faults + Cardinality(Inside(t, h))
            /\ Cardinality(Inside(t, h)) \in Nat
            BY InsideCounted DEF HooksInv, HooksCounted
      <2>2. CASE t = u /\ h = g
            <3>1. Inside(t, h)' = Inside(t, h) \cup {p} /\ p \notin Inside(t, h)
                  BY <1>1, <2>2, Moved DEF Opens, Inside
            <3>2. Cardinality(Inside(t, h)') = Cardinality(Inside(t, h)) + 1
                  BY <3>1, InsideCounted, ProcsCounted
            <3> QED BY <1>1, <1>2, <2>1, <2>2, <3>2
      <2>3. CASE ~(t = u /\ h = g)
            <3>1. Inside(t, h)' = Inside(t, h)
                  BY <1>1, <2>3, Moved DEF Opens, Inside
            <3>2. running'[t][h] = running[t][h]
                  BY <1>2, <2>3
            <3> QED BY <2>1, <3>1, <3>2
      <2> QED BY <2>2, <2>3
<1>5. HooksPaired'
      <2> SUFFICES ASSUME NoHookRequests, NEW t \in Task
                   PROVE  /\ completed[t]["merge"] + Cardinality(Due(t, "merge")')
                                <= completed[t]["checkpoint"]
                          /\ completed[t]["cleanup"] + Cardinality(Due(t, "cleanup")')
                                <= completed[t]["merge"]
          BY <1>1 DEF HooksPaired
      <2>1. /\ Cardinality(Due(t, "merge")') <= Cardinality(Due(t, "merge"))
            /\ Cardinality(Due(t, "cleanup")') <= Cardinality(Due(t, "cleanup"))
            <3>1. \A h \in Hook : Cardinality(Due(t, h)') <= Cardinality(Due(t, h))
                  BY <1>1, DueShrinks DEF Opens
            <3> QED BY <3>1 DEF Hook
      <2>2. Cardinality(Due(t, "merge")') \in Nat /\ Cardinality(Due(t, "cleanup")') \in Nat
            BY InsideCountedNext
      <2> QED BY <2>1, <2>2, PairedStays
<1> QED BY <1>3, <1>4, <1>5 DEF HooksInv

LEMMA CloseStep ==
    ASSUME HooksInv, NEW p \in Proc, NEW c, NEW u, NEW g \in Hook, Closes(p, u, c, g)
    PROVE  HooksInv'
<1>1. /\ MovesTo(p, c) /\ TaskOf(p) = u /\ u \in Task /\ TablesSound' /\ faults' = faults /\ faults \in Nat
      /\ running' = [running EXCEPT ![u][g] = @ - 1]
      /\ completed' = [completed EXCEPT ![u][g] = @ + 1]
      BY DEF Closes, HooksInv, TypeOK
<1>2. \A t \in Task, h \in Hook :
          /\ running[t][h] \in Nat /\ completed[t][h] \in Nat
          /\ Cardinality(Inside(t, h)) <= running[t][h]
          /\ running[t][h] <= faults + Cardinality(Inside(t, h))
          /\ Cardinality(Inside(t, h)) \in Nat
      BY InsideCounted DEF HooksInv, HooksCounted, TypeOK, HookCount
<1>3. /\ p \in Inside(u, g)
      /\ Inside(u, g)' = Inside(u, g) \ {p}
      BY <1>1, Moved DEF Closes, Inside
<1>4. /\ Cardinality(Inside(u, g)) >= 1
      /\ Cardinality(Inside(u, g) \ {p}) = Cardinality(Inside(u, g)) - 1
      BY <1>3, InsideCounted, ProcsCounted
<1>5. running[u][g] - 1 \in Nat
      BY <1>1, <1>2, <1>4
<1>6. /\ running' \in HookCount /\ completed' \in HookCount
      /\ \A t \in Task, h \in Hook :
            /\ running'[t][h] = IF t = u /\ h = g THEN running[t][h] - 1 ELSE running[t][h]
            /\ completed'[t][h] =
                  IF t = u /\ h = g THEN completed[t][h] + 1 ELSE completed[t][h]
      <2>1. running \in HookCount /\ completed \in HookCount
            BY DEF HooksInv, TypeOK
      <2> DEFINE less == running[u][g] - 1
      <2>2. running' = Changed(running, u, g, less)
            BY <1>1 DEF Changed
      <2>3. less \in Nat
            BY <1>5
      <2>4. completed' = Changed(completed, u, g, completed[u][g] + 1)
            BY <1>1 DEF Changed
      <2>5. u \in Task
            BY <1>1
      <2>6. /\ running' \in HookCount
            /\ \A t \in Task, h \in Hook :
                  running'[t][h] = IF t = u /\ h = g THEN less ELSE running[t][h]
            <3> HIDE DEF less
            <3> QED BY <2>1, <2>2, <2>3, <2>5, CountChanged
      <2>7. /\ completed' \in HookCount
            /\ \A t \in Task, h \in Hook :
                  completed'[t][h] = IF t = u /\ h = g THEN completed[t][h] + 1 ELSE completed[t][h]
            BY <2>1, <2>4, <2>5, CountUp
      <2> QED BY <2>6, <2>7
<1>7. TypeOK' /\ CallsShaped' /\ RowsShaped'
      <2>1. call' \in [Proc -> Call] /\ CallsShaped'
            BY <1>1, Moved
      <2> QED BY <1>1, <1>6, <2>1 DEF TablesSound, HooksInv, TypeOK
<1>8. HooksCounted'
      <2> SUFFICES ASSUME NEW t \in Task, NEW h \in Hook
                   PROVE  /\ Cardinality(Inside(t, h)') <= running'[t][h]
                          /\ running'[t][h] <= faults + Cardinality(Inside(t, h)')
          BY <1>1 DEF HooksCounted
      <2>1. CASE t = u /\ h = g
            <3>1. Cardinality(Inside(t, h)') = Cardinality(Inside(t, h)) - 1
                  BY <1>3, <1>4, <2>1
            <3>2. running'[t][h] = running[t][h] - 1
                  BY <1>6, <2>1
            <3> QED BY <1>1, <1>2, <3>1, <3>2
      <2>2. CASE ~(t = u /\ h = g)
            <3>1. Inside(t, h)' = Inside(t, h)
                  BY <1>1, <2>2, Moved DEF Closes, Inside
            <3>2. running'[t][h] = running[t][h]
                  BY <1>6, <2>2
            <3> QED BY <1>2, <3>1, <3>2
      <2> QED BY <2>1, <2>2
<1>9. HooksPaired'
      <2> SUFFICES ASSUME NoHookRequests, NEW t \in Task
                   PROVE  /\ completed'[t]["merge"] + Cardinality(Due(t, "merge")')
                                <= completed'[t]["checkpoint"]
                          /\ completed'[t]["cleanup"] + Cardinality(Due(t, "cleanup")')
                                <= completed'[t]["merge"]
          BY DEF HooksPaired
      <2>1. {"checkpoint", "merge", "cleanup"} = Hook
            BY DEF Hook
      <2>2. /\ Cardinality(Due(t, "merge")') \in Nat /\ Cardinality(Due(t, "merge")) \in Nat
            /\ Cardinality(Due(t, "cleanup")') \in Nat /\ Cardinality(Due(t, "cleanup")) \in Nat
            BY InsideCounted, InsideCountedNext
      <2>3. /\ completed[t]["merge"] + Cardinality(Due(t, "merge")) <= completed[t]["checkpoint"]
            /\ completed[t]["cleanup"] + Cardinality(Due(t, "cleanup")) <= completed[t]["merge"]
            BY DEF HooksInv, HooksPaired
      <2>4. /\ completed[t]["merge"] \in Nat /\ completed[t]["cleanup"] \in Nat
            /\ completed[t]["checkpoint"] \in Nat
            BY <1>2, <2>1
      <2>5. \A h \in Hook :
                completed'[t][h] = IF t = u /\ h = g THEN completed[t][h] + 1
                                   ELSE completed[t][h]
            BY <1>6
      <2>6. ASSUME NEW h \in Hook,
                   ~(t = u /\ <<g, h>> \in {<<"checkpoint", "merge">>, <<"merge", "cleanup">>})
            PROVE  Cardinality(Due(t, h)') <= Cardinality(Due(t, h))
            BY <1>1, <2>6, DueShrinks DEF Closes
      <2>7. ASSUME g # "checkpoint", t = u
            PROVE  Cardinality(Due(t, g)') = Cardinality(Due(t, g)) - 1
            <3>1. ~DueCall(c, t, g) /\ p \in Due(t, g)
                  BY <2>1, <2>7 DEF Closes, Due
            <3>2. Due(t, g)' = Due(t, g) \ {p}
                  BY <1>1, <3>1, Moved
            <3> QED BY <3>1, <3>2, InsideCounted, ProcsCounted
      <2>8. ASSUME NEW h \in Hook, h # g
            PROVE  Cardinality(Due(t, h)') <= Cardinality(Due(t, h)) + 1
            <3>1. p \notin Due(t, h) /\ Cardinality(Due(t, h)) \in Nat
                  BY <2>8, InsideCounted DEF Closes, Due
            <3>2. CASE Due(t, h)' = Due(t, h) \cup {p}
                  BY <3>1, <3>2, InsideCounted, ProcsCounted
            <3>3. CASE Due(t, h)' = Due(t, h) \ {p}
                  <4>1. Due(t, h)' = Due(t, h)
                        BY <3>1, <3>3
                  <4> QED BY <3>1, <4>1
            <3> QED BY <1>1, <3>2, <3>3, Moved
      <2>9. CASE t # u
            <3>1. /\ Cardinality(Due(t, "merge")') <= Cardinality(Due(t, "merge"))
                  /\ Cardinality(Due(t, "cleanup")') <= Cardinality(Due(t, "cleanup"))
                  BY <2>1, <2>6, <2>9
            <3>2. \A h \in Hook : completed'[t][h] = completed[t][h]
                  BY <2>5, <2>9
            <3> QED BY <2>1, <2>2, <3>1, <3>2, PairedStays
      <2>10. CASE t = u /\ g = "checkpoint"
            <3>1. Cardinality(Due(t, "merge")') <= Cardinality(Due(t, "merge")) + 1
                  BY <2>1, <2>8, <2>10
            <3>2. Cardinality(Due(t, "cleanup")') <= Cardinality(Due(t, "cleanup"))
                  BY <2>1, <2>6, <2>10
            <3>3. /\ completed'[t]["checkpoint"] = completed[t]["checkpoint"] + 1
                  /\ completed'[t]["merge"] = completed[t]["merge"]
                  /\ completed'[t]["cleanup"] = completed[t]["cleanup"]
                  BY <2>1, <2>5, <2>10
            <3> QED BY <2>2, <2>3, <2>4, <3>1, <3>2, <3>3
      <2>11. CASE t = u /\ g = "merge"
            <3>1. Cardinality(Due(t, "merge")') = Cardinality(Due(t, "merge")) - 1
                  BY <2>7, <2>11
            <3>2. Cardinality(Due(t, "cleanup")') <= Cardinality(Due(t, "cleanup")) + 1
                  BY <2>1, <2>8, <2>11
            <3>3. /\ completed'[t]["checkpoint"] = completed[t]["checkpoint"]
                  /\ completed'[t]["merge"] = completed[t]["merge"] + 1
                  /\ completed'[t]["cleanup"] = completed[t]["cleanup"]
                  BY <2>1, <2>5, <2>11
            <3> QED BY <2>2, <2>3, <2>4, <3>1, <3>2, <3>3
      <2>12. CASE t = u /\ g = "cleanup"
            <3>1. Cardinality(Due(t, "cleanup")') = Cardinality(Due(t, "cleanup")) - 1
                  BY <2>7, <2>12
            <3>2. Cardinality(Due(t, "merge")') <= Cardinality(Due(t, "merge"))
                  BY <2>1, <2>6, <2>12
            <3>3. /\ completed'[t]["checkpoint"] = completed[t]["checkpoint"]
                  /\ completed'[t]["merge"] = completed[t]["merge"]
                  /\ completed'[t]["cleanup"] = completed[t]["cleanup"] + 1
                  BY <2>1, <2>5, <2>12
            <3> QED BY <2>2, <2>3, <2>4, <3>1, <3>2, <3>3
      <2> QED BY <2>1, <2>9, <2>10, <2>11, <2>12
<1> QED BY <1>7, <1>8, <1>9 DEF HooksInv

-----------------------------------------------------------------------------
(* Every step is one of these.                                             *)

\* The call with another step and another worktree id.
Stepped(c, s, w) == [c EXCEPT !.step = s, !.wt = w]

\* The steps are told apart by what a process may do there.
Region(s) ==
    CASE s \in Hooking                     -> "hook"
      [] s \in Hopeful \ Hooking           -> "hopeful"
      [] s \in {"abort", "report", "fail"}  -> "failing"
      [] OTHER                             -> "other"

LEMMA SteppedShaped ==
    ASSUME HooksInv, NEW p \in Proc, ~At(p, "idle"), NEW s \in Step \ {"idle"},
           NEW w \in Worktree \cup {None},
           s \in Hopeful => At(p, s) \/ call[p].step \in Hopeful,
           s \in {"abort", "report", "fail"} => call[p].kind = "run" /\ call[p].final = "blocked",
           call[p].kind = "remove" => s = "mark",
           s \in Hooking => call[p].step \in Hooking \/ call[p].kind \in {"run", "done"}
    PROVE  /\ ShapedCall(p, Stepped(call[p], s, w))
           /\ Stepped(call[p], s, w).step = s /\ Stepped(call[p], s, w).wt = w
           /\ Stepped(call[p], s, w).task = TaskOf(p)
           /\ Stepped(call[p], s, w).kind = call[p].kind
           /\ Stepped(call[p], s, w).final = call[p].final
<1>1. call[p] \in Call /\ ShapedCall(p, call[p])
      BY DEF HooksInv, TypeOK, CallsShaped
<1>2. /\ Stepped(call[p], s, w) \in Call
      /\ Stepped(call[p], s, w).step = s /\ Stepped(call[p], s, w).wt = w
      /\ Stepped(call[p], s, w).task = TaskOf(p)
      /\ Stepped(call[p], s, w).kind = call[p].kind
      /\ Stepped(call[p], s, w).final = call[p].final
      BY <1>1 DEF Call, Stepped, TaskOf
<1>3. ShapedCall(p, Stepped(call[p], s, w))
      BY <1>1, <1>2 DEF ShapedCall, At, TaskOf
<1> QED BY <1>2, <1>3

LEMMA ThenSteps ==
    ASSUME HooksInv, NEW p \in Proc, NEW s
    PROVE  /\ call[p].wt \in Worktree \cup {None}
           /\ [call[p] EXCEPT !.step = s] = Stepped(call[p], s, call[p].wt)
<1>1. call[p] \in Call
      BY DEF HooksInv, TypeOK
<1> QED BY <1>1 DEF Stepped, Call

LEMMA IdleShaped == ASSUME NEW p \in Proc PROVE ShapedCall(p, IdleCall)
BY DEF ShapedCall, IdleCall, Call, Step, Preparing, Working, Hooking, Closing, Hopeful

\* Where the process does not touch the tables but in the rows it knows of.
RowsTouched(p) ==
    /\ \/ worktree' = worktree
       \/ \E s \in WorktreeStatus \ {"absent"} : SetWorktree(p, s)
    /\ context' = context \/ \E s \in ContextStatus : SetContext(p, s)

\* No row goes away, and none changes its task.
RowsGrow ==
    \A w \in Worktree :
        worktree[w].status # "absent" =>
            worktree'[w].status # "absent" /\ worktree'[w].task = worktree[w].task

LEMMA RowsStay ==
    ASSUME HooksInv, NEW p \in Proc, NEW c, MovesTo(p, c), RowsTouched(p),
           c.wt = None \/ c.wt = call[p].wt \/ \E t \in Task : c.wt = context[t].worktree
    PROVE  /\ context' \in [Task -> ContextRow] /\ worktree' \in [Worktree -> WorktreeRow]
           /\ RowsShaped'
<1>1. /\ context \in [Task -> ContextRow] /\ worktree \in [Worktree -> WorktreeRow]
      /\ call \in [Proc -> Call] /\ call[p] \in Call /\ RowsShaped
      BY DEF HooksInv, TypeOK
<1>2. worktree' \in [Worktree -> WorktreeRow] /\ RowsGrow
      <2>1. CASE worktree' = worktree
            BY <1>1, <2>1 DEF RowsGrow
      <2>2. ASSUME NEW s \in WorktreeStatus \ {"absent"}, SetWorktree(p, s)
            PROVE  worktree' \in [Worktree -> WorktreeRow] /\ RowsGrow
            BY <1>1, <2>2 DEF SetWorktree, WorktreeRow, RowsGrow
      <2> QED BY <2>1, <2>2 DEF RowsTouched
<1>3. \A w \in Worktree : worktree'[w].status # "absent" => worktree'[w].task \in Task
      <2>1. CASE worktree' = worktree
            BY <1>1, <2>1 DEF RowsShaped
      <2>2. ASSUME NEW s \in WorktreeStatus \ {"absent"}, SetWorktree(p, s),
                   call[p].wt # None
            PROVE  \A w \in Worktree : worktree'[w].status # "absent" => worktree'[w].task \in Task
            BY <1>1, <2>2 DEF SetWorktree, WorktreeRow, RowsShaped, Known
      <2>3. ASSUME NEW s \in WorktreeStatus \ {"absent"}, SetWorktree(p, s),
                   call[p].wt = None
            PROVE  worktree' = worktree
            BY <1>1, <2>3, ConstantsAssumption DEF SetWorktree
      <2> QED BY <2>1, <2>2, <2>3 DEF RowsTouched
<1>4. \A w \in Worktree \cup {None} : Known(w) => (w # None => worktree'[w].status # "absent")
      BY <1>2 DEF Known, RowsGrow
<1>5. /\ context' \in [Task -> ContextRow]
      /\ \A t \in Task : context'[t].worktree # None => worktree'[context'[t].worktree].status # "absent"
      <2>1. \A t \in Task : context[t].worktree \in Worktree \cup {None} /\ Known(context[t].worktree)
            BY <1>1 DEF ContextRow, RowsShaped
      <2>2. call[p].wt \in Worktree \cup {None} /\ Known(call[p].wt)
            BY <1>1 DEF Call, RowsShaped
      <2>3. CASE context' = context
            BY <1>1, <1>4, <2>1, <2>3
      <2>4. ASSUME NEW s \in ContextStatus, SetContext(p, s)
            PROVE  /\ context' \in [Task -> ContextRow]
                   /\ \A t \in Task :
                         context'[t].worktree # None => worktree'[context'[t].worktree].status # "absent"
            <3>1. context' \in [Task -> ContextRow]
                  BY <1>1, <2>2, <2>4 DEF SetContext, ContextRow
            <3>2. \A t \in Task : context'[t].worktree \in {context[t].worktree, call[p].wt}
                  BY <1>1, <2>4 DEF SetContext
            <3> QED BY <1>4, <2>1, <2>2, <3>1, <3>2
      <2> QED BY <2>3, <2>4 DEF RowsTouched
<1>6. \A q \in Proc : call'[q].wt # None => worktree'[call'[q].wt].status # "absent"
      <2>1. /\ call'[p] = c /\ \A q \in Proc \ {p} : call'[q] = call[q]
            BY Moved
      <2>2. \A q \in Proc : call[q].wt \in Worktree \cup {None} /\ Known(call[q].wt)
            BY <1>1 DEF Call, RowsShaped
      <2>3. \A t \in Task : context[t].worktree \in Worktree \cup {None} /\ Known(context[t].worktree)
            BY <1>1 DEF ContextRow, RowsShaped
      <2>4. c.wt # None => worktree'[c.wt].status # "absent"
            BY <1>4, <2>2, <2>3
      <2> QED BY <1>4, <2>1, <2>2, <2>4
<1> QED BY <1>2, <1>3, <1>5, <1>6 DEF RowsShaped, Known

\* The other tables have their types.
OthersSound ==
    /\ status \in [Task -> TaskStatus]
    /\ agent \in [Owner -> AgentRow]
    /\ folder \in [Task -> Folder]
    /\ output \in [Task -> Runner \cup {None}]
    /\ merged \in [Task -> Runner \cup {None}]
    /\ requests \in Nat

\* No hook is opened or completed, and nothing fails.
Quiet == running' = running /\ completed' = completed /\ faults' = faults

\* A process may go from one step to the other without a hook.
Smooth(old, new) ==
    \A h \in Hook : /\ old \in InHook(h) => new \in InHook(h)
                    /\ new \in InHook(h) => old \in InHook(h)
                    /\ new \in DueSteps(h) => old \in DueSteps(h)

\* It may be at the other with the request it has.
MayStep(p, s) ==
    /\ s \in Step \ {"idle"}
    /\ s \in Hopeful => At(p, s) \/ call[p].step \in Hopeful
    /\ s \in {"abort", "report", "fail"} => call[p].kind = "run" /\ call[p].final = "blocked"
    /\ call[p].kind = "remove" => s = "mark"
    /\ s \in Hooking => call[p].step \in Hooking \/ call[p].kind \in {"run", "done"}

LEMMA SmoothCalls ==
    ASSUME NEW x, NEW y, Smooth(x.step, y.step), x.task = y.task, x.kind = y.kind,
           NEW t \in Task, NEW h \in Hook
    PROVE  /\ InsideCall(x, t, h) <=> InsideCall(y, t, h)
           /\ DueCall(y, t, h) => DueCall(x, t, h)
BY DEF Smooth, InsideCall, DueCall

LEMMA StepCalm ==
    ASSUME HooksInv, NEW p \in Proc, ~At(p, "idle"), NEW s, NEW w,
           MayStep(p, s), Smooth(call[p].step, s),
           w = call[p].wt \/ \E t \in Task : w = context[t].worktree,
           Goto(p, Stepped(call[p], s, w)), Quiet, OthersSound', RowsTouched(p)
    PROVE  HooksInv'
<1>1. w \in Worktree \cup {None}
      BY DEF HooksInv, TypeOK, Call, ContextRow
<1>2. /\ ShapedCall(p, Stepped(call[p], s, w))
      /\ Stepped(call[p], s, w).step = s /\ Stepped(call[p], s, w).wt = w
      /\ Stepped(call[p], s, w).task = TaskOf(p)
      /\ Stepped(call[p], s, w).kind = call[p].kind
      BY <1>1, SteppedShaped DEF MayStep
<1> DEFINE c == Stepped(call[p], s, w)
<1> HIDE DEF c
<1>3. /\ MovesTo(p, c) /\ c.step = s /\ c.wt = w /\ c.task = TaskOf(p) /\ c.kind = call[p].kind
      BY <1>2 DEF c, MovesTo, Goto
<1>4. TablesSound'
      <2>1. /\ context' \in [Task -> ContextRow] /\ worktree' \in [Worktree -> WorktreeRow]
            /\ RowsShaped'
            BY <1>3, RowsStay
      <2> QED BY <2>1 DEF TablesSound, OthersSound
<1>5. \A t \in Task, h \in Hook :
          /\ InsideCall(call[p], t, h) <=> InsideCall(c, t, h)
          /\ DueCall(c, t, h) => DueCall(call[p], t, h)
      BY <1>3, SmoothCalls DEF TaskOf
<1>6. Calm(p, c)
      BY <1>3, <1>4, <1>5 DEF Calm, Quiet
<1> QED BY <1>6, CalmStep

LEMMA ThenCalm ==
    ASSUME HooksInv, NEW p \in Proc, ~At(p, "idle"), NEW s,
           MayStep(p, s), Smooth(call[p].step, s), Then(p, s), Quiet, OthersSound', RowsTouched(p)
    PROVE  HooksInv'
<1>1. Goto(p, Stepped(call[p], s, call[p].wt))
      BY ThenSteps DEF Then, Goto
<1> QED BY <1>1, StepCalm

LEMMA ReturnCalm ==
    ASSUME HooksInv, NEW p \in Proc, Return(p), Quiet, OthersSound', RowsTouched(p),
           call[p].kind = "remove" \/ \A h \in Hook : call[p].step \notin InHook(h)
    PROVE  HooksInv'
<1>1. MovesTo(p, IdleCall) /\ IdleCall.wt = None
      BY IdleShaped DEF Return, Goto, MovesTo, IdleCall
<1>2. TablesSound'
      <2>1. /\ context' \in [Task -> ContextRow] /\ worktree' \in [Worktree -> WorktreeRow]
            /\ RowsShaped'
            BY <1>1, RowsStay
      <2> QED BY <2>1 DEF TablesSound, OthersSound
<1>3. \A t \in Task, h \in Hook : ~InsideCall(IdleCall, t, h) /\ ~DueCall(IdleCall, t, h)
      BY DEF InsideCall, DueCall, IdleCall, InHook, DueSteps, Hook
<1>4. Calm(p, IdleCall)
      BY <1>1, <1>2, <1>3 DEF Calm, Quiet, InsideCall
<1> QED BY <1>4, CalmStep

\* What follows when an operation raises, or the pipeline is over, is in no hook.
LEMMA RaisedMoves ==
    ASSUME HooksInv, NEW p \in Proc, ~At(p, "idle"), Raised(p)
    PROVE  \E c : /\ MovesTo(p, c) /\ (c.wt = None \/ c.wt = call[p].wt)
                  /\ \A t \in Task, h \in Hook : ~InsideCall(c, t, h) /\ ~DueCall(c, t, h)
<1>1. call[p] \in Call /\ ShapedCall(p, call[p])
      BY DEF HooksInv, TypeOK, CallsShaped
<1>2. CASE Return(p)
      <2>1. MovesTo(p, IdleCall)
            BY <1>2, IdleShaped DEF Return, Goto, MovesTo
      <2>2. \A t \in Task, h \in Hook : ~InsideCall(IdleCall, t, h) /\ ~DueCall(IdleCall, t, h)
            BY DEF InsideCall, DueCall, IdleCall, InHook, DueSteps, Hook
      <2> QED BY <2>1, <2>2 DEF IdleCall
<1>3. CASE call[p].kind = "run" /\ call[p].step \in Hooking /\ Then(p, "emit")
      <2> DEFINE c == [call[p] EXCEPT !.step = "emit"]
      <2>1. c = Stepped(call[p], "emit", call[p].wt) /\ call[p].wt \in Worktree \cup {None}
            BY ThenSteps
      <2> HIDE DEF c
      <2>2. ShapedCall(p, c) /\ c.step = "emit" /\ c.wt = call[p].wt
            BY <1>3, <2>1, SteppedShaped DEF At, Step, Working, Hopeful, Hooking
      <2>3. \A t \in Task, h \in Hook : ~InsideCall(c, t, h) /\ ~DueCall(c, t, h)
            BY <2>2 DEF InsideCall, DueCall, InHook, DueSteps, Hook
      <2>4. MovesTo(p, c)
            BY <1>3, <2>2 DEF Then, Goto, MovesTo, c
      <2> QED BY <2>2, <2>3, <2>4
<1>4. CASE /\ call[p].kind = "run"
           /\ Goto(p, [call[p] EXCEPT !.step = "abort", !.final = "blocked"])
      <2> DEFINE c == [call[p] EXCEPT !.step = "abort", !.final = "blocked"]
      <2>1. /\ c \in Call /\ c.step = "abort" /\ c.final = "blocked" /\ c.wt = call[p].wt
            /\ c.kind = "run" /\ c.task = call[p].task
            BY <1>1, <1>4 DEF Call, Step, Closing
      <2> HIDE DEF c
      <2>2. ShapedCall(p, c)
            BY <1>1, <1>4, <2>1 DEF ShapedCall, At, Hopeful, Preparing, Working, Hooking
      <2>3. \A t \in Task, h \in Hook : ~InsideCall(c, t, h) /\ ~DueCall(c, t, h)
            BY <2>1 DEF InsideCall, DueCall, InHook, DueSteps, Hook
      <2>4. MovesTo(p, c)
            BY <1>4, <2>2 DEF Goto, MovesTo, c
      <2> QED BY <2>1, <2>3, <2>4
<1> QED BY <1>2, <1>3, <1>4 DEF Raised, AfterPipeline, InPipeline, Tried

\* A step that goes on as after a failure, but out of no hook.
LEMMA RaisedCalm ==
    ASSUME HooksInv, NEW p \in Proc, ~At(p, "idle"), Raised(p), OthersSound', RowsTouched(p),
           running' = running, completed' = completed,
           \/ faults' = faults + 1
           \/ faults' = faults /\ \A h \in Hook : call[p].step \notin InHook(h)
    PROVE  HooksInv'
<1>1. PICK c : /\ MovesTo(p, c) /\ (c.wt = None \/ c.wt = call[p].wt)
               /\ \A t \in Task, h \in Hook : ~InsideCall(c, t, h) /\ ~DueCall(c, t, h)
      BY RaisedMoves
<1>2. TablesSound'
      <2>1. /\ context' \in [Task -> ContextRow] /\ worktree' \in [Worktree -> WorktreeRow]
            /\ RowsShaped'
            BY <1>1, RowsStay
      <2> QED BY <2>1 DEF TablesSound, OthersSound
<1>3. Calm(p, c)
      BY <1>1, <1>2 DEF Calm, InsideCall
<1> QED BY <1>3, CalmStep

-----------------------------------------------------------------------------
(* The actions, one by one.                                                *)

\* A step that leaves the tables alone, but for the rows it knows of.
LEMMA RowsOnly ==
    ASSUME HooksInv, UNCHANGED <<status, agent, output, folder, merged, requests>>
    PROVE  OthersSound'
BY DEF HooksInv, TypeOK, OthersSound

LEMMA CallTyped ==
    ASSUME HooksInv, NEW p \in Proc
    PROVE  /\ call[p] \in Call /\ ShapedCall(p, call[p])
           /\ ~At(p, "idle") => TaskOf(p) \in Task
BY DEF HooksInv, TypeOK, CallsShaped, ShapedCall, At, TaskOf

\* The steps that follow one another with no hook opened or completed.
Successors ==
    {<<"claimed", "lookup">>, <<"lookup", "make">>, <<"lookup", "activate">>, <<"make", "insert">>,
     <<"insert", "bind">>, <<"bind", "activate">>, <<"activate", "start">>, <<"start", "work">>,
     <<"work", "register">>, <<"register", "complete">>, <<"emit", "settle">>,
     <<"settle", "finalize">>, <<"finalize", "release">>, <<"abort", "release">>,
     <<"abort", "report">>, <<"release", "close">>, <<"report", "fail">>,
     <<"pipeline", "checkpoint">>, <<"pipeline", "emit">>, <<"copy", "merging">>, <<"remove", "mark">>,
     <<"unbind", "cleaning">>}

LEMMA SuccessorsSmooth == \A pair \in Successors : Smooth(pair[1], pair[2])
BY DEF Successors, Smooth, Hook, InHook, DueSteps

LEMMA SuccessorsMay ==
    ASSUME HooksInv, NEW p \in Proc, NEW s, <<call[p].step, s>> \in Successors
    PROVE  MayStep(p, s)
<1>1. ShapedCall(p, call[p])
      BY CallTyped
<1>2. /\ s \in Step \ {"idle"}
      /\ s \in Hopeful => At(p, s) \/ call[p].step \in Hopeful
      BY DEF Successors, Step, Hopeful, Preparing, Working, Hooking, Closing
<1>3. s \in {"abort", "report", "fail"} => call[p].step \in {"abort", "report"}
      BY DEF Successors
<1>4. call[p].step \in {"remove", "mark"} => s = "mark"
      BY DEF Successors
<1>5. s \in Hooking => call[p].step \in Hooking
      BY DEF Successors, Hooking
<1> QED BY <1>1, <1>2, <1>3, <1>4, <1>5 DEF MayStep, ShapedCall

LEMMA NextCalm ==
    ASSUME HooksInv, NEW p \in Proc, NEW s, <<call[p].step, s>> \in Successors,
           Then(p, s), Quiet, OthersSound', RowsTouched(p)
    PROVE  HooksInv'
<1>1. Smooth(call[p].step, s)
      BY SuccessorsSmooth
<1>2. MayStep(p, s)
      BY SuccessorsMay
<1>3. ~At(p, "idle")
      BY DEF Successors, At
<1> QED BY <1>1, <1>2, <1>3, ThenCalm

LEMMA LookUpContextSafe ==
    ASSUME HooksInv, NEW p \in Proc, LookUpContext(p)
    PROVE  HooksInv'
<1>1. /\ call[p].step = "lookup" /\ ~At(p, "idle") /\ TaskOf(p) \in Task
      /\ Quiet /\ OthersSound' /\ RowsTouched(p)
      BY RowsOnly, CallTyped DEF LookUpContext, At, rows, files, bounds, Quiet, RowsTouched
<1>2. CASE Then(p, "make")
      BY <1>1, <1>2, NextCalm DEF Successors
<1>3. CASE Goto(p, Stepped(call[p], "activate", context[TaskOf(p)].worktree))
      <2>1. MayStep(p, "activate") /\ Smooth("lookup", "activate")
            BY <1>1, SuccessorsMay, SuccessorsSmooth DEF Successors
      <2> QED BY <1>1, <1>3, <2>1, StepCalm
<1>4. CASE Return(p)
      BY <1>1, <1>4, ReturnCalm DEF Hook, InHook
<1> QED BY <1>2, <1>3, <1>4 DEF LookUpContext, Stepped

LEMMA MakeFolderSafe ==
    ASSUME HooksInv, NEW p \in Proc, MakeFolder(p)
    PROVE  HooksInv'
<1>1. call[p].step = "make" /\ Quiet /\ RowsTouched(p)
      BY DEF MakeFolder, At, rows, bounds, Quiet, RowsTouched
<1>2. folder' \in [Task -> Folder]
      BY DEF MakeFolder, HooksInv, TypeOK, Folder
<1>3. OthersSound'
      BY <1>2 DEF MakeFolder, rows, bounds, HooksInv, TypeOK, OthersSound
<1> QED BY <1>1, <1>3, NextCalm DEF MakeFolder, Successors

LEMMA InsertWorktreeSafe ==
    ASSUME HooksInv, NEW p \in Proc, InsertWorktree(p)
    PROVE  HooksInv'
<1>1. PICK w \in Worktree :
          /\ worktree[w].status = "absent"
          /\ worktree' = [worktree EXCEPT ![w] = [status |-> "prepared", task |-> TaskOf(p)]]
          /\ Goto(p, Stepped(call[p], "bind", w))
      BY DEF InsertWorktree, Stepped
<1>2. /\ call[p].step = "insert" /\ ~At(p, "idle") /\ TaskOf(p) \in Task
      /\ Quiet /\ OthersSound' /\ context' = context
      BY RowsOnly, CallTyped DEF InsertWorktree, At, files, bounds, Quiet
<1>3. MayStep(p, "bind") /\ Smooth("insert", "bind")
      BY <1>2, SuccessorsMay, SuccessorsSmooth DEF Successors
<1> DEFINE c == Stepped(call[p], "bind", w)
<1>4. /\ ShapedCall(p, c) /\ c.step = "bind" /\ c.wt = w
      /\ c.task = TaskOf(p) /\ c.kind = call[p].kind
      BY <1>2, <1>3, SteppedShaped DEF MayStep
<1> HIDE DEF c
<1>5. MovesTo(p, c)
      BY <1>1, <1>4 DEF c, MovesTo, Goto
<1>6. worktree' \in [Worktree -> WorktreeRow] /\ context' \in [Task -> ContextRow]
      BY <1>1, <1>2 DEF HooksInv, TypeOK, WorktreeRow, WorktreeStatus
<1>7. RowsShaped'
      <2>1. /\ worktree'[w] = [status |-> "prepared", task |-> TaskOf(p)]
            /\ \A v \in Worktree \ {w} : worktree'[v] = worktree[v]
            BY <1>1 DEF HooksInv, TypeOK
      <2>2. \A v \in Worktree : worktree'[v].status # "absent" => worktree'[v].task \in Task
            BY <1>2, <2>1 DEF HooksInv, RowsShaped
      <2>3. \A v \in Worktree \cup {None} :
                Known(v) => (v # None => worktree'[v].status # "absent")
            BY <2>1 DEF Known
      <2>4. \A t \in Task : context'[t].worktree # None =>
                                worktree'[context'[t].worktree].status # "absent"
            BY <1>2, <2>3 DEF HooksInv, TypeOK, ContextRow, RowsShaped
      <2>5. \A q \in Proc : call'[q].wt # None => worktree'[call'[q].wt].status # "absent"
            <3>1. /\ call'[p] = c /\ \A q \in Proc \ {p} : call'[q] = call[q]
                  BY <1>5, Moved
            <3>2. \A q \in Proc : call[q].wt \in Worktree \cup {None} /\ Known(call[q].wt)
                  BY DEF HooksInv, TypeOK, Call, RowsShaped
            <3> QED BY <1>4, <2>1, <2>3, <3>1, <3>2
      <2> QED BY <2>2, <2>4, <2>5 DEF RowsShaped, Known
<1>8. \A t \in Task, h \in Hook :
          /\ InsideCall(call[p], t, h) <=> InsideCall(c, t, h)
          /\ DueCall(c, t, h) => DueCall(call[p], t, h)
      BY <1>2, <1>3, <1>4, SmoothCalls DEF TaskOf
<1>9. TablesSound'
      BY <1>2, <1>6, <1>7 DEF TablesSound, OthersSound
<1>10. Calm(p, c)
      BY <1>2, <1>5, <1>8, <1>9 DEF Calm, Quiet
<1> QED BY <1>10, CalmStep

LEMMA BindContextSafe ==
    ASSUME HooksInv, NEW p \in Proc, BindContext(p)
    PROVE  HooksInv'
<1>1. /\ call[p].step = "bind" /\ ~At(p, "idle")
      /\ Quiet /\ OthersSound' /\ RowsTouched(p)
      BY RowsOnly DEF BindContext, At, files, bounds, Quiet, RowsTouched, ContextStatus
<1>2. CASE Then(p, "activate")
      BY <1>1, <1>2, NextCalm DEF Successors
<1>3. CASE Return(p)
      BY <1>1, <1>3, ReturnCalm DEF Hook, InHook
<1> QED BY <1>2, <1>3 DEF BindContext

LEMMA TransitionTyped ==
    ASSUME NEW old, NEW new, ValidTransition(old, new)
    PROVE  new \in TaskStatus /\ (old = "done" => new = "done")
BY DEF ValidTransition, TaskTransitions, TaskStatus

LEMMA CompleteTaskSafe ==
    ASSUME HooksInv, NEW p \in Proc, CompleteTask(p)
    PROVE  HooksInv'
<1> DEFINE next == IF call[p].kind = "run" THEN "done" ELSE call[p].kind
<1>1. /\ call[p].step = "complete" /\ ~At(p, "idle") /\ Quiet /\ RowsTouched(p)
      /\ UNCHANGED <<agent, folder, output, merged, requests>>
      BY DEF CompleteTask, At, files, bounds, Quiet, RowsTouched
<1>2. CASE /\ ValidTransition(status[TaskOf(p)], next)
           /\ status' = [status EXCEPT ![TaskOf(p)] = next]
           /\ IF next = "done" THEN Then(p, "pipeline") ELSE Return(p)
      <2>1. status' \in [Task -> TaskStatus]
            BY <1>2, TransitionTyped DEF HooksInv, TypeOK
      <2>2. OthersSound'
            BY <1>1, <2>1 DEF HooksInv, TypeOK, OthersSound
      <2>3. CASE next = "done" /\ Then(p, "pipeline")
            <3>1. call[p].kind \in {"run", "done"}
                  BY <2>3
            <3>2. MayStep(p, "pipeline")
                  BY <1>1, <3>1 DEF MayStep, Step, Hopeful, Preparing, Working, Hooking, Closing
            <3>3. Smooth("complete", "pipeline")
                  BY DEF Smooth, Hook, InHook, DueSteps
            <3> QED BY <1>1, <2>2, <2>3, <3>2, <3>3, ThenCalm
      <2>4. CASE Return(p)
            BY <1>1, <2>2, <2>4, ReturnCalm DEF Hook, InHook
      <2> QED BY <1>2, <2>3, <2>4
<1>3. CASE Raised(p) /\ UNCHANGED status
      <2>1. OthersSound'
            BY <1>1, <1>3, RowsOnly
      <2>2. \A h \in Hook : call[p].step \notin InHook(h)
            BY <1>1 DEF Hook, InHook
      <2> QED BY <1>1, <1>3, <2>1, <2>2, RaisedCalm DEF Quiet
<1> QED BY <1>2, <1>3 DEF CompleteTask

LEMMA StartPipelineSafe ==
    ASSUME HooksInv, NEW p \in Proc, StartPipeline(p)
    PROVE  HooksInv'
<1>1. /\ call[p].step = "pipeline" /\ Quiet /\ OthersSound' /\ RowsTouched(p)
      BY RowsOnly DEF StartPipeline, At, rows, files, bounds, Quiet, RowsTouched
<1>2. CASE Then(p, "checkpoint")
      BY <1>1, <1>2, NextCalm DEF Successors
<1>3. CASE Then(p, "emit")
      BY <1>1, <1>3, NextCalm DEF Successors
<1>4. CASE Return(p)
      BY <1>1, <1>4, ReturnCalm DEF Hook, InHook
<1> QED BY <1>2, <1>3, <1>4 DEF StartPipeline, AfterPipeline

\* What opens a hook.
LEMMA OpenCalm ==
    ASSUME HooksInv, NEW p \in Proc, NEW s, NEW w, NEW g \in Hook,
           <<g, call[p].step, s>> \in
               {<<"checkpoint", "checkpoint", "checkpointing">>,
                <<"merge", "merge", "copy">>, <<"cleanup", "cleanup", "remove">>},
           w = call[p].wt \/ \E t \in Task : w = context[t].worktree,
           Goto(p, Stepped(call[p], s, w)), OpenHook(p, g),
           completed' = completed, faults' = faults, OthersSound', RowsTouched(p)
    PROVE  HooksInv'
<1>1. w \in Worktree \cup {None}
      BY DEF HooksInv, TypeOK, Call, ContextRow
<1>2. /\ ShapedCall(p, call[p]) /\ ~At(p, "idle") /\ TaskOf(p) \in Task
      /\ call[p].kind # "remove"
      BY CallTyped DEF At, ShapedCall
<1>3. MayStep(p, s)
      BY <1>2 DEF MayStep, Step, Hopeful, Preparing, Working, Hooking, Closing
<1> DEFINE c == Stepped(call[p], s, w)
<1>4. /\ ShapedCall(p, c) /\ c.step = s /\ c.wt = w
      /\ c.task = TaskOf(p) /\ c.kind = call[p].kind
      BY <1>1, <1>2, <1>3, SteppedShaped DEF MayStep
<1> HIDE DEF c
<1>5. MovesTo(p, c)
      BY <1>4 DEF c, MovesTo, Goto
<1>6. TablesSound'
      <2>1. /\ context' \in [Task -> ContextRow] /\ worktree' \in [Worktree -> WorktreeRow]
            /\ RowsShaped'
            BY <1>4, <1>5, RowsStay
      <2> QED BY <2>1 DEF TablesSound, OthersSound
<1>7. \A h \in Hook :
          /\ call[p].step \notin InHook(h)
          /\ s \in InHook(h) <=> h = g
          /\ s \in DueSteps(h) => call[p].step \in DueSteps(h)
      BY DEF Hook, InHook, DueSteps
<1>8. \A t \in Task, h \in Hook :
          /\ ~InsideCall(call[p], t, h)
          /\ InsideCall(c, t, h) <=> t = TaskOf(p) /\ h = g
          /\ DueCall(c, t, h) => DueCall(call[p], t, h)
      BY <1>2, <1>4, <1>7 DEF InsideCall, DueCall, TaskOf
<1>9. ASSUME NEW u, u = TaskOf(p)
      PROVE  Opens(p, u, c, g)
      BY <1>2, <1>5, <1>6, <1>8, <1>9 DEF Opens, OpenHook
<1> QED BY <1>9, OpenStep

LEMMA OpenCheckpointSafe ==
    ASSUME HooksInv, NEW p \in Proc, OpenCheckpoint(p)
    PROVE  HooksInv'
<1>1. /\ call[p].step = "checkpoint" /\ OpenHook(p, "checkpoint")
      /\ completed' = completed /\ faults' = faults /\ OthersSound' /\ RowsTouched(p)
      BY RowsOnly DEF OpenCheckpoint, At, files, bounds, RowsTouched
<1>2. Goto(p, Stepped(call[p], "checkpointing", call[p].wt))
      BY ThenSteps DEF OpenCheckpoint, Then, Goto
<1>3. "checkpoint" \in Hook
      BY DEF Hook
<1> QED BY <1>1, <1>2, <1>3, OpenCalm

LEMMA OpenMergeSafe ==
    ASSUME HooksInv, NEW p \in Proc, OpenMerge(p)
    PROVE  HooksInv'
<1>1. /\ call[p].step = "merge" /\ ~At(p, "idle")
      /\ completed' = completed /\ faults' = faults /\ OthersSound' /\ RowsTouched(p)
      BY RowsOnly DEF OpenMerge, At, files, bounds, RowsTouched
<1>2. CASE OpenHook(p, "merge") /\ Then(p, "copy")
      <2>1. Goto(p, Stepped(call[p], "copy", call[p].wt)) /\ "merge" \in Hook
            BY <1>2, ThenSteps DEF Then, Goto, Hook
      <2> QED BY <1>1, <1>2, <2>1, OpenCalm
<1>3. CASE Raised(p) /\ UNCHANGED running
      <2>1. \A h \in Hook : call[p].step \notin InHook(h)
            BY <1>1 DEF Hook, InHook
      <2> QED BY <1>1, <1>3, <2>1, RaisedCalm
<1> QED BY <1>2, <1>3 DEF OpenMerge

LEMMA OpenCleanupSafe ==
    ASSUME HooksInv, NEW p \in Proc, OpenCleanup(p)
    PROVE  HooksInv'
<1>1. /\ call[p].step = "cleanup" /\ ~At(p, "idle") /\ TaskOf(p) \in Task
      /\ completed' = completed /\ faults' = faults /\ OthersSound' /\ RowsTouched(p)
      BY RowsOnly, CallTyped DEF OpenCleanup, At, files, bounds, RowsTouched
<1>2. CASE /\ OpenHook(p, "cleanup")
           /\ Goto(p, Stepped(call[p], "remove", context[TaskOf(p)].worktree))
      <2>1. "cleanup" \in Hook
            BY DEF Hook
      <2> QED BY <1>1, <1>2, <2>1, OpenCalm
<1>3. CASE Raised(p) /\ UNCHANGED running
      <2>1. \A h \in Hook : call[p].step \notin InHook(h)
            BY <1>1 DEF Hook, InHook
      <2> QED BY <1>1, <1>3, <2>1, RaisedCalm
<1> QED BY <1>2, <1>3 DEF OpenCleanup, Stepped

LEMMA CopyOutputSafe ==
    ASSUME HooksInv, NEW p \in Proc, CopyOutput(p)
    PROVE  HooksInv'
<1>1. call[p].step = "copy" /\ Quiet /\ RowsTouched(p)
      BY DEF CopyOutput, At, rows, bounds, Quiet, RowsTouched
<1>2. merged' \in [Task -> Runner \cup {None}]
      BY DEF CopyOutput, HooksInv, TypeOK
<1>3. OthersSound'
      BY <1>2 DEF CopyOutput, rows, bounds, HooksInv, TypeOK, OthersSound
<1> QED BY <1>1, <1>3, NextCalm DEF CopyOutput, Successors

LEMMA RemoveFolderSafe ==
    ASSUME HooksInv, NEW p \in Proc, RemoveFolder(p)
    PROVE  HooksInv'
<1>1. call[p].step = "remove" /\ Quiet /\ RowsTouched(p)
      BY DEF RemoveFolder, At, rows, bounds, Quiet, RowsTouched
<1>2. folder' \in [Task -> Folder]
      BY DEF RemoveFolder, HooksInv, TypeOK, Folder
<1>3. OthersSound'
      BY <1>2 DEF RemoveFolder, rows, bounds, HooksInv, TypeOK, OthersSound
<1> QED BY <1>1, <1>3, NextCalm DEF RemoveFolder, Successors

LEMMA MarkCleanedSafe ==
    ASSUME HooksInv, NEW p \in Proc, MarkCleaned(p)
    PROVE  HooksInv'
<1>1. /\ call[p].step = "mark" /\ ~At(p, "idle") /\ Quiet /\ OthersSound' /\ RowsTouched(p)
      BY RowsOnly DEF MarkCleaned, At, files, bounds, Quiet, RowsTouched, WorktreeStatus
<1>2. CASE call[p].kind = "remove" /\ Return(p)
      BY <1>1, <1>2, ReturnCalm
<1>3. CASE call[p].kind # "remove" /\ Then(p, "unbind")
      <2>1. MayStep(p, "unbind")
            BY <1>1, <1>3 DEF MayStep, Step, Hopeful, Hooking
      <2>2. Smooth("mark", "unbind")
            BY DEF Smooth, Hook, InHook, DueSteps
      <2> QED BY <1>1, <1>3, <2>1, <2>2, ThenCalm
<1> QED BY <1>2, <1>3 DEF MarkCleaned

LEMMA MarkContextCleanedSafe ==
    ASSUME HooksInv, NEW p \in Proc, MarkContextCleaned(p)
    PROVE  HooksInv'
<1>1. /\ call[p].step = "unbind" /\ Then(p, "cleaning") /\ Quiet /\ OthersSound' /\ RowsTouched(p)
      BY RowsOnly DEF MarkContextCleaned, At, files, bounds, Quiet, RowsTouched, ContextStatus
<1> QED BY <1>1, NextCalm DEF Successors

LEMMA ReleaseWorktreeSafe ==
    ASSUME HooksInv, NEW p \in Proc, ReleaseWorktree(p)
    PROVE  HooksInv'
<1>1. /\ call[p].step = "release" /\ Quiet /\ OthersSound' /\ RowsTouched(p)
      BY RowsOnly DEF ReleaseWorktree, At, files, bounds, Quiet, RowsTouched, WorktreeStatus
<1>2. CASE Then(p, "close")
      BY <1>1, <1>2, NextCalm DEF Successors
<1>3. CASE Return(p)
      BY <1>1, <1>3, ReturnCalm DEF Hook, InHook
<1> QED BY <1>2, <1>3 DEF ReleaseWorktree

\* The last step of a hook, and what comes after it.
Endings == {<<"checkpoint", "checkpointing">>, <<"merge", "merging">>, <<"cleanup", "cleaning">>}

\* What completes a hook.
LEMMA CloseCalm ==
    ASSUME HooksInv, NEW p \in Proc, NEW c, NEW g \in Hook,
           <<g, call[p].step>> \in Endings,
           \/ c = IdleCall
           \/ \E s : /\ c = Stepped(call[p], s, call[p].wt) /\ MayStep(p, s)
                     /\ <<g, s>> \in {<<"checkpoint", "merge">>, <<"merge", "cleanup">>,
                                      <<"cleanup", "emit">>},
           Goto(p, c), CloseHook(p, g), faults' = faults, OthersSound', RowsTouched(p)
    PROVE  HooksInv'
<1>1. /\ ShapedCall(p, call[p]) /\ ~At(p, "idle") /\ TaskOf(p) \in Task
      /\ call[p].kind # "remove"
      BY CallTyped DEF At, ShapedCall, Endings
<1>2. /\ MovesTo(p, c) /\ (c.wt = None \/ c.wt = call[p].wt)
      /\ c.task = TaskOf(p) \/ c.step = "idle"
      /\ \/ c.step \in {"idle", "emit"}
         \/ <<g, c.step>> \in {<<"checkpoint", "merge">>, <<"merge", "cleanup">>}
      <2>1. CASE c = IdleCall
            BY <2>1, IdleShaped DEF MovesTo, Goto, IdleCall
      <2>2. ASSUME NEW s, c = Stepped(call[p], s, call[p].wt), MayStep(p, s),
                   <<g, s>> \in {<<"checkpoint", "merge">>, <<"merge", "cleanup">>,
                                 <<"cleanup", "emit">>}
            PROVE  /\ MovesTo(p, c) /\ (c.wt = None \/ c.wt = call[p].wt)
                   /\ c.task = TaskOf(p)
                   /\ c.step = "emit"
                      \/ <<g, c.step>> \in {<<"checkpoint", "merge">>, <<"merge", "cleanup">>}
            <3>1. call[p].wt \in Worktree \cup {None}
                  BY CallTyped DEF Call
            <3>2. /\ ShapedCall(p, c) /\ c.step = s /\ c.wt = call[p].wt /\ c.task = TaskOf(p)
                  BY <1>1, <2>2, <3>1, SteppedShaped DEF MayStep
            <3> QED BY <2>2, <3>2 DEF MovesTo, Goto
      <2> QED BY <2>1, <2>2
<1>3. TablesSound'
      <2>1. /\ context' \in [Task -> ContextRow] /\ worktree' \in [Worktree -> WorktreeRow]
            /\ RowsShaped'
            BY <1>2, RowsStay
      <2> QED BY <2>1 DEF TablesSound, OthersSound
<1>4. \A h \in Hook :
          /\ call[p].step \in InHook(h) <=> h = g
          /\ call[p].step \in DueSteps(h) <=> h = g /\ g # "checkpoint"
          /\ c.step \notin InHook(h)
          /\ c.step \in DueSteps(h) =>
                /\ c.step # "idle"
                /\ <<g, h>> \in {<<"checkpoint", "merge">>, <<"merge", "cleanup">>}
      BY <1>2 DEF Hook, InHook, DueSteps, Endings
<1>5. \A t \in Task, h \in Hook :
          /\ InsideCall(call[p], t, h) <=> t = TaskOf(p) /\ h = g
          /\ ~InsideCall(c, t, h)
          /\ DueCall(call[p], t, h) <=> t = TaskOf(p) /\ h = g /\ g # "checkpoint"
          /\ DueCall(c, t, h) =>
                t = TaskOf(p) /\ <<g, h>> \in {<<"checkpoint", "merge">>, <<"merge", "cleanup">>}
      BY <1>1, <1>2, <1>4 DEF InsideCall, DueCall, TaskOf
<1>6. ASSUME NEW u, u = TaskOf(p)
      PROVE  Closes(p, u, c, g)
      BY <1>1, <1>2, <1>3, <1>5, <1>6 DEF Closes, CloseHook
<1> QED BY <1>6, CloseStep

LEMMA CloseCheckpointSafe ==
    ASSUME HooksInv, NEW p \in Proc, CloseCheckpoint(p)
    PROVE  HooksInv'
<1>1. /\ call[p].step = "checkpointing" /\ CloseHook(p, "checkpoint")
      /\ faults' = faults /\ OthersSound' /\ RowsTouched(p)
      BY RowsOnly DEF CloseCheckpoint, At, files, bounds, RowsTouched
<1>2. "checkpoint" \in Hook /\ <<"checkpoint", call[p].step>> \in Endings
      BY <1>1 DEF Hook, Endings
<1>3. CASE InPipeline(p) /\ Then(p, "merge")
      <2>1. /\ Goto(p, Stepped(call[p], "merge", call[p].wt))
            BY <1>3, ThenSteps DEF Then, Goto
      <2>2. MayStep(p, "merge")
            BY <1>1, <1>3 DEF MayStep, InPipeline, Step, Hopeful, Hooking
      <2> QED BY <1>1, <1>2, <2>1, <2>2, CloseCalm
<1>4. CASE Return(p)
      BY <1>1, <1>2, <1>4, CloseCalm DEF Return
<1> QED BY <1>3, <1>4 DEF CloseCheckpoint

LEMMA CloseMergeSafe ==
    ASSUME HooksInv, NEW p \in Proc, CloseMerge(p)
    PROVE  HooksInv'
<1>1. /\ call[p].step = "merging" /\ CloseHook(p, "merge")
      /\ faults' = faults /\ OthersSound' /\ RowsTouched(p)
      BY RowsOnly DEF CloseMerge, At, files, bounds, RowsTouched
<1>2. "merge" \in Hook /\ <<"merge", call[p].step>> \in Endings
      BY <1>1 DEF Hook, Endings
<1>3. CASE InPipeline(p) /\ Then(p, "cleanup")
      <2>1. /\ Goto(p, Stepped(call[p], "cleanup", call[p].wt))
            BY <1>3, ThenSteps DEF Then, Goto
      <2>2. MayStep(p, "cleanup")
            BY <1>1, <1>3 DEF MayStep, InPipeline, Step, Hopeful, Hooking
      <2> QED BY <1>1, <1>2, <2>1, <2>2, CloseCalm
<1>4. CASE Return(p)
      BY <1>1, <1>2, <1>4, CloseCalm DEF Return
<1> QED BY <1>3, <1>4 DEF CloseMerge

LEMMA CloseCleanupSafe ==
    ASSUME HooksInv, NEW p \in Proc, CloseCleanup(p)
    PROVE  HooksInv'
<1>1. /\ call[p].step = "cleaning" /\ CloseHook(p, "cleanup")
      /\ faults' = faults /\ OthersSound' /\ RowsTouched(p)
      BY RowsOnly DEF CloseCleanup, At, files, bounds, RowsTouched
<1>2. "cleanup" \in Hook /\ <<"cleanup", call[p].step>> \in Endings
      BY <1>1 DEF Hook, Endings
<1>3. CASE call[p].kind = "run" /\ Then(p, "emit")
      <2>1. /\ Goto(p, Stepped(call[p], "emit", call[p].wt))
            BY <1>3, ThenSteps DEF Then, Goto
      <2>2. MayStep(p, "emit")
            BY <1>1, <1>3 DEF MayStep, Step, Hopeful, Hooking, Working
      <2> QED BY <1>1, <1>2, <2>1, <2>2, CloseCalm
<1>4. CASE Return(p)
      BY <1>1, <1>2, <1>4, CloseCalm DEF Return
<1> QED BY <1>3, <1>4 DEF CloseCleanup, AfterPipeline

-----------------------------------------------------------------------------
(* The steps of a runner.                                                  *)

LEMMA ClaimTaskSafe ==
    ASSUME HooksInv, NEW r \in Runner, ClaimTask(r)
    PROVE  HooksInv'
<1>1. PICK t \in Task :
          /\ status' = [status EXCEPT ![t] = "in_progress"]
          /\ Goto(r, [IdleCall EXCEPT !.step = "claimed", !.kind = "run", !.task = t])
      BY DEF ClaimTask
<1> DEFINE c == [IdleCall EXCEPT !.step = "claimed", !.kind = "run", !.task = t]
<1>2. /\ call[r].step = "idle" /\ r \in Proc /\ Quiet /\ RowsTouched(r)
      /\ UNCHANGED <<agent, folder, output, merged, requests>>
      BY DEF ClaimTask, At, files, bounds, Quiet, RowsTouched, Proc
<1>3. /\ c \in Call /\ c.step = "claimed" /\ c.kind = "run" /\ c.task = t /\ c.wt = None
      /\ c.final = "completed"
      BY DEF IdleCall, Call, Step
<1> HIDE DEF c
<1>4. MovesTo(r, c)
      BY <1>1, <1>3 DEF MovesTo, ShapedCall, Goto, Hooking, c
<1>5. OthersSound'
      <2>1. status' \in [Task -> TaskStatus]
            BY <1>1 DEF HooksInv, TypeOK, TaskStatus
      <2> QED BY <1>2, <2>1 DEF HooksInv, TypeOK, OthersSound
<1>6. TablesSound'
      <2>1. /\ context' \in [Task -> ContextRow] /\ worktree' \in [Worktree -> WorktreeRow]
            /\ RowsShaped'
            BY <1>2, <1>3, <1>4, RowsStay
      <2> QED BY <1>5, <2>1 DEF TablesSound, OthersSound
<1>7. \A u \in Task, h \in Hook :
          ~InsideCall(call[r], u, h) /\ ~InsideCall(c, u, h) /\ ~DueCall(c, u, h)
      BY <1>2, <1>3 DEF InsideCall, DueCall, InHook, DueSteps, Hook
<1>8. Calm(r, c)
      BY <1>2, <1>4, <1>6, <1>7 DEF Calm, Quiet
<1> QED BY <1>2, <1>8, CalmStep

LEMMA SetAgentTyped ==
    ASSUME HooksInv, NEW r \in Runner, NEW state \in {"idle", "executing", "blocked"},
           NEW t \in Task \cup {None}, SetAgent(r, state, t),
           UNCHANGED <<status, folder, output, merged, requests>>
    PROVE  OthersSound'
<1>1. agent' \in [Owner -> AgentRow]
      BY DEF SetAgent, HooksInv, TypeOK, AgentRow
<1> QED BY <1>1 DEF HooksInv, TypeOK, OthersSound

LEMMA RunSafe ==
    ASSUME HooksInv, NEW r \in Runner, Run(r)
    PROVE  HooksInv'
<1>1. r \in Proc
      BY DEF Proc
<1>2. ASSUME MarkRunning(r) PROVE HooksInv'
      <2>1. /\ call[r].step = "claimed" /\ Quiet /\ RowsTouched(r) /\ TaskOf(r) \in Task
            BY <1>1, <1>2, CallTyped DEF MarkRunning, At, files, bounds, Quiet, RowsTouched
      <2>2. OthersSound'
            BY <1>2, <2>1, SetAgentTyped DEF MarkRunning, files, bounds
      <2> QED BY <1>1, <1>2, <2>1, <2>2, NextCalm DEF MarkRunning, Successors
<1>3. ASSUME ActivateWorktree(r) PROVE HooksInv'
      <2>1. /\ call[r].step = "activate" /\ Quiet /\ OthersSound' /\ RowsTouched(r)
            BY <1>3, RowsOnly
               DEF ActivateWorktree, At, files, bounds, Quiet, RowsTouched, WorktreeStatus
      <2> QED BY <1>1, <1>3, <2>1, NextCalm DEF ActivateWorktree, Successors
<1>4. ASSUME StartContext(r) PROVE HooksInv'
      <2>1. /\ call[r].step = "start" /\ Quiet /\ OthersSound' /\ RowsTouched(r)
            BY <1>4, RowsOnly
               DEF StartContext, At, files, bounds, Quiet, RowsTouched, ContextStatus
      <2> QED BY <1>1, <1>4, <2>1, NextCalm DEF StartContext, Successors
<1>5. ASSUME WriteOutput(r) PROVE HooksInv'
      <2>1. call[r].step = "work" /\ Quiet /\ RowsTouched(r)
            BY <1>5 DEF WriteOutput, At, rows, bounds, Quiet, RowsTouched
      <2>2. folder' \in [Task -> Folder]
            BY <1>5 DEF WriteOutput, HooksInv, TypeOK, Folder
      <2>3. OthersSound'
            BY <1>5, <2>2 DEF WriteOutput, rows, bounds, HooksInv, TypeOK, OthersSound
      <2> QED BY <1>1, <1>5, <2>1, <2>3, NextCalm DEF WriteOutput, Successors
<1>6. ASSUME RegisterOutput(r) PROVE HooksInv'
      <2>1. call[r].step = "register" /\ Quiet /\ RowsTouched(r)
            BY <1>6 DEF RegisterOutput, At, files, bounds, Quiet, RowsTouched
      <2>2. output' \in [Task -> Runner \cup {None}]
            BY <1>6 DEF RegisterOutput, HooksInv, TypeOK
      <2>3. OthersSound'
            BY <1>6, <2>2 DEF RegisterOutput, files, bounds, HooksInv, TypeOK, OthersSound
      <2> QED BY <1>1, <1>6, <2>1, <2>3, NextCalm DEF RegisterOutput, Successors
<1>7. ASSUME EmitEvent(r) PROVE HooksInv'
      <2>1. call[r].step = "emit" /\ Quiet /\ OthersSound' /\ RowsTouched(r)
            BY <1>7, RowsOnly DEF EmitEvent, At, rows, files, bounds, Quiet, RowsTouched
      <2> QED BY <1>1, <1>7, <2>1, NextCalm DEF EmitEvent, Successors
<1>8. ASSUME SettleAgent(r) PROVE HooksInv'
      <2>1. call[r].step = "settle" /\ Quiet /\ RowsTouched(r)
            BY <1>8 DEF SettleAgent, At, files, bounds, Quiet, RowsTouched
      <2>2. OthersSound'
            BY <1>8, SetAgentTyped DEF SettleAgent, files, bounds
      <2> QED BY <1>1, <1>8, <2>1, <2>2, NextCalm DEF SettleAgent, Successors
<1>9. ASSUME Finalize(r) \/ Abort(r) PROVE HooksInv'
      <2>1. /\ call[r].step \in {"finalize", "abort"} /\ ~At(r, "idle") /\ TaskOf(r) \in Task
            /\ Quiet /\ OthersSound' /\ RowsTouched(r)
            BY <1>1, <1>9, RowsOnly, CallTyped
               DEF Finalize, Abort, At, rows, files, bounds, Quiet, RowsTouched
      <2>2. CASE Return(r)
            BY <1>1, <2>1, <2>2, ReturnCalm DEF Hook, InHook
      <2>3. CASE Goto(r, Stepped(call[r], "release", context[TaskOf(r)].worktree))
            <3>1. MayStep(r, "release") /\ Smooth(call[r].step, "release")
                  BY <1>1, <2>1, SuccessorsMay, SuccessorsSmooth DEF Successors
            <3> QED BY <1>1, <2>1, <2>3, <3>1, StepCalm
      <2>4. CASE At(r, "abort") /\ Then(r, "report")
            BY <1>1, <2>1, <2>4, NextCalm DEF Successors, At
      <2> QED BY <1>9, <2>2, <2>3, <2>4 DEF Finalize, Abort, Stepped
<1>10. ASSUME CloseContext(r) PROVE HooksInv'
      <2>1. /\ call[r].step = "close" /\ ~At(r, "idle") /\ Quiet /\ OthersSound' /\ RowsTouched(r)
            /\ call[r].final \in {"completed", "blocked"} /\ call[r].kind = "run"
            BY <1>1, <1>10, RowsOnly, CallTyped
               DEF CloseContext, At, files, bounds, Quiet, RowsTouched, ContextStatus, Call,
                   ShapedCall
      <2>2. CASE Return(r)
            BY <1>1, <2>1, <2>2, ReturnCalm DEF Hook, InHook
      <2>3. CASE call[r].final = "blocked" /\ Then(r, "report")
            <3>1. MayStep(r, "report")
                  BY <2>1, <2>3 DEF MayStep, Step, Hopeful, Preparing, Working, Hooking, Closing
            <3>2. Smooth("close", "report")
                  BY DEF Smooth, Hook, InHook, DueSteps
            <3> QED BY <1>1, <2>1, <2>3, <3>1, <3>2, ThenCalm
      <2> QED BY <1>10, <2>1, <2>2, <2>3 DEF CloseContext
<1>11. ASSUME ReportBlocked(r) PROVE HooksInv'
      <2>1. /\ call[r].step = "report" /\ Quiet /\ RowsTouched(r)
            /\ UNCHANGED <<agent, folder, output, merged, requests>>
            BY <1>11 DEF ReportBlocked, At, files, bounds, Quiet, RowsTouched
      <2>2. status' \in [Task -> TaskStatus]
            BY <1>11 DEF ReportBlocked, HooksInv, TypeOK, TaskStatus
      <2>3. OthersSound'
            BY <2>1, <2>2 DEF HooksInv, TypeOK, OthersSound
      <2>4. CASE Then(r, "fail")
            BY <1>1, <2>1, <2>3, <2>4, NextCalm DEF Successors
      <2>5. CASE Return(r)
            BY <1>1, <2>1, <2>3, <2>5, ReturnCalm DEF Hook, InHook
      <2> QED BY <1>11, <2>4, <2>5 DEF ReportBlocked
<1>12. ASSUME BlockAgent(r) PROVE HooksInv'
      <2>1. /\ call[r].step = "fail" /\ Quiet /\ RowsTouched(r) /\ TaskOf(r) \in Task
            BY <1>1, <1>12, CallTyped DEF BlockAgent, At, files, bounds, Quiet, RowsTouched
      <2>2. OthersSound'
            BY <1>12, <2>1, SetAgentTyped DEF BlockAgent, files, bounds
      <2> QED BY <1>1, <1>12, <2>1, <2>2, ReturnCalm DEF BlockAgent, Hook, InHook
<1> QED BY <1>2, <1>3, <1>4, <1>5, <1>6, <1>7, <1>8, <1>9, <1>10, <1>11, <1>12 DEF Run

-----------------------------------------------------------------------------
(* Requests, failures, and any step.                                       *)

\* A request begins in no hook.
LEMMA RequestCalm ==
    ASSUME HooksInv, NEW o \in Operator, NEW c, At(o, "idle"), Goto(o, c),
           ShapedCall(o, c), Known(c.wt), c.wt \in Worktree \cup {None},
           c.kind = "remove" \/ c.step \in Hook \cup {"lookup", "complete", "release"},
           c.step \in Hook => ~NoHookRequests,
           requests' = requests + 1, UNCHANGED <<rows, files, faults>>
    PROVE  HooksInv'
<1>1. o \in Proc /\ MovesTo(o, c)
      BY DEF Proc, MovesTo, Goto
<1>2. OthersSound' /\ Quiet /\ context' = context /\ worktree' = worktree
      BY DEF rows, files, HooksInv, TypeOK, OthersSound, Quiet
<1>3. RowsShaped'
      <2>1. /\ call'[o] = c /\ \A q \in Proc \ {o} : call'[q] = call[q]
            BY <1>1, Moved
      <2>2. \A q \in Proc : Known(call'[q].wt)
            BY <2>1 DEF HooksInv, RowsShaped
      <2> QED BY <1>2, <2>2 DEF HooksInv, RowsShaped, Known
<1>4. TablesSound'
      BY <1>2, <1>3 DEF TablesSound, OthersSound, HooksInv, TypeOK
<1>5. \A t \in Task, h \in Hook : ~InsideCall(call[o], t, h) /\ ~InsideCall(c, t, h)
      BY DEF InsideCall, InHook, Hook, At
<1>6. NoHookRequests => \A t \in Task, h \in Hook : ~DueCall(c, t, h)
      BY DEF DueCall, DueSteps, Hook
<1>7. Calm(o, c)
      BY <1>1, <1>2, <1>4, <1>5, <1>6 DEF Calm, Quiet
<1> QED BY <1>1, <1>7, CalmStep

LEMMA PostTaskRequestSafe ==
    ASSUME HooksInv, NEW o \in Operator, PostTaskRequest(o)
    PROVE  HooksInv'
<1>1. PICK kind \in Requests \ {"release", "remove"}, t \in Task :
          Goto(o, [IdleCall EXCEPT !.step = FirstStep(kind), !.kind = kind, !.task = t])
      BY DEF PostTaskRequest
<1> DEFINE c == [IdleCall EXCEPT !.step = FirstStep(kind), !.kind = kind, !.task = t]
<1>2. /\ kind \in {"prepare"} \cup Hook \cup TaskStatus
      /\ FirstStep(kind) \in Hook \cup {"lookup", "complete"}
      /\ FirstStep(kind) \in Hook => kind = FirstStep(kind)
      BY ConstantsAssumption DEF Request, FirstStep, Hook, TaskStatus
<1>3. /\ c.step = FirstStep(kind) /\ c.kind = kind /\ c.task = t /\ c.wt = None
      /\ c.final = "completed" /\ c \in Call
      BY <1>2 DEF IdleCall, Call, Step, Request, Hook, Hooking, Preparing, Working
<1> HIDE DEF c
<1>4. o \notin Runner
      BY ConstantsAssumption
<1>5. kind \notin {"run", "none", "remove", "release"}
      BY <1>2 DEF Hook, TaskStatus
<1>6. ShapedCall(o, c)
      <2>1. c.step # "idle" /\ c.step \notin {"abort", "report", "fail"}
            BY <1>2, <1>3 DEF Hook
      <2>2. kind = "prepare" => c.step \notin Hooking
            BY <1>2, <1>3 DEF Hook, Hooking, FirstStep
      <2> QED BY <1>3, <1>4, <1>5, <2>1, <2>2 DEF ShapedCall
<1>7. c.step \in Hook => ~NoHookRequests
      BY <1>2, <1>3 DEF NoHookRequests
<1>8. Goto(o, c) /\ Known(c.wt) /\ c.step \in Hook \cup {"lookup", "complete", "release"}
      BY <1>1, <1>2, <1>3 DEF c, Known
<1> QED BY <1>3, <1>6, <1>7, <1>8, RequestCalm DEF PostTaskRequest

LEMMA PostWorktreeRequestSafe ==
    ASSUME HooksInv, NEW o \in Operator, PostWorktreeRequest(o)
    PROVE  HooksInv'
<1>1. PICK kind \in Requests \cap {"release", "remove"}, w \in Worktree :
          /\ worktree[w].status # "absent"
          /\ Goto(o, [IdleCall EXCEPT !.step = kind, !.kind = kind,
                                      !.task = worktree[w].task, !.wt = w])
      BY DEF PostWorktreeRequest
<1> DEFINE c == [IdleCall EXCEPT !.step = kind, !.kind = kind, !.task = worktree[w].task, !.wt = w]
<1>2. worktree[w].task \in Task
      BY <1>1 DEF HooksInv, RowsShaped
<1>3. /\ c.step = kind /\ c.kind = kind /\ c.task \in Task /\ c.wt = w
      /\ c.final = "completed" /\ c \in Call
      BY <1>2 DEF IdleCall, Call, Step, Request, Hooking, Closing
<1> HIDE DEF c
<1>4. o \notin Runner
      BY ConstantsAssumption
<1>5. ShapedCall(o, c)
      BY <1>3, <1>4 DEF ShapedCall, Hooking
<1>6. c.step \in Hook => ~NoHookRequests
      BY <1>3 DEF Hook
<1>7. Goto(o, c) /\ Known(c.wt)
      BY <1>1, <1>3 DEF c, Known
<1> QED BY <1>3, <1>5, <1>6, <1>7, RequestCalm DEF PostWorktreeRequest

LEMMA FaultSafe ==
    ASSUME HooksInv, NEW p \in Proc, OperationRaises(p) \/ ProcessDies(p)
    PROVE  HooksInv'
<1>1. /\ ~At(p, "idle") /\ faults' = faults + 1 /\ OthersSound' /\ RowsTouched(p)
      /\ running' = running /\ completed' = completed
      BY RowsOnly DEF OperationRaises, ProcessDies, rows, files, RowsTouched
<1>2. CASE Raised(p)
      BY <1>1, <1>2, RaisedCalm
<1>3. CASE Return(p)
      <2>1. MovesTo(p, IdleCall) /\ IdleCall.wt = None
            BY <1>3, IdleShaped DEF Return, Goto, MovesTo, IdleCall
      <2>2. TablesSound'
            <3>1. /\ context' \in [Task -> ContextRow] /\ worktree' \in [Worktree -> WorktreeRow]
                  /\ RowsShaped'
                  BY <1>1, <2>1, RowsStay
            <3> QED BY <1>1, <3>1 DEF TablesSound, OthersSound
      <2>3. \A t \in Task, h \in Hook : ~InsideCall(IdleCall, t, h) /\ ~DueCall(IdleCall, t, h)
            BY DEF InsideCall, DueCall, IdleCall, InHook, DueSteps, Hook
      <2>4. Calm(p, IdleCall)
            BY <1>1, <2>1, <2>2, <2>3 DEF Calm
      <2> QED BY <2>4, CalmStep
<1> QED BY <1>2, <1>3 DEF OperationRaises, ProcessDies

LEMMA StutterSafe == HooksInv /\ UNCHANGED vars => HooksInv'
<1> SUFFICES ASSUME HooksInv, UNCHANGED vars
             PROVE  HooksInv'
    OBVIOUS
<1>1. UNCHANGED <<status, agent, context, worktree, output, running, completed, folder, merged,
                  call, requests, faults>>
      BY DEF vars, rows, files, bounds
<1>2. \A t, h : Inside(t, h)' = Inside(t, h) /\ Due(t, h)' = Due(t, h)
      BY <1>1 DEF Inside, Due
<1>3. TypeOK'
      BY <1>1 DEF HooksInv, TypeOK
<1>4. CallsShaped' /\ RowsShaped'
      BY <1>1 DEF HooksInv, CallsShaped, ShapedCall, RowsShaped, Known
<1>5. HooksCounted'
      BY <1>1, <1>2 DEF HooksInv, HooksCounted
<1>6. HooksPaired'
      BY <1>1, <1>2 DEF HooksInv, HooksPaired, NoHookRequests
<1> QED BY <1>3, <1>4, <1>5, <1>6 DEF HooksInv

LEMMA NextSafe == HooksInv /\ [Next]_vars => HooksInv'
<1> SUFFICES ASSUME HooksInv, [Next]_vars
             PROVE  HooksInv'
    OBVIOUS
<1>1. ASSUME NEW p \in Proc, Prepare(p)
      PROVE  HooksInv'
      BY <1>1, LookUpContextSafe, MakeFolderSafe, InsertWorktreeSafe, BindContextSafe DEF Prepare
<1>2. ASSUME NEW p \in Proc, RunHooks(p)
      PROVE  HooksInv'
      BY <1>2, CompleteTaskSafe, StartPipelineSafe, OpenCheckpointSafe, CloseCheckpointSafe,
         OpenMergeSafe, CopyOutputSafe, CloseMergeSafe, OpenCleanupSafe, RemoveFolderSafe,
         MarkCleanedSafe, MarkContextCleanedSafe, CloseCleanupSafe, ReleaseWorktreeSafe
         DEF RunHooks
<1>3. ASSUME NEW p \in Proc, OperationRaises(p) \/ ProcessDies(p)
      PROVE  HooksInv'
      BY <1>3, FaultSafe
<1>4. ASSUME NEW r \in Runner, ClaimTask(r) \/ Run(r)
      PROVE  HooksInv'
      BY <1>4, ClaimTaskSafe, RunSafe
<1>5. ASSUME NEW o \in Operator, PostTaskRequest(o) \/ PostWorktreeRequest(o)
      PROVE  HooksInv'
      BY <1>5, PostTaskRequestSafe, PostWorktreeRequestSafe
<1> QED BY <1>1, <1>2, <1>3, <1>4, <1>5, StutterSafe DEF Next

LEMMA InitSafe == Init => HooksInv
<1> SUFFICES ASSUME Init
             PROVE  HooksInv
    OBVIOUS
<1>1. \A p \in Proc : call[p] = IdleCall
      BY DEF Init
<1>2. \A t \in Task, h \in Hook : running[t][h] = 0 /\ completed[t][h] = 0
      BY DEF Init
<1>3. \A t \in Task, h \in Hook : Inside(t, h) = {} /\ Due(t, h) = {}
      BY <1>1 DEF Inside, Due, InsideCall, DueCall, InHook, DueSteps, Hook, IdleCall
<1>4. \A t \in Task, h \in Hook : Cardinality(Inside(t, h)) = 0 /\ Cardinality(Due(t, h)) = 0
      BY <1>3, FS_EmptySet
<1>5. TypeOK
      <2>1. status \in [Task -> TaskStatus] /\ agent \in [Owner -> AgentRow]
            BY DEF Init, TaskStatus, AgentRow
      <2>2. context \in [Task -> ContextRow] /\ worktree \in [Worktree -> WorktreeRow]
            BY DEF Init, ContextRow, WorktreeRow, ContextStatus, WorktreeStatus
      <2>3. /\ folder \in [Task -> Folder] /\ output \in [Task -> Runner \cup {None}]
            /\ merged \in [Task -> Runner \cup {None}]
            BY DEF Init, Folder
      <2>4. running \in HookCount /\ completed \in HookCount
            BY DEF Init, HookCount
      <2>5. call \in [Proc -> Call]
            BY DEF Init, IdleCall, Call, Step
      <2>6. requests \in Nat /\ faults \in Nat
            BY DEF Init
      <2> QED BY <2>1, <2>2, <2>3, <2>4, <2>5, <2>6 DEF TypeOK
<1>6. CallsShaped
      BY <1>1, IdleShaped DEF CallsShaped
<1>7. RowsShaped
      <2>1. \A w \in Worktree : worktree[w].status = "absent"
            BY DEF Init
      <2>2. \A t \in Task : context[t].worktree = None
            BY DEF Init
      <2> QED BY <1>1, <2>1, <2>2 DEF RowsShaped, Known, IdleCall
<1>8. HooksCounted
      BY <1>2, <1>4 DEF HooksCounted, Init
<1>9. HooksPaired
      <2>1. {"checkpoint", "merge", "cleanup"} = Hook
            BY DEF Hook
      <2> QED BY <1>2, <1>4, <2>1 DEF HooksPaired
<1> QED BY <1>5, <1>6, <1>7, <1>8, <1>9 DEF HooksInv

\* The invariant of the hooks holds of every behaviour, whatever is asked for.
THEOREM HooksInductive == Spec => []HooksInv
<1>1. Init => HooksInv
      BY InitSafe
<1>2. HooksInv /\ [Next]_vars => HooksInv'
      BY NextSafe
<1> QED BY <1>1, <1>2, PTL DEF Spec

LEMMA HooksInvAccounts == HooksInv => HooksAccounted
<1>1. \A t, h : Inside(t, h) =
          {p \in Proc : TaskOf(p) = t /\ call[p].step \in InHook(h) /\ call[p].kind # "remove"}
      BY DEF Inside, InsideCall, TaskOf
<1> QED BY <1>1 DEF HooksInv, HooksCounted, HooksAccounted

LEMMA HooksInvOrders == HooksInv /\ NoHookRequests => PipelineOrdered
<1> SUFFICES ASSUME HooksInv, NoHookRequests, NEW t \in Task
             PROVE  /\ completed[t]["cleanup"] <= completed[t]["merge"]
                    /\ completed[t]["merge"] <= completed[t]["checkpoint"]
    BY DEF PipelineOrdered
<1>1. {"checkpoint", "merge", "cleanup"} = Hook
      BY DEF Hook
<1>2. completed[t] \in [Hook -> Nat]
      BY DEF HooksInv, TypeOK, HookCount
<1>3. /\ completed[t]["merge"] \in Nat /\ completed[t]["cleanup"] \in Nat
      /\ completed[t]["checkpoint"] \in Nat
      BY <1>1, <1>2
<1>4. Cardinality(Due(t, "merge")) \in Nat /\ Cardinality(Due(t, "cleanup")) \in Nat
      BY InsideCounted
<1> QED BY <1>3, <1>4 DEF HooksInv, HooksPaired

\* Whatever is asked for and whoever dies, a hook that stays open is one a
\* process is in, or was left by a fault of its own (create_,
\* update_task_completion_hook).
THEOREM HooksAreAccounted == Spec => []HooksAccounted
<1>1. HooksInv => HooksAccounted
      BY HooksInvAccounts
<1> QED BY HooksInductive, <1>1, PTL

\* While nobody asks for single hooks through the API, the hooks of every task
\* also complete in their order, however many passes run it and wherever they
\* fail (_run_auto_completion_pipeline).
THEOREM HooksAreTrue == ASSUME NoHookRequests PROVE Spec => []HooksTrue
<1>1. HooksInv => HooksTrue
      BY HooksInvAccounts, HooksInvOrders DEF HooksTrue
<1> QED BY HooksInductive, <1>1, PTL

-----------------------------------------------------------------------------
(* Agents.                                                                 *)

\* Where a step leads to.
LEMMA WentTo ==
    ASSUME HooksInv, NEW p \in Proc, NEW s, NEW w, Goto(p, Stepped(call[p], s, w))
    PROVE  /\ call'[p].step = s /\ call'[p].task = TaskOf(p)
           /\ call'[p].kind = call[p].kind /\ call'[p].final = call[p].final
           /\ \A q \in Proc \ {p} : call'[q] = call[q]
<1>1. call[p] \in Call /\ call'[p] = Stepped(call[p], s, w)
      BY DEF HooksInv, TypeOK, Goto
<1>2. \A q \in Proc \ {p} : call'[q] = call[q]
      BY DEF HooksInv, TypeOK, Goto
<1> QED BY <1>1, <1>2 DEF Stepped, Call, TaskOf

LEMMA ThenWent ==
    ASSUME HooksInv, NEW p \in Proc, NEW s, Then(p, s)
    PROVE  /\ call'[p].step = s /\ call'[p].task = TaskOf(p)
           /\ call'[p].kind = call[p].kind /\ call'[p].final = call[p].final
           /\ \A q \in Proc \ {p} : call'[q] = call[q]
<1>1. Goto(p, Stepped(call[p], s, call[p].wt))
      BY ThenSteps DEF Then, Goto
<1> QED BY <1>1, WentTo

LEMMA ReturnWent ==
    ASSUME HooksInv, NEW p \in Proc, Return(p)
    PROVE  /\ call'[p] = IdleCall
           /\ \A q \in Proc \ {p} : call'[q] = call[q]
BY DEF HooksInv, TypeOK, Return, Goto

\* A pass that has marked its agent is still at its task, or the task is done.
StaysMarked(p) ==
    Marked(call[p]) =>
        \/ call'[p].task = TaskOf(p) /\ Marked(call'[p])
        \/ TaskOf(p) \in Task => status'[TaskOf(p)] = "done"

DoneStays == \A t \in Task : status[t] = "done" => status'[t] = "done"

LEMMA AgentsStay ==
    ASSUME AgentsInv, NEW p \in Proc, faults' = faults, agent' = agent, DoneStays,
           StaysMarked(p), \A q \in Proc \ {p} : call'[q] = call[q]
    PROVE  AgentsWorked'
<1> SUFFICES ASSUME faults = 0, NEW a \in Owner, agent[a].state = "executing", NEW t,
                    t = agent[a].task
             PROVE  /\ t \in Task /\ OwnerOf[t] = a
                    /\ \/ \E r \in Runner : call'[r].task = t /\ Marked(call'[r])
                       \/ status'[t] = "done"
    BY DEF AgentsWorked, TaskOf, Marked
<1>1. /\ t \in Task /\ OwnerOf[t] = a
      /\ (\E r \in Runner : TaskOf(r) = t /\ Marked(call[r])) \/ status[t] = "done"
      BY DEF AgentsInv, AgentsWorked
<1>2. ASSUME NEW r \in Runner, TaskOf(r) = t, Marked(call[r])
      PROVE  \/ \E q \in Runner : call'[q].task = t /\ Marked(call'[q])
             \/ status'[t] = "done"
      <2>1. CASE r = p
            BY <1>1, <1>2, <2>1 DEF StaysMarked
      <2>2. CASE r # p
            BY <1>2, <2>2 DEF Proc, TaskOf
      <2> QED BY <2>1, <2>2
<1> QED BY <1>1, <1>2 DEF DoneStays

\* What a step of another kind than those that speak of the agent does.
LEMMA ThenMarked ==
    ASSUME HooksInv, NEW p \in Proc, NEW s, NEW w, Goto(p, Stepped(call[p], s, w)),
           s \notin {"claimed", "finalize", "release", "close"}
               \/ (s \in {"release", "close"} /\ call[p].step \in {"abort", "release"})
    PROVE  StaysMarked(p)
<1>1. ShapedCall(p, call[p])
      BY CallTyped
<1> QED BY <1>1, WentTo DEF StaysMarked, Marked, ShapedCall

LEMMA RaisedMarked ==
    ASSUME HooksInv, NEW p \in Proc, Raised(p), call[p].step \in Hooking \cup {"complete"}
    PROVE  StaysMarked(p) /\ \A q \in Proc \ {p} : call'[q] = call[q]
<1>1. call[p] \in Call /\ ShapedCall(p, call[p])
      BY CallTyped
<1>2. (call'[p].task = TaskOf(p) /\ Marked(call'[p])) \/ call[p].kind # "run"
      <2>1. CASE Then(p, "emit")
            BY <1>1, <2>1, ThenWent DEF Marked
      <2>2. CASE Goto(p, [call[p] EXCEPT !.step = "abort", !.final = "blocked"])
            BY <1>1, <2>2 DEF Goto, HooksInv, TypeOK, Marked, Call, TaskOf
      <2>3. call[p].kind = "run" => Then(p, "emit")
                \/ Goto(p, [call[p] EXCEPT !.step = "abort", !.final = "blocked"])
            BY <1>1 DEF Raised, AfterPipeline, InPipeline, Tried, ShapedCall, Hopeful, Preparing,
                        Working, Hooking
      <2> QED BY <2>1, <2>2, <2>3
<1>3. \A q \in Proc \ {p} : call'[q] = call[q]
      BY DEF Raised, AfterPipeline, Return, Then, Goto, HooksInv, TypeOK
<1> QED BY <1>2, <1>3 DEF StaysMarked, Marked

LEMMA PrepareAgents ==
    ASSUME AgentsInv, NEW p \in Proc, Prepare(p)
    PROVE  AgentsWorked'
<1>1. HooksInv /\ ShapedCall(p, call[p]) /\ call[p] \in Call
      BY CallTyped DEF AgentsInv
<1>2. faults' = faults /\ agent' = agent /\ DoneStays
      BY DEF Prepare, LookUpContext, MakeFolder, InsertWorktree, BindContext, rows, bounds,
             DoneStays
<1>3. ASSUME NEW s \in {"make", "activate", "insert", "bind"}, NEW w,
             Goto(p, Stepped(call[p], s, w))
      PROVE  AgentsWorked'
      <2>1. StaysMarked(p)
            BY <1>1, <1>3, ThenMarked
      <2> QED BY <1>1, <1>2, <1>3, <2>1, WentTo, AgentsStay
<1>4. ASSUME NEW s \in {"make", "activate", "insert", "bind"}, Then(p, s)
      PROVE  AgentsWorked'
      <2>1. Goto(p, Stepped(call[p], s, call[p].wt))
            BY <1>1, <1>4, ThenSteps DEF Then, Goto
      <2> QED BY <1>3, <2>1
<1>5. CASE call[p].kind # "run" /\ Return(p)
      <2>1. StaysMarked(p)
            BY <1>5 DEF StaysMarked, Marked
      <2> QED BY <1>1, <1>2, <1>5, <2>1, ReturnWent, AgentsStay
<1> QED BY <1>3, <1>4, <1>5
        DEF Prepare, LookUpContext, MakeFolder, InsertWorktree, BindContext, Stepped

LEMMA RunHooksAgents ==
    ASSUME AgentsInv, NEW p \in Proc, RunHooks(p)
    PROVE  AgentsWorked'
<1>1. HooksInv /\ ShapedCall(p, call[p]) /\ call[p] \in Call
      BY CallTyped DEF AgentsInv
<1>2. faults' = faults /\ agent' = agent
      BY DEF RunHooks, CompleteTask, StartPipeline, OpenCheckpoint, CloseCheckpoint, OpenMerge,
             CopyOutput, CloseMerge, OpenCleanup, RemoveFolder, MarkCleaned, MarkContextCleaned,
             CloseCleanup, ReleaseWorktree, rows, files, bounds
<1>3. DoneStays
      <2>1. CASE CompleteTask(p)
            <3>1. CASE \E next : /\ ValidTransition(status[TaskOf(p)], next)
                                 /\ status' = [status EXCEPT ![TaskOf(p)] = next]
                  BY <1>1, <3>1, TransitionTyped DEF DoneStays, HooksInv, TypeOK
            <3>2. CASE UNCHANGED status
                  BY <3>2 DEF DoneStays
            <3> QED BY <2>1, <3>1, <3>2 DEF CompleteTask
      <2>2. CASE ~CompleteTask(p)
            <3>1. UNCHANGED status
                  BY <2>2
                     DEF RunHooks, StartPipeline, OpenCheckpoint, CloseCheckpoint, OpenMerge,
                         CopyOutput, CloseMerge, OpenCleanup, RemoveFolder, MarkCleaned,
                         MarkContextCleaned, CloseCleanup, ReleaseWorktree, rows
            <3> QED BY <3>1 DEF DoneStays
      <2> QED BY <2>1, <2>2
<1>4. ASSUME NEW s, NEW w, Goto(p, Stepped(call[p], s, w)),
             s \in {"pipeline", "checkpoint", "emit", "checkpointing", "merge", "copy", "merging",
                    "cleanup", "remove", "mark", "unbind", "cleaning"}
                 \/ (s = "close" /\ call[p].step = "release")
      PROVE  AgentsWorked'
      <2>1. StaysMarked(p)
            BY <1>1, <1>4, ThenMarked
      <2> QED BY <1>1, <1>2, <1>3, <1>4, <2>1, WentTo, AgentsStay
<1>5. ASSUME NEW s, Then(p, s),
             s \in {"pipeline", "checkpoint", "emit", "checkpointing", "merge", "copy", "merging",
                    "cleanup", "remove", "mark", "unbind", "cleaning"}
                 \/ (s = "close" /\ call[p].step = "release")
      PROVE  AgentsWorked'
      <2>1. Goto(p, Stepped(call[p], s, call[p].wt))
            BY <1>1, <1>5, ThenSteps DEF Then, Goto
      <2> QED BY <1>4, <1>5, <2>1
<1>6. CASE call[p].kind # "run" /\ Return(p)
      <2>1. StaysMarked(p)
            BY <1>6 DEF StaysMarked, Marked
      <2> QED BY <1>1, <1>2, <1>3, <1>6, <2>1, ReturnWent, AgentsStay
<1>7. CASE Raised(p) /\ call[p].step \in Hooking \cup {"complete"}
      BY <1>1, <1>2, <1>3, <1>7, RaisedMarked, AgentsStay
<1>8. CASE CompleteTask(p)
      BY <1>5, <1>6, <1>7, <1>8 DEF CompleteTask, At
<1>9. CASE OpenMerge(p) \/ OpenCleanup(p)
      BY <1>4, <1>5, <1>7, <1>9 DEF OpenMerge, OpenCleanup, At, Hooking, Stepped
<1>10. CASE StartPipeline(p) \/ CloseCleanup(p) \/ MarkCleaned(p) \/ ReleaseWorktree(p)
      BY <1>5, <1>6, <1>10
         DEF StartPipeline, CloseCleanup, AfterPipeline, InPipeline, MarkCleaned, ReleaseWorktree, At
<1>11. CASE \/ OpenCheckpoint(p) \/ CopyOutput(p) \/ RemoveFolder(p) \/ MarkContextCleaned(p)
            \/ CloseCheckpoint(p) \/ CloseMerge(p)
      BY <1>5, <1>6, <1>11
         DEF OpenCheckpoint, CopyOutput, RemoveFolder, MarkContextCleaned, CloseCheckpoint,
             CloseMerge, InPipeline
<1> QED BY <1>8, <1>9, <1>10, <1>11 DEF RunHooks

LEMMA RunAgents ==
    ASSUME AgentsInv, NEW r \in Runner, Run(r)
    PROVE  AgentsWorked'
<1>1. /\ HooksInv /\ ShapedCall(r, call[r]) /\ call[r] \in Call /\ r \in Proc
      /\ ~At(r, "idle") => TaskOf(r) \in Task
      BY CallTyped DEF AgentsInv, Proc
<1>2. faults' = faults
      BY DEF Run, MarkRunning, ActivateWorktree, StartContext, WriteOutput, RegisterOutput,
             EmitEvent, SettleAgent, Finalize, Abort, CloseContext, ReportBlocked, BlockAgent,
             bounds
<1>3. CASE \/ ActivateWorktree(r) \/ StartContext(r) \/ WriteOutput(r) \/ RegisterOutput(r)
           \/ EmitEvent(r)
      <2>1. agent' = agent /\ status' = status /\ DoneStays
            BY <1>3 DEF ActivateWorktree, StartContext, WriteOutput, RegisterOutput, EmitEvent,
                        rows, DoneStays
      <2>2. PICK s \in {"start", "work", "register", "complete", "settle"} : Then(r, s)
            BY <1>3 DEF ActivateWorktree, StartContext, WriteOutput, RegisterOutput, EmitEvent
      <2>3. Goto(r, Stepped(call[r], s, call[r].wt))
            BY <1>1, <2>2, ThenSteps DEF Then, Goto
      <2>4. StaysMarked(r)
            BY <1>1, <2>3, ThenMarked
      <2> QED BY <1>1, <1>2, <2>1, <2>3, <2>4, WentTo, AgentsStay
<1>4. CASE Finalize(r) \/ Abort(r) \/ CloseContext(r)
      <2>1. agent' = agent /\ status' = status /\ DoneStays
            BY <1>4 DEF Finalize, Abort, CloseContext, rows, DoneStays
      <2>2. CASE Finalize(r)
            <3>1. StaysMarked(r)
                  BY <2>2 DEF Finalize, At, StaysMarked, Marked
            <3>2. \A q \in Proc \ {r} : call'[q] = call[q]
                  BY <1>1, <2>2 DEF Finalize, Return, Goto, HooksInv, TypeOK
            <3> QED BY <1>1, <1>2, <2>1, <3>1, <3>2, AgentsStay
      <2>3. CASE Abort(r)
            <3>1. ASSUME NEW s \in {"release", "report"}, NEW w, Goto(r, Stepped(call[r], s, w))
                  PROVE  AgentsWorked'
                  <4>1. StaysMarked(r) /\ \A q \in Proc \ {r} : call'[q] = call[q]
                        BY <1>1, <2>3, <3>1, ThenMarked, WentTo DEF Abort, At
                  <4> QED BY <1>1, <1>2, <2>1, <4>1, AgentsStay
            <3>2. CASE Then(r, "report")
                  <4>1. Goto(r, Stepped(call[r], "report", call[r].wt))
                        BY <1>1, <3>2, ThenSteps DEF Then, Goto
                  <4> QED BY <3>1, <4>1
            <3>3. CASE Goto(r, Stepped(call[r], "release", context[TaskOf(r)].worktree))
                  BY <3>1, <3>3
            <3> QED BY <2>3, <3>2, <3>3 DEF Abort, Stepped
      <2>4. CASE CloseContext(r) /\ call[r].final = "completed"
            <3>1. StaysMarked(r)
                  BY <2>4 DEF CloseContext, At, StaysMarked, Marked
            <3>2. \A q \in Proc \ {r} : call'[q] = call[q]
                  BY <1>1, <2>4, ReturnWent DEF CloseContext
            <3> QED BY <1>1, <1>2, <2>1, <3>1, <3>2, AgentsStay
      <2>5. CASE CloseContext(r) /\ call[r].final # "completed"
            <3>1. Goto(r, Stepped(call[r], "report", call[r].wt))
                  BY <1>1, <2>5, ThenSteps DEF CloseContext, Then, Goto
            <3>2. StaysMarked(r) /\ \A q \in Proc \ {r} : call'[q] = call[q]
                  BY <1>1, <3>1, ThenMarked, WentTo
            <3> QED BY <1>1, <1>2, <2>1, <3>2, AgentsStay
      <2> QED BY <1>4, <2>2, <2>3, <2>4, <2>5
<1>5. CASE ReportBlocked(r)
      <2>1. /\ call[r].step = "report" /\ TaskOf(r) \in Task /\ agent' = agent
            BY <1>1, <1>5 DEF ReportBlocked, At
      <2>2. CASE ValidTransition(status[TaskOf(r)], "blocked")
            <3>1. status' = [status EXCEPT ![TaskOf(r)] = "blocked"] /\ Then(r, "fail")
                  BY <1>5, <2>2 DEF ReportBlocked
            <3>2. status[TaskOf(r)] # "done"
                  BY <2>2, TransitionTyped
            <3>3. DoneStays
                  BY <1>1, <3>1, <3>2 DEF DoneStays, HooksInv, TypeOK
            <3>4. Goto(r, Stepped(call[r], "fail", call[r].wt))
                  BY <1>1, <3>1, ThenSteps DEF Then, Goto
            <3>5. StaysMarked(r) /\ \A q \in Proc \ {r} : call'[q] = call[q]
                  BY <1>1, <3>4, ThenMarked, WentTo
            <3> QED BY <1>1, <1>2, <2>1, <3>3, <3>5, AgentsStay
      <2>3. CASE ~ValidTransition(status[TaskOf(r)], "blocked")
            <3>1. Return(r) /\ status' = status
                  BY <1>5, <2>3 DEF ReportBlocked
            <3>2. status[TaskOf(r)] \in TaskStatus
                  BY <1>1, <2>1 DEF HooksInv, TypeOK
            <3>3. status[TaskOf(r)] = "done"
                  BY <2>3, <3>2 DEF ValidTransition, TaskTransitions, TaskStatus
            <3>4. DoneStays /\ StaysMarked(r)
                  BY <3>1, <3>3 DEF DoneStays, StaysMarked
            <3> QED BY <1>1, <1>2, <2>1, <3>1, <3>4, ReturnWent, AgentsStay
      <2> QED BY <2>2, <2>3
<1>6. CASE MarkRunning(r) \/ SettleAgent(r) \/ BlockAgent(r)
      <2> DEFINE a == OwnerOf[TaskOf(r)]
      <2>1. /\ call[r].step \in {"claimed", "settle", "fail"} /\ TaskOf(r) \in Task /\ a \in Owner
            /\ call[r].kind = "run" /\ status' = status
            BY <1>1, <1>6, ConstantsAssumption
               DEF MarkRunning, SettleAgent, BlockAgent, At, ShapedCall
      <2>2. agent \in [Owner -> AgentRow]
            BY <1>1 DEF HooksInv, TypeOK
      <2>3. \A b \in Owner \ {a} : agent'[b] = agent[b]
            BY <1>6, <2>2 DEF MarkRunning, SettleAgent, BlockAgent, SetAgent
      <2>4. \A q \in Proc \ {r} : call'[q] = call[q]
            BY <1>1, <1>6, ThenWent, ReturnWent DEF MarkRunning, SettleAgent, BlockAgent
      <2>5. /\ agent'[a].state = "executing" => MarkRunning(r)
            /\ MarkRunning(r) => agent'[a].task = TaskOf(r)
            <3>1. CASE MarkRunning(r)
                  BY <2>1, <2>2, <3>1 DEF MarkRunning, SetAgent
            <3>2. CASE SettleAgent(r)
                  <4>1. agent'[a].state = "idle"
                        BY <2>1, <2>2, <3>2 DEF SettleAgent, SetAgent
                  <4> QED BY <3>2, <4>1, <2>1 DEF MarkRunning, SettleAgent, At
            <3>3. CASE BlockAgent(r)
                  <4>1. agent'[a].state = "blocked"
                        BY <2>1, <2>2, <3>3 DEF BlockAgent, SetAgent
                  <4> QED BY <3>3, <4>1, <2>1 DEF MarkRunning, BlockAgent, At
            <3> QED BY <1>6, <3>1, <3>2, <3>3
      <2>6. MarkRunning(r) => call'[r].task = TaskOf(r) /\ Marked(call'[r])
            BY <1>1, <2>1, ThenWent DEF MarkRunning, Marked
      <2> HIDE DEF a
      <2> SUFFICES ASSUME faults = 0, NEW b \in Owner, agent'[b].state = "executing", NEW t,
                          t = agent'[b].task
                   PROVE  /\ t \in Task /\ OwnerOf[t] = b
                          /\ \/ \E q \in Runner : call'[q].task = t /\ Marked(call'[q])
                             \/ status'[t] = "done"
          BY <1>2 DEF AgentsWorked, TaskOf, Marked
      <2>7. CASE b = a
            BY <2>1, <2>5, <2>6, <2>7 DEF a
      <2>8. CASE b # a
            <3>1. /\ t \in Task /\ OwnerOf[t] = b
                  /\ (\E q \in Runner : TaskOf(q) = t /\ Marked(call[q])) \/ status[t] = "done"
                  BY <2>3, <2>8 DEF AgentsInv, AgentsWorked
            <3>2. TaskOf(r) # t
                  BY <2>8, <3>1 DEF a
            <3>3. \A q \in Runner : TaskOf(q) = t => call'[q] = call[q]
                  BY <2>4, <3>2 DEF Proc
            <3> QED BY <2>1, <3>1, <3>3 DEF TaskOf
      <2> QED BY <2>7, <2>8
<1> QED BY <1>3, <1>4, <1>5, <1>6 DEF Run

LEMMA NextAgents == AgentsInv /\ [Next]_vars => AgentsWorked'
<1> SUFFICES ASSUME AgentsInv, [Next]_vars
             PROVE  AgentsWorked'
    OBVIOUS
<1>1. HooksInv /\ faults \in Nat
      BY DEF AgentsInv, HooksInv, TypeOK
<1>2. ASSUME NEW p \in Proc, Prepare(p) \/ RunHooks(p)
      PROVE  AgentsWorked'
      BY <1>2, PrepareAgents, RunHooksAgents
<1>3. ASSUME NEW p \in Proc, OperationRaises(p) \/ ProcessDies(p)
      PROVE  AgentsWorked'
      <2>1. faults' # 0
            BY <1>1, <1>3 DEF OperationRaises, ProcessDies
      <2> QED BY <2>1 DEF AgentsWorked
<1>4. ASSUME NEW r \in Runner, ClaimTask(r)
      PROVE  AgentsWorked'
      <2>1. r \in Proc /\ faults' = faults /\ agent' = agent
            BY <1>4 DEF ClaimTask, Proc, bounds
      <2>2. DoneStays
            BY <1>1, <1>4 DEF ClaimTask, DoneStays, HooksInv, TypeOK
      <2>3. StaysMarked(r)
            <3>1. ~Marked(call[r])
                  BY <1>1, <1>4, <2>1, CallTyped DEF ClaimTask, At, Marked, ShapedCall
            <3> QED BY <3>1 DEF StaysMarked
      <2>4. \A q \in Proc \ {r} : call'[q] = call[q]
            BY <1>1, <1>4 DEF ClaimTask, Goto, HooksInv, TypeOK
      <2> QED BY <2>1, <2>2, <2>3, <2>4, AgentsStay
<1>5. ASSUME NEW r \in Runner, Run(r)
      PROVE  AgentsWorked'
      BY <1>5, RunAgents
<1>6. ASSUME NEW o \in Operator, PostTaskRequest(o) \/ PostWorktreeRequest(o)
      PROVE  AgentsWorked'
      <2>1. o \in Proc /\ faults' = faults /\ agent' = agent /\ DoneStays
            BY <1>6 DEF PostTaskRequest, PostWorktreeRequest, Proc, rows, DoneStays
      <2>2. StaysMarked(o)
            <3>1. ~Marked(call[o])
                  BY <1>1, <1>6, <2>1, CallTyped
                     DEF PostTaskRequest, PostWorktreeRequest, At, Marked, ShapedCall
            <3> QED BY <3>1 DEF StaysMarked
      <2>3. \A q \in Proc \ {o} : call'[q] = call[q]
            BY <1>1, <1>6 DEF PostTaskRequest, PostWorktreeRequest, Goto, HooksInv, TypeOK
      <2> QED BY <2>1, <2>2, <2>3, AgentsStay
<1>7. CASE UNCHANGED vars
      BY <1>7 DEF AgentsInv, AgentsWorked, vars, rows, bounds, TaskOf, Marked
<1> QED BY <1>2, <1>3, <1>4, <1>5, <1>6, <1>7 DEF Next

LEMMA InitAgents == Init => AgentsWorked
BY DEF Init, AgentsWorked

\* While nothing raises and nobody dies, an agent that is said to be executing
\* has a runner at its task that has not given it up yet, or the task was
\* finished by somebody else (runner.py).
THEOREM AgentsAreReleased == Spec => []AgentReleased
<1>1. Init => AgentsInv
      BY InitSafe, InitAgents DEF AgentsInv
<1>2. AgentsInv /\ [Next]_vars => AgentsInv'
      BY NextSafe, NextAgents DEF AgentsInv
<1>3. AgentsInv => AgentReleased
      <2>1. ASSUME HooksInv, NEW r \in Runner, Marked(call[r])
            PROVE  ~At(r, "idle")
            BY <2>1, CallTyped DEF Marked, ShapedCall, At, Proc
      <2> QED BY <2>1 DEF AgentsInv, AgentsWorked, AgentReleased
<1> QED BY <1>1, <1>2, <1>3, PTL DEF Spec

-----------------------------------------------------------------------------
(* What one runner keeps, while the requests only set the statuses of tasks *)
(* that are not finished.                                                  *)

Alone ==
    /\ \A r, s \in Runner : r = s
    /\ Requests \subseteq TaskStatus \ {"done"}

OperatorsPlain == \A o \in Operator : call[o].step \in {"idle", "complete"}

\* A context is bound to a worktree of its task, and an output was made in one.
ContextsBound ==
    \A t \in Task :
        /\ context[t].worktree # None => worktree[context[t].worktree].task = t
        /\ Bound(t) => context[t].worktree # None
        /\ output[t] # None => Bound(t)

\* A pass writes where nothing is lost, and removes what it has copied.
PassSound(r, c) ==
    LET t == c.task
        s == c.step
        w == c.wt
    IN  /\ w # None => worktree[w].task = t
        /\ s \in {"bind", "activate", "start", "remove", "mark", "unbind", "release", "close"} =>
              w # None
        /\ s \in {"activate", "start", "work", "register", "complete"} \cup Hooking => Bound(t)
        /\ s = "make" => output[t] = None \/ folder[t] = "missing"
        /\ s \in {"register", "complete", "pipeline", "checkpoint", "checkpointing", "merge",
                  "copy"} => folder[t] = r
        /\ s \in {"merging", "cleanup", "remove", "mark", "unbind", "cleaning"} => merged[t] = r
        /\ s \in Hooking => status[t] = "done"

PassesSound == \A r \in Runner : ~At(r, "idle") => PassSound(r, call[r])

\* Where a pass is between two rows that belong together.
RowsStory(c) ==
    LET t == c.task
        s == c.step
        w == c.wt
    IN  /\ s \notin {"make", "insert", "bind", "start", "mark", "unbind", "close"} => Settled(t)
        /\ s \in {"activate", "start", "remove", "mark", "unbind", "release", "close"} =>
              w = context[t].worktree /\ Bound(t)
        /\ s \in {"insert", "bind", "activate", "start", "work", "abort", "release", "close"} =>
              folder[t] # "missing"
        /\ s \in {"mark", "unbind"} => folder[t] = "missing"
        /\ s = "bind" => worktree[w].status = "prepared"
        /\ s = "start" => worktree[w].status = "active"
        /\ s = "unbind" => worktree[w].status = "cleaned"
        /\ s = "close" => worktree[w].status =
                              IF c.final = "completed" THEN "released" ELSE "blocked"

RowsAgree ==
    faults = 0 =>
        /\ \A t \in Task : Settled(t) \/ \E r \in Runner : ~At(r, "idle") /\ TaskOf(r) = t
        /\ \A r \in Runner : ~At(r, "idle") => RowsStory(call[r])

KeptInv ==
    /\ HooksInv /\ OperatorsPlain /\ ContextsBound /\ PassesSound
    /\ OutputKept /\ FailureKept /\ RowsAgree

\* What is true of each task.
TaskSound(t) ==
    /\ context[t].worktree # None => worktree[context[t].worktree].task = t
    /\ Bound(t) => context[t].worktree # None
    /\ output[t] # None => Bound(t)
    /\ output[t] # None => output[t] \in {folder[t], merged[t]}
    /\ output[t] # None /\ folder[t] = "missing" => status[t] = "done"

LEMMA TasksSound ==
    ASSUME KeptInv, NEW t \in Task
    PROVE  TaskSound(t)
BY DEF KeptInv, ContextsBound, OutputKept, FailureKept, TaskSound

\* A step that touches the rows and files of one task.
Elsewhere(t) ==
    /\ \A u \in Task \ {t} :
          /\ status'[u] = status[u] /\ context'[u] = context[u] /\ folder'[u] = folder[u]
          /\ output'[u] = output[u] /\ merged'[u] = merged[u]
    /\ \A w \in Worktree :
          worktree[w].status # "absent" =>
              /\ worktree'[w].task = worktree[w].task
              /\ worktree[w].task # t => worktree'[w] = worktree[w]

LEMMA ElsewhereStays ==
    ASSUME KeptInv, NEW t \in Task, Elsewhere(t), NEW u \in Task \ {t}
    PROVE  TaskSound(u)' /\ (Settled(u) => Settled(u)')
<1>1. /\ status'[u] = status[u] /\ context'[u] = context[u] /\ folder'[u] = folder[u]
      /\ output'[u] = output[u] /\ merged'[u] = merged[u]
      BY DEF Elsewhere
<1>2. /\ TaskSound(u) /\ Known(context[u].worktree)
      /\ context[u].worktree \in Worktree \cup {None}
      BY TasksSound DEF KeptInv, HooksInv, TypeOK, ContextRow, RowsShaped
<1>3. context[u].worktree # None => worktree'[context[u].worktree] = worktree[context[u].worktree]
      BY <1>2 DEF Elsewhere, Known, TaskSound
<1>4. TaskSound(u)'
      BY <1>1, <1>2, <1>3 DEF TaskSound, Bound
<1>5. Settled(u) => Settled(u)'
      BY <1>1, <1>2, <1>3 DEF Settled, Bound, TaskSound
<1> QED BY <1>4, <1>5

\* What a step of the runner has to show.
LEMMA KeptStep ==
    ASSUME Alone, KeptInv, HooksInv', NEW r \in Runner, NEW t \in Task, Elsewhere(t),
           ~At(r, "idle") => TaskOf(r) = t,
           \A q \in Proc \ {r} : call'[q] = call[q],
           faults' \in {faults, faults + 1},
           TaskSound(t)',
           call'[r].step # "idle" => call'[r].task = t /\ PassSound(r, call[r])',
           faults' = 0 => IF call'[r].step = "idle" THEN Settled(t)' ELSE RowsStory(call[r])'
    PROVE  KeptInv'
<1>1. \A q \in Runner : q = r
      BY DEF Alone
<1>2. \A o \in Operator : o \in Proc \ {r}
      BY ConstantsAssumption DEF Proc
<1>3. OperatorsPlain'
      BY <1>2 DEF KeptInv, OperatorsPlain
<1>4. \A u \in Task : TaskSound(u)'
      BY ElsewhereStays
<1>5. ContextsBound' /\ OutputKept' /\ FailureKept'
      BY <1>4 DEF TaskSound, ContextsBound, OutputKept, FailureKept
<1>6. PassesSound'
      BY <1>1 DEF PassesSound, At
<1>7. RowsAgree'
      <2> SUFFICES ASSUME faults' = 0
                   PROVE  /\ \A u \in Task : Settled(u)'
                                \/ \E q \in Runner : ~At(q, "idle")' /\ TaskOf(q)' = u
                          /\ \A q \in Runner : ~At(q, "idle")' => RowsStory(call[q])'
          BY DEF RowsAgree
      <2>1. faults = 0
            BY DEF KeptInv, HooksInv, TypeOK
      <2>2. \A u \in Task \ {t} : Settled(u)'
            <3>1. \A u \in Task \ {t} : Settled(u)
                  BY <1>1, <2>1 DEF KeptInv, RowsAgree
            <3> QED BY <3>1, ElsewhereStays
      <2>3. call'[r].step # "idle" => (~At(r, "idle")' /\ TaskOf(r)' = t)
            BY DEF At, TaskOf
      <2>4. call'[r].step = "idle" => Settled(t)'
            BY DEF KeptInv
      <2>5. \A u \in Task : Settled(u)' \/ \E q \in Runner : ~At(q, "idle")' /\ TaskOf(q)' = u
            BY <2>2, <2>3, <2>4
      <2>6. \A q \in Runner : ~At(q, "idle")' => RowsStory(call[q])'
            BY <1>1 DEF At
      <2> QED BY <2>5, <2>6
<1> QED BY <1>3, <1>5, <1>6, <1>7 DEF KeptInv

LEMMA PassFacts ==
    ASSUME Alone, KeptInv, NEW r \in Runner, ~At(r, "idle")
    PROVE  /\ HooksInv /\ r \in Proc /\ TaskOf(r) \in Task /\ faults \in Nat
           /\ call[r] \in Call /\ ShapedCall(r, call[r]) /\ call[r].kind = "run"
           /\ PassSound(r, call[r]) /\ (faults = 0 => RowsStory(call[r]))
           /\ TaskSound(TaskOf(r)) /\ output[TaskOf(r)] \in {None, r}
           /\ call[r].wt # None =>
                 call[r].wt \in Worktree /\ worktree[call[r].wt].status # "absent"
<1>1. HooksInv /\ r \in Proc /\ faults \in Nat
      BY DEF KeptInv, HooksInv, TypeOK, Proc
<1>2. /\ TaskOf(r) \in Task /\ call[r] \in Call /\ ShapedCall(r, call[r])
      /\ call[r].kind = "run"
      BY <1>1, CallTyped DEF ShapedCall, At
<1>3. PassSound(r, call[r]) /\ (faults = 0 => RowsStory(call[r]))
      BY DEF KeptInv, PassesSound, RowsAgree
<1>4. TaskSound(TaskOf(r))
      BY <1>2, TasksSound
<1>5. output[TaskOf(r)] \in {None, r}
      BY <1>1, <1>2 DEF Alone, HooksInv, TypeOK
<1>6. call[r].wt # None => call[r].wt \in Worktree /\ worktree[call[r].wt].status # "absent"
      BY <1>1, <1>2 DEF Call, HooksInv, RowsShaped, Known
<1> QED BY <1>1, <1>2, <1>3, <1>4, <1>5, <1>6

\* A step that leaves rows and files as they are.
LEMMA KeptCall ==
    ASSUME Alone, KeptInv, HooksInv', NEW r \in Runner, ~At(r, "idle"), NEW c, Goto(r, c),
           UNCHANGED <<status, context, worktree, folder, output, merged>>,
           faults' \in {faults, faults + 1},
           c.step # "idle" => c.task = TaskOf(r) /\ PassSound(r, c),
           faults' = 0 => IF c.step = "idle" THEN Settled(TaskOf(r)) ELSE RowsStory(c)
    PROVE  KeptInv'
<1>1. TaskOf(r) \in Task /\ TaskSound(TaskOf(r)) /\ r \in Proc
      BY PassFacts
<1>2. call'[r] = c /\ \A q \in Proc \ {r} : call'[q] = call[q]
      BY <1>1 DEF Goto, KeptInv, HooksInv, TypeOK
<1> SUFFICES ASSUME NEW t \in Task, t = TaskOf(r)
             PROVE  KeptInv'
    BY <1>1
<1>3. Elsewhere(t) /\ TaskSound(t)'
      BY <1>1 DEF Elsewhere, TaskSound, Bound
<1>4. Settled(t)' = Settled(t)
      BY DEF Settled, Bound
<1>5. PassSound(r, c) => PassSound(r, call[r])'
      BY <1>2 DEF PassSound, Bound
<1>6. RowsStory(c) => RowsStory(call[r])'
      BY <1>2 DEF RowsStory, Settled, Bound
<1> QED BY <1>2, <1>3, <1>4, <1>5, <1>6, KeptStep

\* The step and the worktree id fit what the pass has done.
Fits(r, s, w) ==
    \A c : c.step = s /\ c.wt = w /\ c.task = TaskOf(r) /\ c.final = call[r].final =>
              PassSound(r, c) /\ (faults = 0 => RowsStory(c))

LEMMA KeptMove ==
    ASSUME Alone, KeptInv, HooksInv', NEW r \in Runner, ~At(r, "idle"), NEW s, s # "idle", NEW w,
           Goto(r, Stepped(call[r], s, w)), Fits(r, s, w), faults' = faults,
           UNCHANGED <<status, context, worktree, folder, output, merged>>
    PROVE  KeptInv'
<1>1. call[r] \in Call
      BY PassFacts
<1> DEFINE c == Stepped(call[r], s, w)
<1>2. c.step = s /\ c.wt = w /\ c.task = TaskOf(r) /\ c.final = call[r].final /\ Goto(r, c)
      BY <1>1 DEF Stepped, Call, TaskOf
<1> HIDE DEF c
<1>3. PassSound(r, c) /\ (faults = 0 => RowsStory(c))
      BY <1>2 DEF Fits
<1> QED BY <1>2, <1>3, KeptCall

LEMMA KeptThen ==
    ASSUME Alone, KeptInv, HooksInv', NEW r \in Runner, ~At(r, "idle"), NEW s, s # "idle",
           Then(r, s), Fits(r, s, call[r].wt), faults' = faults,
           UNCHANGED <<status, context, worktree, folder, output, merged>>
    PROVE  KeptInv'
<1>1. Goto(r, Stepped(call[r], s, call[r].wt))
      BY PassFacts, ThenSteps DEF Then, Goto
<1> QED BY <1>1, KeptMove

LEMMA KeptReturn ==
    ASSUME Alone, KeptInv, HooksInv', NEW r \in Runner, ~At(r, "idle"), Return(r),
           faults' \in {faults, faults + 1}, faults' = 0 => Settled(TaskOf(r)),
           UNCHANGED <<status, context, worktree, folder, output, merged>>
    PROVE  KeptInv'
BY KeptCall DEF Return, IdleCall

\* The steps before and after which a task's rows tell the same story, with no
\* change to them.
LEMMA FitsOn ==
    ASSUME Alone, KeptInv, NEW r \in Runner, NEW s,
           <<call[r].step, s>> \in
               {<<"claimed", "lookup">>, <<"emit", "settle">>, <<"settle", "finalize">>,
                <<"pipeline", "checkpoint">>, <<"pipeline", "emit">>,
                <<"checkpoint", "checkpointing">>, <<"checkpointing", "merge">>,
                <<"merge", "copy">>, <<"merging", "cleanup">>, <<"cleaning", "emit">>,
                <<"abort", "report">>}
    PROVE  Fits(r, s, call[r].wt)
<1>1. ~At(r, "idle")
      BY DEF At
<1>2. PassSound(r, call[r]) /\ (faults = 0 => RowsStory(call[r]))
      BY <1>1, PassFacts
<1> SUFFICES ASSUME NEW c, c.step = s, c.wt = call[r].wt, c.task = TaskOf(r)
             PROVE  PassSound(r, c) /\ (faults = 0 => RowsStory(c))
    BY DEF Fits
<1>3. PassSound(r, c)
      BY <1>2 DEF PassSound, Hooking, TaskOf
<1>4. faults = 0 => RowsStory(c)
      BY <1>2 DEF RowsStory, TaskOf
<1> QED BY <1>3, <1>4

LEMMA KeptOn ==
    ASSUME Alone, KeptInv, HooksInv', NEW r \in Runner,
           \/ MarkRunning(r) \/ EmitEvent(r) \/ SettleAgent(r) \/ BlockAgent(r)
           \/ StartPipeline(r) \/ OpenCheckpoint(r) \/ CloseCheckpoint(r) \/ OpenMerge(r)
           \/ CloseMerge(r) \/ CloseCleanup(r)
    PROVE  KeptInv'
<1>1. /\ ~At(r, "idle") /\ faults' = faults
      /\ UNCHANGED <<status, context, worktree, folder, output, merged>>
      BY DEF MarkRunning, EmitEvent, SettleAgent, BlockAgent, StartPipeline, OpenCheckpoint,
             CloseCheckpoint, OpenMerge, CloseMerge, CloseCleanup, At, rows, files, bounds
<1>2. /\ call[r].kind = "run" /\ PassSound(r, call[r]) /\ (faults = 0 => RowsStory(call[r]))
      BY <1>1, PassFacts
<1>3. CASE BlockAgent(r)
      <2>1. Return(r) /\ (faults = 0 => Settled(TaskOf(r)))
            BY <1>2, <1>3 DEF BlockAgent, At, RowsStory, TaskOf
      <2> QED BY <1>1, <2>1, KeptReturn
<1>4. CASE MarkRunning(r) \/ EmitEvent(r) \/ SettleAgent(r) \/ OpenCheckpoint(r)
      BY <1>1, <1>4, FitsOn, KeptThen DEF MarkRunning, EmitEvent, SettleAgent, OpenCheckpoint, At
<1>5. CASE StartPipeline(r) \/ CloseCheckpoint(r)
      BY <1>1, <1>2, <1>5, FitsOn, KeptThen
         DEF StartPipeline, CloseCheckpoint, AfterPipeline, InPipeline, At
<1>6. CASE OpenMerge(r)
      <2>1. Bound(TaskOf(r))
            BY <1>2, <1>6 DEF OpenMerge, At, PassSound, Hooking, TaskOf
      <2> QED BY <1>1, <1>6, <2>1, FitsOn, KeptThen DEF OpenMerge, At
<1>7. CASE CloseMerge(r) \/ CloseCleanup(r)
      BY <1>1, <1>2, <1>7, FitsOn, KeptThen
         DEF CloseMerge, CloseCleanup, AfterPipeline, InPipeline, At
<1> QED BY <1>3, <1>4, <1>5, <1>6, <1>7

LEMMA KeptLookUp ==
    ASSUME Alone, KeptInv, HooksInv', NEW r \in Runner, LookUpContext(r)
    PROVE  KeptInv'
<1> DEFINE t == TaskOf(r)
<1>1. /\ ~At(r, "idle") /\ faults' = faults /\ call[r].step = "lookup"
      /\ UNCHANGED <<status, context, worktree, folder, output, merged>>
      BY DEF LookUpContext, At, rows, files, bounds
<1>2. /\ call[r].kind = "run" /\ PassSound(r, call[r]) /\ (faults = 0 => RowsStory(call[r]))
      /\ TaskSound(t)
      BY <1>1, PassFacts
<1>3. CASE ~Bound(t) \/ folder[t] = "missing"
      <2>1. output[t] = None \/ folder[t] = "missing"
            BY <1>2, <1>3 DEF TaskSound
      <2>2. Fits(r, "make", call[r].wt)
            BY <1>2, <2>1 DEF Fits, PassSound, RowsStory, Hooking, TaskOf
      <2> QED BY <1>1, <1>3, <2>2, KeptThen DEF LookUpContext
<1>4. CASE Bound(t) /\ folder[t] # "missing"
      <2>1. Goto(r, Stepped(call[r], "activate", context[t].worktree))
            BY <1>2, <1>4 DEF LookUpContext, Stepped
      <2>2. Settled(t) \/ faults # 0
            BY <1>1, <1>2 DEF RowsStory, TaskOf
      <2>3. context[t].worktree # None /\ worktree[context[t].worktree].task = t
            BY <1>2, <1>4 DEF TaskSound
      <2>4. Fits(r, "activate", context[t].worktree)
            BY <1>4, <2>2, <2>3 DEF Fits, PassSound, RowsStory, Hooking
      <2> QED BY <1>1, <2>1, <2>4, KeptMove
<1> QED BY <1>3, <1>4

\* What releases a workspace, or removes it.
LEMMA KeptLeave ==
    ASSUME Alone, KeptInv, HooksInv', NEW r \in Runner,
           Finalize(r) \/ Abort(r) \/ OpenCleanup(r)
    PROVE  KeptInv'
<1> DEFINE t == TaskOf(r)
<1>1. /\ ~At(r, "idle") /\ faults' = faults /\ call[r].step \in {"finalize", "abort", "cleanup"}
      /\ UNCHANGED <<status, context, worktree, folder, output, merged>>
      BY DEF Finalize, Abort, OpenCleanup, At, rows, files, bounds
<1>2. /\ PassSound(r, call[r]) /\ (faults = 0 => RowsStory(call[r])) /\ TaskSound(t)
      BY <1>1, PassFacts
<1>3. faults = 0 => Settled(t)
      BY <1>1, <1>2 DEF RowsStory, TaskOf
<1>4. CASE Return(r)
      BY <1>1, <1>3, <1>4, KeptReturn
<1>5. CASE Abort(r) /\ Then(r, "report")
      BY <1>1, <1>5, FitsOn, KeptThen DEF Abort, At
<1>6. ASSUME NEW s, Bound(t), Goto(r, Stepped(call[r], s, context[t].worktree)),
             \/ s = "release" /\ (faults = 0 => folder[t] # "missing")
             \/ s = "remove" /\ call[r].step = "cleanup"
      PROVE  KeptInv'
      <2>1. context[t].worktree # None /\ worktree[context[t].worktree].task = t
            BY <1>2, <1>6 DEF TaskSound
      <2>2. call[r].step = "cleanup" => merged[t] = r /\ status[t] = "done"
            BY <1>2 DEF PassSound, Hooking, TaskOf
      <2>3. Fits(r, s, context[t].worktree)
            BY <1>3, <1>6, <2>1, <2>2 DEF Fits, PassSound, RowsStory, Hooking
      <2> QED BY <1>1, <1>6, <2>3, KeptMove
<1>7. CASE Finalize(r) /\ ~Return(r)
      <2>1. /\ context[t].status \notin {"absent", "cleaned", "completed"}
            /\ Goto(r, Stepped(call[r], "release", context[t].worktree))
            BY <1>7 DEF Finalize, Stepped
      <2>2. Bound(t) /\ (faults = 0 => folder[t] # "missing")
            BY <1>3, <2>1 DEF Bound, Settled
      <2> QED BY <1>6, <2>1, <2>2
<1>8. CASE Abort(r) /\ Bound(t)
      <2>1. Goto(r, Stepped(call[r], "release", context[t].worktree))
            BY <1>8 DEF Abort, Stepped
      <2>2. faults = 0 => folder[t] # "missing"
            BY <1>2, <1>8 DEF Abort, At, RowsStory, TaskOf
      <2> QED BY <1>6, <1>8, <2>1, <2>2
<1>9. CASE OpenCleanup(r)
      <2>1. Bound(t)
            BY <1>2, <1>9 DEF OpenCleanup, At, PassSound, Hooking, TaskOf
      <2>2. Goto(r, Stepped(call[r], "remove", context[t].worktree))
            BY <1>9, <2>1 DEF OpenCleanup, Stepped
      <2> QED BY <1>6, <1>9, <2>1, <2>2 DEF OpenCleanup, At
<1> QED BY <1>4, <1>5, <1>7, <1>8, <1>9 DEF Abort

\* A step that changes rows or files, with what it leaves there.
LEMMA KeptThenStep ==
    ASSUME Alone, KeptInv, HooksInv', NEW r \in Runner, NEW t, t = TaskOf(r), ~At(r, "idle"),
           NEW s, s # "idle", NEW w, Goto(r, Stepped(call[r], s, w)),
           faults' = faults, Elsewhere(t), TaskSound(t)',
           \A c : c.step = s /\ c.wt = w /\ c.task = t /\ c.final = call[r].final =>
                     PassSound(r, c)' /\ (faults = 0 => RowsStory(c)')
    PROVE  KeptInv'
<1>1. call[r] \in Call /\ HooksInv /\ r \in Proc /\ t \in Task
      BY PassFacts
<1> DEFINE c == Stepped(call[r], s, w)
<1>2. c.step = s /\ c.wt = w /\ c.task = t /\ c.final = call[r].final /\ Goto(r, c)
      BY <1>1 DEF Stepped, Call, TaskOf
<1> HIDE DEF c
<1>3. call'[r] = c /\ \A q \in Proc \ {r} : call'[q] = call[q]
      BY <1>1, <1>2 DEF Goto, HooksInv, TypeOK
<1> SUFFICES ASSUME NEW d, d = c
             PROVE  KeptInv'
    OBVIOUS
<1>4. PassSound(r, d)' /\ (faults = 0 => RowsStory(d)')
      BY <1>2
<1>5. PassSound(r, call[r])' /\ (faults = 0 => RowsStory(call[r])')
      BY <1>3, <1>4 DEF PassSound, RowsStory, Settled, Bound
<1> QED BY <1>1, <1>2, <1>3, <1>5, KeptStep

LEMMA KeptMakeFolder ==
    ASSUME Alone, KeptInv, HooksInv', NEW r \in Runner, MakeFolder(r)
    PROVE  KeptInv'
<1> SUFFICES ASSUME NEW t, t = TaskOf(r)
             PROVE  KeptInv'
    OBVIOUS
<1>1. /\ ~At(r, "idle") /\ call[r].step = "make" /\ faults' = faults
      /\ UNCHANGED <<status, context, worktree, output, merged>>
      BY DEF MakeFolder, At, rows, bounds
<1>2. /\ HooksInv /\ t \in Task /\ PassSound(r, call[r]) /\ TaskSound(t) /\ output[t] \in {None, r}
      BY <1>1, PassFacts
<1>3. folder'[t] = "empty" /\ \A u \in Task \ {t} : folder'[u] = folder[u]
      BY <1>2 DEF MakeFolder, HooksInv, TypeOK
<1>4. Elsewhere(t)
      BY <1>1, <1>3 DEF Elsewhere
<1>5. TaskSound(t)'
      <2>1. r # "missing"
            BY ConstantsAssumption
      <2>2. output[t] = None \/ folder[t] = "missing"
            BY <1>1, <1>2 DEF PassSound, TaskOf
      <2> QED BY <1>1, <1>2, <1>3, <2>1, <2>2 DEF TaskSound, Bound
<1>6. Goto(r, Stepped(call[r], "insert", call[r].wt))
      BY <1>2, PassFacts, <1>1, ThenSteps DEF MakeFolder, Then, Goto
<1>7. ASSUME NEW c, c.step = "insert", c.wt = call[r].wt, c.task = t
      PROVE  PassSound(r, c)' /\ RowsStory(c)'
      BY <1>1, <1>2, <1>3, <1>7 DEF PassSound, RowsStory, Hooking, TaskOf
<1> QED BY <1>1, <1>4, <1>5, <1>6, <1>7, KeptThenStep

LEMMA KeptInsertWorktree ==
    ASSUME Alone, KeptInv, HooksInv', NEW r \in Runner, InsertWorktree(r)
    PROVE  KeptInv'
<1> SUFFICES ASSUME NEW t, t = TaskOf(r)
             PROVE  KeptInv'
    OBVIOUS
<1>1. /\ ~At(r, "idle") /\ call[r].step = "insert" /\ faults' = faults
      /\ UNCHANGED <<status, context, folder, output, merged>>
      BY DEF InsertWorktree, At, files, bounds
<1>2. /\ HooksInv /\ t \in Task /\ TaskSound(t) /\ (faults = 0 => RowsStory(call[r]))
      BY <1>1, PassFacts
<1>3. PICK w \in Worktree :
          /\ worktree[w].status = "absent"
          /\ worktree' = [worktree EXCEPT ![w] = [status |-> "prepared", task |-> t]]
          /\ Goto(r, Stepped(call[r], "bind", w))
      BY DEF InsertWorktree, Stepped
<1>4. /\ worktree'[w].status = "prepared" /\ worktree'[w].task = t /\ w # None
      /\ \A v \in Worktree \ {w} : worktree'[v] = worktree[v]
      BY <1>2, <1>3, ConstantsAssumption DEF HooksInv, TypeOK
<1>5. Elsewhere(t)
      BY <1>1, <1>3, <1>4 DEF Elsewhere
<1>6. TaskSound(t)'
      <2>1. context[t].worktree # None => context[t].worktree \in Worktree \ {w}
            BY <1>2, <1>3 DEF HooksInv, TypeOK, ContextRow, RowsShaped, Known
      <2> QED BY <1>1, <1>2, <1>4, <2>1 DEF TaskSound, Bound
<1>7. ASSUME NEW c, c.step = "bind", c.wt = w, c.task = t
      PROVE  PassSound(r, c)' /\ (faults = 0 => RowsStory(c)')
      BY <1>1, <1>2, <1>4, <1>7 DEF PassSound, RowsStory, Hooking, TaskOf
<1> QED BY <1>1, <1>3, <1>5, <1>6, <1>7, KeptThenStep

\* The rows that a pass writes.
LEMMA ContextWritten ==
    ASSUME Alone, KeptInv, NEW r \in Runner, ~At(r, "idle"), NEW t, t = TaskOf(r),
           NEW state, SetContext(r, state), call[r].wt # None,
           UNCHANGED <<status, worktree, folder, output, merged>>, state # "absent"
    PROVE  /\ context'[t].status = state /\ context'[t].worktree = call[r].wt
           /\ Bound(t)' /\ Elsewhere(t) /\ TaskSound(t)'
<1>1. HooksInv /\ t \in Task /\ TaskSound(t) /\ PassSound(r, call[r])
      BY PassFacts
<1>2. /\ context'[t].status = state /\ context'[t].worktree = call[r].wt
      /\ \A u \in Task \ {t} : context'[u] = context[u]
      BY <1>1 DEF SetContext, HooksInv, TypeOK
<1>3. worktree[call[r].wt].task = t
      BY <1>1 DEF PassSound, TaskOf
<1> QED BY <1>1, <1>2, <1>3 DEF Bound, Elsewhere, TaskSound

LEMMA WorktreeWritten ==
    ASSUME Alone, KeptInv, NEW r \in Runner, ~At(r, "idle"), NEW t, t = TaskOf(r),
           NEW state, SetWorktree(r, state), call[r].wt # None,
           UNCHANGED <<status, context, folder, output, merged>>
    PROVE  /\ worktree'[call[r].wt].status = state /\ worktree'[call[r].wt].task = t
           /\ Elsewhere(t) /\ TaskSound(t)'
<1>1. /\ HooksInv /\ t \in Task /\ TaskSound(t) /\ PassSound(r, call[r])
      /\ call[r].wt \in Worktree
      BY PassFacts
<1>2. worktree[call[r].wt].task = t
      BY <1>1 DEF PassSound, TaskOf
<1>3. /\ worktree'[call[r].wt].status = state
      /\ \A w \in Worktree : worktree'[w].task = worktree[w].task
      /\ \A w \in Worktree \ {call[r].wt} : worktree'[w] = worktree[w]
      BY <1>1 DEF SetWorktree, HooksInv, TypeOK, WorktreeRow
<1>4. context[t].worktree # None => context[t].worktree \in Worktree
      BY <1>1 DEF HooksInv, TypeOK, ContextRow
<1> QED BY <1>1, <1>2, <1>3, <1>4 DEF Bound, Elsewhere, TaskSound

LEMMA KeptReturnStep ==
    ASSUME Alone, KeptInv, HooksInv', NEW r \in Runner, NEW t, t = TaskOf(r), ~At(r, "idle"),
           Return(r), faults' = faults, Elsewhere(t), TaskSound(t)', faults = 0 => Settled(t)'
    PROVE  KeptInv'
<1>1. HooksInv /\ r \in Proc /\ t \in Task
      BY PassFacts
<1>2. call'[r].step = "idle" /\ \A q \in Proc \ {r} : call'[q] = call[q]
      BY <1>1, ReturnWent DEF IdleCall
<1> QED BY <1>1, <1>2, KeptStep

LEMMA KeptContext ==
    ASSUME Alone, KeptInv, HooksInv', NEW r \in Runner,
           BindContext(r) \/ StartContext(r) \/ MarkContextCleaned(r) \/ CloseContext(r)
    PROVE  KeptInv'
<1> SUFFICES ASSUME NEW t, t = TaskOf(r), NEW w, w = call[r].wt
             PROVE  KeptInv'
    OBVIOUS
<1>1. /\ ~At(r, "idle") /\ faults' = faults /\ call[r].step \in {"bind", "start", "unbind", "close"}
      /\ UNCHANGED <<status, worktree, folder, output, merged>>
      BY DEF BindContext, StartContext, MarkContextCleaned, CloseContext, At, files, bounds
<1>2. /\ HooksInv /\ r \in Proc /\ t \in Task /\ call[r].kind = "run"
      /\ PassSound(r, call[r]) /\ (faults = 0 => RowsStory(call[r]))
      /\ w # None /\ worktree[w].task = t
      BY <1>1, PassFacts DEF PassSound, TaskOf
<1>3. ASSUME NEW state, SetContext(r, state), state # "absent"
      PROVE  /\ context'[t].status = state /\ context'[t].worktree = w
             /\ Bound(t)' /\ Elsewhere(t) /\ TaskSound(t)'
      BY <1>1, <1>2, <1>3, ContextWritten
<1>4. ASSUME NEW s, Then(r, s), s # "idle", NEW state, SetContext(r, state), state # "absent",
             \A c : c.step = s /\ c.wt = w /\ c.task = t /\ c.final = call[r].final =>
                       PassSound(r, c)' /\ (faults = 0 => RowsStory(c)')
      PROVE  KeptInv'
      <2>1. Goto(r, Stepped(call[r], s, w))
            BY <1>2, <1>4, ThenSteps DEF Then, Goto
      <2> QED BY <1>1, <1>3, <1>4, <2>1, KeptThenStep
<1>5. CASE BindContext(r)
      <2>1. SetContext(r, "prepared") /\ Then(r, "activate") /\ call[r].step = "bind"
            BY <1>2, <1>5 DEF BindContext, At
      <2>2. context'[t].status = "prepared" /\ context'[t].worktree = w /\ Bound(t)'
            BY <1>3, <2>1
      <2>3. faults = 0 => worktree[w].status = "prepared" /\ folder[t] # "missing"
            BY <1>2, <2>1 DEF RowsStory, TaskOf
      <2>4. faults = 0 => Settled(t)'
            BY <1>1, <1>2, <2>2, <2>3 DEF Settled
      <2>5. ASSUME NEW c, c.step = "activate", c.wt = w, c.task = t
            PROVE  PassSound(r, c)' /\ (faults = 0 => RowsStory(c)')
            BY <1>1, <1>2, <2>2, <2>3, <2>4, <2>5 DEF PassSound, RowsStory, Hooking
      <2> QED BY <1>4, <2>1, <2>5
<1>6. CASE StartContext(r)
      <2>1. SetContext(r, "active") /\ Then(r, "work") /\ call[r].step = "start"
            BY <1>6 DEF StartContext, At
      <2>2. context'[t].status = "active" /\ context'[t].worktree = w /\ Bound(t)'
            BY <1>3, <2>1
      <2>3. faults = 0 => worktree[w].status = "active" /\ folder[t] # "missing"
            BY <1>2, <2>1 DEF RowsStory, TaskOf
      <2>4. faults = 0 => Settled(t)'
            BY <1>1, <1>2, <2>2, <2>3 DEF Settled
      <2>5. ASSUME NEW c, c.step = "work", c.wt = w, c.task = t
            PROVE  PassSound(r, c)' /\ (faults = 0 => RowsStory(c)')
            BY <1>1, <1>2, <2>2, <2>3, <2>4, <2>5 DEF PassSound, RowsStory, Hooking
      <2> QED BY <1>4, <2>1, <2>5
<1>7. CASE MarkContextCleaned(r)
      <2>1. SetContext(r, "cleaned") /\ Then(r, "cleaning") /\ call[r].step = "unbind"
            BY <1>7 DEF MarkContextCleaned, At
      <2>2. context'[t].status = "cleaned" /\ context'[t].worktree = w /\ Bound(t)'
            BY <1>3, <2>1
      <2>3. faults = 0 => worktree[w].status = "cleaned" /\ folder[t] = "missing"
            BY <1>2, <2>1 DEF RowsStory, TaskOf
      <2>4. faults = 0 => Settled(t)'
            BY <1>1, <1>2, <2>2, <2>3 DEF Settled
      <2>5. merged[t] = r /\ status[t] = "done"
            BY <1>2, <2>1 DEF PassSound, Hooking, TaskOf
      <2>6. ASSUME NEW c, c.step = "cleaning", c.wt = w, c.task = t
            PROVE  PassSound(r, c)' /\ (faults = 0 => RowsStory(c)')
            BY <1>1, <1>2, <2>2, <2>4, <2>5, <2>6 DEF PassSound, RowsStory, Hooking
      <2> QED BY <1>4, <2>1, <2>6
<1>8. CASE CloseContext(r)
      <2>1. /\ SetContext(r, call[r].final) /\ call[r].step = "close"
            /\ call[r].final \in {"completed", "blocked"}
            BY <1>1, <1>8, PassFacts DEF CloseContext, At, Call
      <2>2. /\ context'[t].status = call[r].final /\ context'[t].worktree = w /\ Bound(t)'
            /\ Elsewhere(t) /\ TaskSound(t)'
            BY <1>3, <2>1
      <2>3. faults = 0 =>
                /\ worktree[w].status = IF call[r].final = "completed" THEN "released" ELSE "blocked"
                /\ folder[t] # "missing"
            BY <1>2, <2>1 DEF RowsStory, TaskOf
      <2>4. faults = 0 => Settled(t)'
            BY <1>1, <1>2, <2>1, <2>2, <2>3 DEF Settled
      <2>5. CASE Return(r)
            BY <1>1, <2>2, <2>4, <2>5, KeptReturnStep
      <2>6. CASE Then(r, "report")
            <3>1. ASSUME NEW c, c.step = "report", c.wt = w, c.task = t
                  PROVE  PassSound(r, c)' /\ (faults = 0 => RowsStory(c)')
                  BY <1>1, <1>2, <2>4, <3>1 DEF PassSound, RowsStory, Hooking
            <3> QED BY <1>4, <2>1, <2>6, <3>1
      <2> QED BY <1>8, <2>5, <2>6 DEF CloseContext
<1> QED BY <1>5, <1>6, <1>7, <1>8

LEMMA KeptWorktree ==
    ASSUME Alone, KeptInv, HooksInv', NEW r \in Runner,
           ActivateWorktree(r) \/ MarkCleaned(r) \/ ReleaseWorktree(r)
    PROVE  KeptInv'
<1> SUFFICES ASSUME NEW t, t = TaskOf(r), NEW w, w = call[r].wt
             PROVE  KeptInv'
    OBVIOUS
<1>1. /\ ~At(r, "idle") /\ faults' = faults /\ call[r].step \in {"activate", "mark", "release"}
      /\ UNCHANGED <<status, context, folder, output, merged>>
      BY DEF ActivateWorktree, MarkCleaned, ReleaseWorktree, At, files, bounds
<1>2. /\ HooksInv /\ r \in Proc /\ t \in Task /\ call[r].kind = "run"
      /\ PassSound(r, call[r]) /\ (faults = 0 => RowsStory(call[r]))
      /\ w # None /\ worktree[w].task = t
      BY <1>1, PassFacts DEF PassSound, TaskOf
<1>3. faults = 0 => w = context[t].worktree /\ Bound(t)
      BY <1>1, <1>2 DEF RowsStory, TaskOf
<1>4. ASSUME NEW s, Then(r, s), NEW state, SetWorktree(r, state),
             <<call[r].step, s>> \in
                 {<<"activate", "start">>, <<"mark", "unbind">>, <<"release", "close">>},
             <<s, state>> \in {<<"start", "active">>, <<"unbind", "cleaned">>}
                 \/ (s = "close" /\ state = IF call[r].final = "completed" THEN "released"
                                            ELSE "blocked")
      PROVE  KeptInv'
      <2>1. Goto(r, Stepped(call[r], s, w)) /\ s # "idle"
            BY <1>2, <1>4, ThenSteps DEF Then, Goto
      <2>2. /\ worktree'[w].status = state /\ worktree'[w].task = t
            /\ Elsewhere(t) /\ TaskSound(t)'
            BY <1>1, <1>2, <1>4, WorktreeWritten
      <2>3. ASSUME NEW c, c.step = s, c.wt = w, c.task = t, c.final = call[r].final
            PROVE  PassSound(r, c)' /\ (faults = 0 => RowsStory(c)')
            <3>1. PassSound(r, c)'
                  BY <1>1, <1>2, <1>4, <2>2, <2>3 DEF PassSound, Hooking, Bound, TaskOf
            <3>2. faults = 0 => RowsStory(c)'
                  BY <1>1, <1>2, <1>3, <1>4, <2>2, <2>3 DEF RowsStory, Bound, TaskOf
            <3> QED BY <3>1, <3>2
      <2> QED BY <1>1, <2>1, <2>2, <2>3, KeptThenStep
<1>5. CASE ActivateWorktree(r)
      BY <1>4, <1>5 DEF ActivateWorktree, At
<1>6. CASE MarkCleaned(r)
      BY <1>2, <1>4, <1>6 DEF MarkCleaned, At
<1>7. CASE ReleaseWorktree(r)
      BY <1>2, <1>4, <1>7 DEF ReleaseWorktree, At
<1> QED BY <1>5, <1>6, <1>7

LEMMA KeptOutput ==
    ASSUME Alone, KeptInv, HooksInv', NEW r \in Runner,
           WriteOutput(r) \/ RegisterOutput(r) \/ CopyOutput(r) \/ RemoveFolder(r)
    PROVE  KeptInv'
<1> SUFFICES ASSUME NEW t, t = TaskOf(r), NEW w, w = call[r].wt
             PROVE  KeptInv'
    OBVIOUS
<1>1. /\ ~At(r, "idle") /\ faults' = faults
      /\ call[r].step \in {"work", "register", "copy", "remove"}
      /\ UNCHANGED <<status, context, worktree>>
      BY DEF WriteOutput, RegisterOutput, CopyOutput, RemoveFolder, At, rows, files, bounds
<1>2. /\ HooksInv /\ r \in Proc /\ t \in Task /\ TaskSound(t) /\ output[t] \in {None, r}
      /\ PassSound(r, call[r]) /\ (faults = 0 => RowsStory(call[r]))
      /\ r # "missing" /\ r # None
      BY <1>1, PassFacts, ConstantsAssumption
<1>3. Bound(t) /\ (faults = 0 => Settled(t))
      BY <1>1, <1>2 DEF PassSound, RowsStory, Hooking, TaskOf
<1>4. Bound(t)' = Bound(t)
      BY <1>1 DEF Bound
<1>5. ASSUME NEW s, Then(r, s), s # "idle", Elsewhere(t), TaskSound(t)',
             \A c : c.step = s /\ c.wt = w /\ c.task = t /\ c.final = call[r].final =>
                       PassSound(r, c)' /\ (faults = 0 => RowsStory(c)')
      PROVE  KeptInv'
      <2>1. Goto(r, Stepped(call[r], s, w))
            BY <1>2, <1>5, ThenSteps DEF Then, Goto
      <2> QED BY <1>1, <1>5, <2>1, KeptThenStep
<1>6. CASE WriteOutput(r)
      <2>1. /\ call[r].step = "work" /\ Then(r, "register")
            /\ UNCHANGED <<output, merged>>
            BY <1>6 DEF WriteOutput, At, rows
      <2>2. folder'[t] = r /\ \A u \in Task \ {t} : folder'[u] = folder[u]
            BY <1>2, <1>6 DEF WriteOutput, HooksInv, TypeOK
      <2>3. Elsewhere(t) /\ TaskSound(t)'
            BY <1>1, <1>2, <1>4, <2>1, <2>2 DEF Elsewhere, TaskSound
      <2>4. faults = 0 => Settled(t)'
            <3>1. faults = 0 => folder[t] # "missing"
                  BY <1>2, <2>1 DEF RowsStory, TaskOf
            <3> QED BY <1>1, <1>2, <1>3, <2>2, <3>1 DEF Settled, Bound
      <2>5. ASSUME NEW c, c.step = "register", c.wt = w, c.task = t
            PROVE  PassSound(r, c)' /\ (faults = 0 => RowsStory(c)')
            BY <1>1, <1>2, <1>3, <1>4, <2>2, <2>4, <2>5 DEF PassSound, RowsStory, Hooking, TaskOf
      <2> QED BY <1>5, <2>1, <2>3, <2>5
<1>7. CASE RegisterOutput(r)
      <2>1. /\ call[r].step = "register" /\ Then(r, "complete")
            /\ UNCHANGED <<folder, merged>> /\ folder[t] = r
            BY <1>2, <1>7 DEF RegisterOutput, At, files, PassSound, TaskOf
      <2>2. output'[t] = r /\ \A u \in Task \ {t} : output'[u] = output[u]
            BY <1>2, <1>7 DEF RegisterOutput, HooksInv, TypeOK
      <2>3. Elsewhere(t) /\ TaskSound(t)'
            BY <1>1, <1>2, <1>3, <1>4, <2>1, <2>2 DEF Elsewhere, TaskSound
      <2>4. faults = 0 => Settled(t)'
            BY <1>1, <1>3, <2>1 DEF Settled, Bound
      <2>5. ASSUME NEW c, c.step = "complete", c.wt = w, c.task = t
            PROVE  PassSound(r, c)' /\ (faults = 0 => RowsStory(c)')
            BY <1>1, <1>2, <1>3, <1>4, <2>1, <2>2, <2>4, <2>5
               DEF PassSound, RowsStory, Hooking, TaskOf
      <2> QED BY <1>5, <2>1, <2>3, <2>5
<1>8. CASE CopyOutput(r)
      <2>1. /\ call[r].step = "copy" /\ Then(r, "merging")
            /\ UNCHANGED <<folder, output>> /\ folder[t] = r /\ status[t] = "done"
            BY <1>2, <1>8 DEF CopyOutput, At, rows, PassSound, Hooking, TaskOf
      <2>2. merged'[t] = r /\ \A u \in Task \ {t} : merged'[u] = merged[u]
            BY <1>2, <1>8, <2>1 DEF CopyOutput, HooksInv, TypeOK
      <2>3. Elsewhere(t) /\ TaskSound(t)'
            BY <1>1, <1>2, <1>3, <1>4, <2>1, <2>2 DEF Elsewhere, TaskSound
      <2>4. faults = 0 => Settled(t)'
            BY <1>1, <1>3, <2>1 DEF Settled, Bound
      <2>5. ASSUME NEW c, c.step = "merging", c.wt = w, c.task = t
            PROVE  PassSound(r, c)' /\ (faults = 0 => RowsStory(c)')
            BY <1>1, <1>2, <1>3, <1>4, <2>1, <2>2, <2>4, <2>5
               DEF PassSound, RowsStory, Hooking, TaskOf
      <2> QED BY <1>5, <2>1, <2>3, <2>5
<1>9. CASE RemoveFolder(r)
      <2>1. /\ call[r].step = "remove" /\ Then(r, "mark")
            /\ UNCHANGED <<merged, output>> /\ merged[t] = r /\ status[t] = "done"
            /\ w # None /\ worktree[w].task = t
            BY <1>2, <1>9 DEF RemoveFolder, At, rows, PassSound, Hooking, TaskOf
      <2>2. folder'[t] = "missing" /\ \A u \in Task \ {t} : folder'[u] = folder[u]
            BY <1>2, <1>9, <2>1 DEF RemoveFolder, HooksInv, TypeOK
      <2>3. Elsewhere(t) /\ TaskSound(t)'
            BY <1>1, <1>2, <1>3, <1>4, <2>1, <2>2 DEF Elsewhere, TaskSound
      <2>4. faults = 0 => w = context[t].worktree
            BY <1>2, <2>1 DEF RowsStory, TaskOf
      <2>5. ASSUME NEW c, c.step = "mark", c.wt = w, c.task = t
            PROVE  PassSound(r, c)' /\ (faults = 0 => RowsStory(c)')
            BY <1>1, <1>2, <1>3, <1>4, <2>1, <2>2, <2>4, <2>5
               DEF PassSound, RowsStory, Hooking, TaskOf
      <2> QED BY <1>5, <2>1, <2>3, <2>5
<1> QED BY <1>6, <1>7, <1>8, <1>9

\* The statuses a pass sets.
LEMMA KeptStatus ==
    ASSUME Alone, KeptInv, HooksInv', NEW r \in Runner, CompleteTask(r) \/ ReportBlocked(r)
    PROVE  KeptInv'
<1> SUFFICES ASSUME NEW t, t = TaskOf(r), NEW w, w = call[r].wt
             PROVE  KeptInv'
    OBVIOUS
<1>1. /\ ~At(r, "idle") /\ faults' = faults /\ call[r].step \in {"complete", "report"}
      /\ UNCHANGED <<context, worktree, folder, output, merged>>
      BY DEF CompleteTask, ReportBlocked, At, files, bounds
<1>2. /\ HooksInv /\ r \in Proc /\ t \in Task /\ TaskSound(t) /\ call[r].kind = "run"
      /\ PassSound(r, call[r]) /\ (faults = 0 => RowsStory(call[r]))
      /\ call[r] \in Call /\ ShapedCall(r, call[r]) /\ r # "missing"
      BY <1>1, PassFacts, ConstantsAssumption
<1>3. (faults = 0 => Settled(t)) /\ Settled(t)' = Settled(t) /\ Bound(t)' = Bound(t)
      BY <1>1, <1>2 DEF RowsStory, TaskOf, Settled, Bound
<1>4. ASSUME NEW next, status' = [status EXCEPT ![t] = next], status[t] = "done" => next = "done"
      PROVE  /\ status'[t] = next /\ Elsewhere(t) /\ TaskSound(t)'
      <2>1. status'[t] = next /\ \A u \in Task \ {t} : status'[u] = status[u]
            BY <1>2, <1>4 DEF HooksInv, TypeOK
      <2> QED BY <1>1, <1>2, <1>3, <1>4, <2>1 DEF Elsewhere, TaskSound
<1>5. CASE /\ CompleteTask(r) /\ ValidTransition(status[t], "done")
      <2>1. /\ status' = [status EXCEPT ![t] = "done"] /\ Then(r, "pipeline")
            /\ call[r].step = "complete"
            BY <1>2, <1>5 DEF CompleteTask, At
      <2>2. status'[t] = "done" /\ Elsewhere(t) /\ TaskSound(t)'
            BY <1>4, <2>1
      <2>3. Goto(r, Stepped(call[r], "pipeline", w))
            BY <1>2, <2>1, ThenSteps DEF Then, Goto
      <2>4. ASSUME NEW c, c.step = "pipeline", c.wt = w, c.task = t
            PROVE  PassSound(r, c)' /\ (faults = 0 => RowsStory(c)')
            BY <1>1, <1>2, <1>3, <2>1, <2>2, <2>4 DEF PassSound, RowsStory, Hooking, TaskOf
      <2> QED BY <1>1, <2>2, <2>3, <2>4, KeptThenStep
<1>6. CASE /\ CompleteTask(r) /\ ~ValidTransition(status[t], "done")
      <2>1. Raised(r) /\ UNCHANGED status /\ call[r].step = "complete"
            BY <1>2, <1>6 DEF CompleteTask, At
      <2> DEFINE c == [call[r] EXCEPT !.step = "abort", !.final = "blocked"]
      <2>2. Goto(r, c)
            BY <1>2, <2>1 DEF Raised, Tried, ShapedCall, Hopeful, Preparing, Working, Hooking
      <2>3. c.step = "abort" /\ c.wt = w /\ c.task = t
            BY <1>2 DEF Call, TaskOf
      <2> HIDE DEF c
      <2>4. folder[t] = r
            BY <1>2, <2>1 DEF PassSound, TaskOf
      <2>5. PassSound(r, c) /\ (faults = 0 => RowsStory(c))
            BY <1>2, <1>3, <2>3, <2>4 DEF PassSound, RowsStory, Hooking, TaskOf
      <2> QED BY <1>1, <2>1, <2>2, <2>3, <2>5, KeptCall
<1>7. CASE ReportBlocked(r) /\ ValidTransition(status[t], "blocked")
      <2>1. /\ status' = [status EXCEPT ![t] = "blocked"] /\ Then(r, "fail")
            /\ call[r].step = "report"
            BY <1>7 DEF ReportBlocked, At
      <2>2. Elsewhere(t) /\ TaskSound(t)'
            <3>1. status[t] # "done"
                  BY <1>7, TransitionTyped
            <3> QED BY <1>4, <2>1, <3>1
      <2>3. Goto(r, Stepped(call[r], "fail", w))
            BY <1>2, <2>1, ThenSteps DEF Then, Goto
      <2>4. ASSUME NEW c, c.step = "fail", c.wt = w, c.task = t
            PROVE  PassSound(r, c)' /\ (faults = 0 => RowsStory(c)')
            BY <1>1, <1>2, <1>3, <2>4 DEF PassSound, RowsStory, Hooking, TaskOf
      <2> QED BY <1>1, <2>2, <2>3, <2>4, KeptThenStep
<1>8. CASE ReportBlocked(r) /\ ~ValidTransition(status[t], "blocked")
      <2>1. Return(r) /\ UNCHANGED status
            BY <1>8 DEF ReportBlocked
      <2> QED BY <1>1, <1>3, <2>1, KeptReturn
<1> QED BY <1>5, <1>6, <1>7, <1>8

LEMMA KeptClaim ==
    ASSUME Alone, KeptInv, HooksInv', NEW r \in Runner, ClaimTask(r)
    PROVE  KeptInv'
<1>1. PICK t \in Task :
          /\ status[t] = "todo"
          /\ status' = [status EXCEPT ![t] = "in_progress"]
          /\ Goto(r, [IdleCall EXCEPT !.step = "claimed", !.kind = "run", !.task = t])
      BY DEF ClaimTask
<1>2. /\ At(r, "idle") /\ faults' = faults /\ r \in Proc /\ HooksInv
      /\ UNCHANGED <<context, worktree, folder, output, merged>>
      BY DEF ClaimTask, files, bounds, Proc, KeptInv
<1>3. TaskSound(t) /\ \A u \in Task \ {t} : status'[u] = status[u]
      BY <1>1, <1>2, TasksSound DEF HooksInv, TypeOK
<1>4. /\ call'[r].step = "claimed" /\ call'[r].task = t /\ call'[r].wt = None
      /\ \A q \in Proc \ {r} : call'[q] = call[q]
      BY <1>1, <1>2 DEF Goto, HooksInv, TypeOK, IdleCall
<1>5. Elsewhere(t) /\ TaskSound(t)'
      BY <1>1, <1>2, <1>3 DEF Elsewhere, TaskSound, Bound
<1>6. faults = 0 => Settled(t)'
      <2>1. faults = 0 => Settled(t)
            BY <1>2 DEF KeptInv, RowsAgree, Alone
      <2> QED BY <1>2, <2>1 DEF Settled, Bound
<1>7. PassSound(r, call[r])' /\ (faults = 0 => RowsStory(call[r])')
      BY <1>4, <1>6 DEF PassSound, RowsStory, Hooking
<1> QED BY <1>2, <1>4, <1>5, <1>7, KeptStep

LEMMA KeptFault ==
    ASSUME Alone, KeptInv, HooksInv', NEW r \in Runner, OperationRaises(r) \/ ProcessDies(r)
    PROVE  KeptInv'
<1>1. /\ ~At(r, "idle") /\ faults' = faults + 1
      /\ UNCHANGED <<status, context, worktree, folder, output, merged>>
      BY DEF OperationRaises, ProcessDies, rows, files
<1>2. /\ HooksInv /\ call[r] \in Call /\ faults' # 0 /\ PassSound(r, call[r])
      BY <1>1, PassFacts
<1>3. ASSUME NEW c, Goto(r, c), c.step \in {"emit", "abort"}, c.wt = call[r].wt, c.task = TaskOf(r)
      PROVE  KeptInv'
      <2>1. PassSound(r, c)
            BY <1>2, <1>3 DEF PassSound, Hooking, TaskOf
      <2> QED BY <1>1, <1>2, <1>3, <2>1, KeptCall
<1>4. CASE Return(r)
      BY <1>1, <1>2, <1>4, KeptReturn
<1>5. CASE Then(r, "emit")
      <2> DEFINE c == [call[r] EXCEPT !.step = "emit"]
      <2>1. c.step = "emit" /\ c.wt = call[r].wt /\ c.task = TaskOf(r) /\ Goto(r, c)
            BY <1>2, <1>5 DEF Then, Call, TaskOf
      <2> HIDE DEF c
      <2> QED BY <1>3, <2>1
<1>6. CASE Goto(r, [call[r] EXCEPT !.step = "abort", !.final = "blocked"])
      <2> DEFINE c == [call[r] EXCEPT !.step = "abort", !.final = "blocked"]
      <2>1. c.step = "abort" /\ c.wt = call[r].wt /\ c.task = TaskOf(r) /\ Goto(r, c)
            BY <1>2, <1>6 DEF Call, TaskOf
      <2> HIDE DEF c
      <2> QED BY <1>3, <2>1
<1> QED BY <1>4, <1>5, <1>6 DEF OperationRaises, ProcessDies, Raised, AfterPipeline

LEMMA KeptRun ==
    ASSUME Alone, KeptInv, HooksInv', NEW r \in Runner,
           Prepare(r) \/ RunHooks(r) \/ OperationRaises(r) \/ ProcessDies(r) \/ ClaimTask(r) \/ Run(r)
    PROVE  KeptInv'
BY KeptLookUp, KeptMakeFolder, KeptInsertWorktree, KeptContext, KeptWorktree, KeptOutput,
   KeptStatus, KeptOn, KeptLeave, KeptClaim, KeptFault
   DEF Prepare, RunHooks, Run

\* Operators set statuses, and no more.
LEMMA KeptOther ==
    ASSUME Alone, KeptInv, HooksInv', NEW o \in Operator,
           UNCHANGED <<context, worktree, folder, output, merged>>, DoneStays,
           call'[o].step \in {"idle", "complete"}, \A q \in Proc \ {o} : call'[q] = call[q],
           faults' \in {faults, faults + 1}
    PROVE  KeptInv'
<1>1. o \notin Runner /\ o \in Proc /\ faults \in Nat
      BY ConstantsAssumption DEF Proc, KeptInv, HooksInv, TypeOK
<1>2. \A r \in Runner : call'[r] = call[r]
      BY <1>1 DEF Proc
<1>3. OperatorsPlain'
      BY DEF KeptInv, OperatorsPlain, Proc
<1>4. ContextsBound' /\ OutputKept' /\ FailureKept'
      BY DEF KeptInv, ContextsBound, OutputKept, FailureKept, DoneStays, Bound
<1>5. \A t \in Task : Settled(t)' = Settled(t)
      BY DEF Settled, Bound
<1>6. PassesSound'
      <2> SUFFICES ASSUME NEW r \in Runner, call[r].step # "idle"
                   PROVE  PassSound(r, call[r])'
          BY <1>2 DEF PassesSound, At
      <2>1. PassSound(r, call[r]) /\ TaskOf(r) \in Task
            BY PassFacts DEF At
      <2>2. status[TaskOf(r)] = "done" => status'[TaskOf(r)] = "done"
            BY <2>1 DEF DoneStays
      <2> QED BY <1>2, <2>1, <2>2 DEF PassSound, Bound, TaskOf
<1>7. RowsAgree'
      <2> SUFFICES ASSUME faults' = 0
                   PROVE  RowsAgree'
          BY DEF RowsAgree
      <2>1. faults = 0
            BY <1>1
      <2>2. \A r \in Runner : (~At(r, "idle"))' = ~At(r, "idle") /\ TaskOf(r)' = TaskOf(r)
            BY <1>2 DEF At, TaskOf
      <2>3. \A r \in Runner : ~At(r, "idle") => RowsStory(call[r])'
            <3> SUFFICES ASSUME NEW r \in Runner, ~At(r, "idle")
                         PROVE  RowsStory(call[r])'
                OBVIOUS
            <3>1. RowsStory(call[r]) /\ call[r].task \in Task /\ call'[r] = call[r]
                  BY <1>2, <2>1, PassFacts DEF TaskOf
            <3>2. Settled(call[r].task)' = Settled(call[r].task)
                  BY <3>1 DEF Settled, Bound
            <3> QED BY <3>1, <3>2 DEF RowsStory, Bound
      <2> QED BY <1>5, <2>1, <2>2, <2>3 DEF KeptInv, RowsAgree
<1> QED BY <1>3, <1>4, <1>6, <1>7 DEF KeptInv

LEMMA KeptOperator ==
    ASSUME Alone, KeptInv, HooksInv', NEW o \in Operator,
           \/ Prepare(o) \/ RunHooks(o) \/ OperationRaises(o) \/ ProcessDies(o)
           \/ PostTaskRequest(o) \/ PostWorktreeRequest(o)
    PROVE  KeptInv'
<1>1. /\ o \in Proc /\ o \notin Runner /\ HooksInv /\ call[o].step \in {"idle", "complete"}
      /\ call[o] \in Call /\ ShapedCall(o, call[o])
      BY CallTyped, ConstantsAssumption DEF Proc, KeptInv, OperatorsPlain
<1>2. At(o, "complete") => call[o].kind \in TaskStatus \ {"done"}
      BY <1>1 DEF ShapedCall, Alone, At
<1>3. CASE RunHooks(o)
      <2>1. CompleteTask(o) /\ At(o, "complete")
            BY <1>1, <1>3 DEF RunHooks, StartPipeline, OpenCheckpoint, CloseCheckpoint, OpenMerge,
                              CopyOutput, CloseMerge, OpenCleanup, RemoveFolder, MarkCleaned,
                              MarkContextCleaned, CloseCleanup, ReleaseWorktree, CompleteTask, At
      <2>2. call[o].kind # "run"
            BY <1>2, <2>1 DEF TaskStatus
      <2>3. Return(o)
            BY <1>2, <2>1, <2>2 DEF CompleteTask, Raised, InPipeline, Tried
      <2>4. DoneStays
            <3>1. CASE /\ ValidTransition(status[TaskOf(o)], call[o].kind)
                       /\ status' = [status EXCEPT ![TaskOf(o)] = call[o].kind]
                  BY <1>1, <3>1, TransitionTyped DEF DoneStays, HooksInv, TypeOK
            <3>2. CASE UNCHANGED status
                  BY <3>2 DEF DoneStays
            <3> QED BY <2>1, <2>2, <3>1, <3>2 DEF CompleteTask
      <2>5. UNCHANGED <<context, worktree, folder, output, merged, faults>>
            BY <2>1 DEF CompleteTask, files, bounds
      <2> QED BY <1>1, <2>3, <2>4, <2>5, ReturnWent, KeptOther DEF IdleCall
<1>4. CASE OperationRaises(o) \/ ProcessDies(o)
      <2>1. At(o, "complete")
            BY <1>1, <1>4 DEF OperationRaises, ProcessDies, At
      <2>2. call[o].kind # "run"
            BY <1>2, <2>1 DEF TaskStatus
      <2>3. Return(o)
            BY <1>2, <1>4, <2>1, <2>2 DEF OperationRaises, ProcessDies, Raised, InPipeline, Tried
      <2>4. /\ UNCHANGED <<context, worktree, folder, output, merged>> /\ DoneStays
            /\ faults' = faults + 1
            BY <1>4 DEF OperationRaises, ProcessDies, rows, files, DoneStays
      <2> QED BY <1>1, <2>3, <2>4, ReturnWent, KeptOther DEF IdleCall
<1>5. CASE PostTaskRequest(o)
      <2>1. PICK kind \in Requests \ {"release", "remove"}, t \in Task :
                Goto(o, [IdleCall EXCEPT !.step = FirstStep(kind), !.kind = kind, !.task = t])
            BY <1>5 DEF PostTaskRequest
      <2>2. FirstStep(kind) = "complete"
            BY <2>1 DEF Alone, FirstStep, TaskStatus, Hook
      <2>3. call'[o].step = "complete" /\ \A q \in Proc \ {o} : call'[q] = call[q]
            BY <1>1, <2>1, <2>2 DEF Goto, HooksInv, TypeOK, IdleCall
      <2>4. /\ UNCHANGED <<context, worktree, folder, output, merged>> /\ DoneStays
            /\ faults' = faults
            BY <1>5 DEF PostTaskRequest, rows, files, DoneStays
      <2> QED BY <2>3, <2>4, KeptOther
<1>6. CASE PostWorktreeRequest(o)
      BY <1>6 DEF PostWorktreeRequest, Alone, TaskStatus
<1>7. ~Prepare(o)
      BY <1>1 DEF Prepare, LookUpContext, MakeFolder, InsertWorktree, BindContext, At
<1> QED BY <1>3, <1>4, <1>5, <1>6, <1>7

LEMMA NextKept ==
    ASSUME Alone
    PROVE  KeptInv /\ [Next]_vars => KeptInv'
<1> SUFFICES ASSUME KeptInv, [Next]_vars
             PROVE  KeptInv'
    OBVIOUS
<1>1. HooksInv'
      BY NextSafe DEF KeptInv
<1>2. CASE UNCHANGED vars
      <2>1. UNCHANGED <<status, context, worktree, folder, output, merged, call, faults>>
            BY <1>2 DEF vars, rows, files, bounds
      <2>2. OperatorsPlain' /\ ContextsBound' /\ OutputKept' /\ FailureKept'
            BY <2>1 DEF KeptInv, OperatorsPlain, ContextsBound, OutputKept, FailureKept, Bound
      <2>3. PassesSound'
            BY <2>1 DEF KeptInv, PassesSound, PassSound, At, Bound
      <2>4. RowsAgree'
            BY <2>1 DEF KeptInv, RowsAgree, RowsStory, Settled, At, TaskOf, Bound
      <2> QED BY <1>1, <2>2, <2>3, <2>4 DEF KeptInv
<1>3. CASE Next
      BY <1>1, <1>3, KeptRun, KeptOperator DEF Next, Proc
<1> QED BY <1>2, <1>3

LEMMA InitKept == Init => KeptInv
<1> SUFFICES ASSUME Init
             PROVE  KeptInv
    OBVIOUS
<1>1. /\ \A p \in Proc : call[p].step = "idle"
      /\ \A t \in Task : /\ output[t] = None /\ ~Bound(t) /\ context[t].worktree = None
      BY DEF Init, IdleCall, Bound
<1>2. OperatorsPlain /\ PassesSound
      BY <1>1 DEF OperatorsPlain, PassesSound, At, Proc
<1>3. ContextsBound /\ OutputKept /\ FailureKept
      BY <1>1 DEF ContextsBound, OutputKept, FailureKept
<1>4. RowsAgree
      BY <1>1 DEF RowsAgree, Settled, At, Proc
<1> QED BY <1>2, <1>3, <1>4, InitSafe DEF KeptInv

\* Where one runner works and the requests only set statuses other than done,
\* no output is lost and no failure's folder, whatever raises and whoever dies;
\* and while nothing does, rows and folders agree (prepare_execution_workspace,
\* _run_auto_completion_pipeline, finalize_execution_workspace).
THEOREM WorkspaceIsSound == ASSUME Alone PROVE Spec => []WorkspaceSound
<1>1. Init => KeptInv
      BY InitKept
<1>2. KeptInv /\ [Next]_vars => KeptInv'
      BY NextKept
<1>3. KeptInv => WorkspaceSound
      <2> SUFFICES ASSUME KeptInv
                   PROVE  WorkspaceSound
          OBVIOUS
      <2>1. ContextSettled
            BY DEF KeptInv, RowsAgree, ContextSettled, Busy, At, TaskOf, Proc
      <2> QED BY <2>1 DEF KeptInv, HooksInv, WorkspaceSound
<1> QED BY <1>1, <1>2, <1>3, PTL DEF Spec

===============================================================================
