--------------------------- MODULE ArtifactStore ---------------------------
(***************************************************************************)
(* The artifacts of one type in one project: rows of artifacts, registered *)
(* under the next version or one the caller names, and moved from state to *)
(* state.  Both operations read first and write in a transaction that      *)
(* sqlite3 opens at the write, so other calls run in between.              *)
(***************************************************************************)
EXTENDS Naturals, FiniteSetsExt

CONSTANTS
    Caller,        \* calls under way: request threads, runners, operators
    InitialState,  \* states callers register artifacts in
    MaxArtifacts     \* bound: versions registered

ASSUME ArtifactAssumption == MaxArtifacts \in Nat

ARTIFACT_STATE_TRANSITIONS ==
    [draft                |-> {"updated", "ready_for_experiment", "frozen", "deprecated"},
     updated              |-> {"ready_for_experiment", "revising", "frozen", "deprecated"},
     ready_for_experiment |-> {"running", "revising", "frozen", "deprecated"},
     running              |-> {"partial", "complete", "failed", "frozen"},
     partial              |-> {"complete", "failed", "frozen"},
     complete             |-> {"frozen", "superseded"},
     revising             |-> {"updated", "ready_for_experiment", "deprecated"},
     failed               |-> {"revising", "deprecated"},
     assembling           |-> {"ready", "frozen", "superseded"},
     ready                |-> {"frozen", "superseded"},
     frozen               |-> {"superseded", "deprecated"},
     superseded           |-> {"deprecated"},
     deprecated           |-> {}]

State == DOMAIN ARTIFACT_STATE_TRANSITIONS

ASSUME StateAssumption == InitialState \subseteq State

ArtifactVersion == Nat \ {0}

VARIABLES
    artifact,  \* rows, by version: who registered it, and its state
    artifactCall,      \* per client, the call it is in
    answer,    \* history: per client, the version last answered (0: none)
    raced      \* history: versions two calls moved at once

artifactVars == <<artifact, artifactCall, answer, raced>>

ArtifactRow == [owner : Caller, state : State]
ArtifactCall == [step : {"idle", "insert", "update"}, version : Nat, state : State]

ArtifactTypeOK ==
    /\ DOMAIN artifact \subseteq ArtifactVersion
    /\ \A v \in DOMAIN artifact : artifact[v] \in ArtifactRow
    /\ artifactCall \in [Caller -> ArtifactCall]
    /\ answer \in [Caller -> Nat]
    /\ raced \subseteq DOMAIN artifact

-----------------------------------------------------------------------------
Legal(current, next) == next = current \/ next \in ARTIFACT_STATE_TRANSITIONS[current]

NextArtifactVersion == Max(DOMAIN artifact \cup {0}) + 1

NoArtifactCall == [step |-> "idle", version |-> 0, state |-> "draft"]

ArtifactInit ==
    /\ artifact = <<>>
    /\ artifactCall = [c \in Caller |-> NoArtifactCall]
    /\ answer = [c \in Caller |-> 0]
    /\ raced = {}

GotoArtifact(c, next) == artifactCall' = [artifactCall EXCEPT ![c] = next]

\* The version is the one the caller names, or the next one.
ReadArtifactVersion(c) ==
    /\ artifactCall[c].step = "idle"
    /\ \E v \in {NextArtifactVersion} \cup 1 .. MaxArtifacts, s \in InitialState :
          /\ v <= MaxArtifacts
          /\ GotoArtifact(c, [step |-> "insert", version |-> v, state |-> s])
    /\ UNCHANGED <<artifact, answer, raced>>

Row(c) == [owner |-> c, state |-> artifactCall[c].state]

WithArtifact(f, v, row) == [w \in DOMAIN f \cup {v} |-> IF w = v THEN row ELSE f[w]]

\* Mutant: INSERT OR REPLACE.
InsertArtifactOver(c) ==
    /\ artifactCall[c].step = "insert"
    /\ artifact' = WithArtifact(artifact, artifactCall[c].version, Row(c))
    /\ answer' = [answer EXCEPT ![c] = artifactCall[c].version]
    /\ GotoArtifact(c, NoArtifactCall)
    /\ UNCHANGED raced

\* The row is inserted and answered, or refused because the version is taken.
InsertArtifact(c) ==
    /\ artifactCall[c].step = "insert"
    /\ \/ /\ artifactCall[c].version \in DOMAIN artifact
          /\ UNCHANGED <<artifact, answer>>
       \/ /\ artifactCall[c].version \notin DOMAIN artifact
          /\ artifact' = WithArtifact(artifact, artifactCall[c].version, Row(c))
          /\ answer' = [answer EXCEPT ![c] = artifactCall[c].version]
    /\ GotoArtifact(c, NoArtifactCall)
    /\ UNCHANGED raced

\* Mutant: the state is not checked against the table.
ReadStateUnchecked(c) ==
    /\ artifactCall[c].step = "idle"
    /\ \E v \in DOMAIN artifact, next \in State :
          GotoArtifact(c, [step |-> "update", version |-> v, state |-> next])
    /\ UNCHANGED <<artifact, answer, raced>>

\* The state is read and the move checked; a move the table does not have is
\* refused and changes nothing.
ReadState(c) ==
    /\ artifactCall[c].step = "idle"
    /\ \E v \in DOMAIN artifact, next \in State :
          /\ Legal(artifact[v].state, next)
          /\ GotoArtifact(c, [step |-> "update", version |-> v, state |-> next])
    /\ UNCHANGED <<artifact, answer, raced>>

\* Whatever the state is by now, it is overwritten.
WriteState(c) ==
    LET v == artifactCall[c].version IN
    /\ artifactCall[c].step = "update"
    /\ artifact' = [artifact EXCEPT ![v].state = artifactCall[c].state]
    /\ raced' = raced \cup {w \in {v} : \E d \in Caller \ {c} :
                               artifactCall[d].step = "update" /\ artifactCall[d].version = w}
    /\ GotoArtifact(c, NoArtifactCall)
    /\ UNCHANGED answer

\* The process dies, or the lock is not had in time.
AbandonArtifact(c) ==
    /\ artifactCall[c].step # "idle"
    /\ GotoArtifact(c, NoArtifactCall)
    /\ UNCHANGED <<artifact, answer, raced>>

-----------------------------------------------------------------------------
ArtifactNext ==
    \E c \in Caller :
        \/ ReadArtifactVersion(c) \/ InsertArtifact(c) \/ ReadState(c) \/ WriteState(c)
        \/ AbandonArtifact(c)

ArtifactSpec == ArtifactInit /\ [][ArtifactNext]_artifactVars

-----------------------------------------------------------------------------
\* What a caller was answered stays its own, whoever else registers under the
\* same version (register_artifact, UNIQUE of artifacts).
AnswersKept ==
    \A c \in Caller : answer[c] # 0 =>
        answer[c] \in DOMAIN artifact /\ artifact[answer[c]].owner = c

\* The rows are those of the callers that were answered (register_artifact).
ArtifactsSound == ArtifactTypeOK /\ AnswersKept

\* An artifact moves along the table (ensure_valid_artifact_transition).
\* The code does not keep this; the README has the steps that break it.
MovesLegal ==
    [][\A v \in DOMAIN artifact : Legal(artifact[v].state, artifact'[v].state)]_artifactVars

\* It does, as long as no two moves of it were under way at once.
UnracedMovesLegal ==
    [][\A v \in DOMAIN artifact \ raced :
           Legal(artifact[v].state, artifact'[v].state)]_artifactVars

=============================================================================
