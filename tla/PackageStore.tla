---------------------------- MODULE PackageStore ----------------------------
(***************************************************************************)
(* The packages of one type in one project: rows of frozen_packages and    *)
(* the manifest files beside them.  freeze_package reads the next version, *)
(* writes the manifest and inserts the row; sqlite3 opens a transaction    *)
(* only for the insert, so other calls run between these steps.  Calls     *)
(* come from request threads, coordinator runs and the completion          *)
(* pipeline.  A call that crashes, or waits too long for the lock, ends    *)
(* where it stands.                                                        *)
(***************************************************************************)
EXTENDS Naturals, FiniteSetsExt

CONSTANTS
    Client,     \* calls of freeze_package under way
    Source,     \* what a package may be created from: sets of artifacts
    Truncated,  \* a manifest file whose writer died
    MaxVersion  \* bound: versions frozen

ASSUME TruncatedAssumption == Truncated \notin Source
ASSUME VersionAssumption == MaxVersion \in Nat

Version == Nat \ {0}

VARIABLES
    package,   \* rows: what the package of a version was created from
    manifest,  \* files: what the manifest of a version says
    call,      \* per client, the call it is in
    shared     \* history: versions two calls held at once

vars == <<package, manifest, call, shared>>

Step == {"idle", "write", "insert"}
Call == [step : Step, version : Nat, source : Source]

TypeOK ==
    /\ DOMAIN package \subseteq Version
    /\ \A v \in DOMAIN package : package[v] \in Source
    /\ DOMAIN manifest \subseteq Version
    /\ \A v \in DOMAIN manifest : manifest[v] \in Source \cup {Truncated}
    /\ call \in [Client -> Call]
    /\ shared \subseteq Version

-----------------------------------------------------------------------------
\* A row, or a file, for version v, written over what was there.
With(f, v, s) == [w \in DOMAIN f \cup {v} |-> IF w = v THEN s ELSE f[w]]

\* Mutant: the increment is missing.
NextVersionBare == Max(DOMAIN package \cup {0})

NextVersion == Max(DOMAIN package \cup {0}) + 1

Init ==
    /\ package = <<>>
    /\ manifest = <<>>
    /\ call \in [Client -> [step : {"idle"}, version : {0}, source : Source]]
    /\ shared = {}

Holds(c, v) == call[c].step # "idle" /\ call[c].version = v

Goto(c, step) == call' = [call EXCEPT ![c].step = step]

\* Before a call writes anything it reads the version it is going to take.
ReadVersion(c) ==
    /\ call[c].step = "idle"
    /\ NextVersion <= MaxVersion
    /\ \E s \in Source :
          call' = [call EXCEPT ![c] = [step |-> "write", version |-> NextVersion, source |-> s]]
    /\ shared' = shared \cup {v \in {NextVersion} : \E d \in Client \ {c} : Holds(d, v)}
    /\ UNCHANGED <<package, manifest>>

\* Mutant: a manifest that exists is kept.
WriteManifestOnce(c) ==
    /\ call[c].step = "write"
    /\ manifest' = IF call[c].version \in DOMAIN manifest THEN manifest
                   ELSE With(manifest, call[c].version, call[c].source)
    /\ Goto(c, "insert")
    /\ UNCHANGED <<package, shared>>

\* The file is written whether or not another call's is there.
WriteManifest(c) ==
    /\ call[c].step = "write"
    /\ manifest' = With(manifest, call[c].version, call[c].source)
    /\ Goto(c, "insert")
    /\ UNCHANGED <<package, shared>>

\* Mutant: INSERT OR REPLACE.
InsertPackageOver(c) ==
    /\ call[c].step = "insert"
    /\ package' = With(package, call[c].version, call[c].source)
    /\ Goto(c, "idle")
    /\ UNCHANGED <<manifest, shared>>

\* The row is inserted, or refused because the version is taken.
InsertPackage(c) ==
    /\ call[c].step = "insert"
    /\ package' = IF call[c].version \in DOMAIN package THEN package
                  ELSE With(package, call[c].version, call[c].source)
    /\ Goto(c, "idle")
    /\ UNCHANGED <<manifest, shared>>

\* The process dies, or the lock is not had in time; a file that was being
\* written may be cut short.
Abandon(c) ==
    /\ call[c].step # "idle"
    /\ \/ manifest' = manifest
       \/ /\ call[c].step = "write"
          /\ manifest' = With(manifest, call[c].version, Truncated)
    /\ Goto(c, "idle")
    /\ UNCHANGED <<package, shared>>

-----------------------------------------------------------------------------
Next == \E c \in Client : ReadVersion(c) \/ WriteManifest(c) \/ InsertPackage(c) \/ Abandon(c)

Spec == Init /\ [][Next]_vars

-----------------------------------------------------------------------------
\* The versions are numbered without a gap and what was frozen stays as it is,
\* whoever else freezes (next_package_version and the UNIQUE constraint of
\* frozen_packages): the rows are the log PackageLog describes.
Log == INSTANCE PackageLog WITH log <- package
LogSpec == Log!Spec

\* Every package has a manifest file, wherever a call died (freeze_package
\* writes the file before the row).
ManifestExists == \A v \in DOMAIN package : v \in DOMAIN manifest

\* The manifest of a package tells what its row tells.
ManifestAgrees ==
    \A v \in DOMAIN package : v \in DOMAIN manifest /\ manifest[v] = package[v]

\* It does, for every version that no two calls of freeze_package ever held at
\* once: calls that died before do no harm.
UnsharedAgrees ==
    \A v \in DOMAIN package \ shared : v \in DOMAIN manifest /\ manifest[v] = package[v]

=============================================================================
