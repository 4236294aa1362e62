------------------------ MODULE PackageStore_proofs ------------------------
(***************************************************************************)
(* Proofs about PackageStore, for any number of calls and any sources.     *)
(* IInv is inductive: the rows are a sequence, a call that has read its    *)
(* version is at most one ahead of them, and a version two calls hold, or  *)
(* one holds after its row is there, is shared.                            *)
(***************************************************************************)
EXTENDS PackageStore, Sequences, SequenceTheorems, TLAPS

Active(c) == call[c].step # "idle"

\* The rows, and with them the versions, have no gap.
RowsDense == package \in Seq(Source)

\* A call under way has a version the rows have reached or are about to.
VersionsNear ==
    \A c \in Client : Active(c) => call[c].version \in 1 .. Len(package) + 1

\* Two calls hold a version only as a shared one.
HoldersShared ==
    \A c, d \in Client :
        c # d /\ Active(c) /\ Active(d) /\ call[c].version = call[d].version
            => call[c].version \in shared

\* And so does a call whose version is taken.
TakenShared ==
    \A c \in Client :
        Active(c) /\ call[c].version \in DOMAIN package => call[c].version \in shared

\* A call about to insert has written its manifest, which nobody else wrote
\* unless the version is shared.
Written ==
    \A c \in Client :
        call[c].step = "insert" =>
            /\ call[c].version \in DOMAIN manifest
            /\ call[c].version \notin shared => manifest[call[c].version] = call[c].source

IInv ==
    /\ TypeOK
    /\ RowsDense
    /\ VersionsNear
    /\ HoldersShared
    /\ TakenShared
    /\ Written
    /\ ManifestExists
    /\ UnsharedAgrees

-----------------------------------------------------------------------------
\* The next version follows the last row (COALESCE(MAX(version), 0) + 1).
LEMMA NextVersionFollows ==
    ASSUME RowsDense
    PROVE  NextVersion = Len(package) + 1
<1>1. /\ Len(package) \in Nat
      /\ DOMAIN package \cup {0} = 0 .. Len(package)
      BY DEF RowsDense
<1> DEFINE n == Len(package)
           highest == CHOOSE x \in 0 .. n : \A y \in 0 .. n : x >= y
<1>2. n \in Nat
      BY <1>1
<1> HIDE DEF n
<1>3. \E x \in 0 .. n : \A y \in 0 .. n : x >= y
      <2>1. n \in 0 .. n /\ \A y \in 0 .. n : n >= y
            BY <1>2
      <2> QED BY <2>1
<1>4. highest \in 0 .. n /\ \A y \in 0 .. n : highest >= y
      BY <1>3
<1> HIDE DEF highest
<1>5. highest >= n /\ highest \in Nat /\ n >= highest
      BY <1>2, <1>4
<1>6. highest = n
      BY <1>2, <1>5
<1> QED BY <1>1, <1>6 DEF NextVersion, Max, n, highest

\* A row for the version after the last is appended.
LEMMA WithAppends ==
    ASSUME RowsDense, NEW s \in Source
    PROVE  /\ With(package, Len(package) + 1, s) = Append(package, s)
           /\ Append(package, s) \in Seq(Source)
<1> DEFINE n == Len(package)
           appended == Append(package, s)
<1>1. package \in Seq(Source) /\ n \in Nat /\ DOMAIN package = 1 .. n
      BY DEF RowsDense
<1>2. /\ appended \in Seq(Source)
      /\ Len(appended) = n + 1
      /\ \A i \in 1 .. n : appended[i] = package[i]
      /\ appended[n + 1] = s
      BY <1>1, AppendProperties
<1> HIDE DEF n, appended
<1>3. DOMAIN package \cup {n + 1} = 1 .. n + 1 /\ n + 1 \notin 1 .. n
      BY <1>1
<1>4. appended = [i \in 1 .. n + 1 |-> appended[i]]
      BY <1>1, <1>2
<1>5. With(package, n + 1, s) = [i \in 1 .. n + 1 |-> IF i = n + 1 THEN s ELSE package[i]]
      BY <1>3 DEF With
<1>6. \A i \in 1 .. n + 1 : appended[i] = IF i = n + 1 THEN s ELSE package[i]
      BY <1>1, <1>2
<1>7. With(package, n + 1, s) = appended
      BY <1>4, <1>5, <1>6
<1> QED BY <1>2, <1>7 DEF n, appended

-----------------------------------------------------------------------------
LEMMA InitIInv == Init => IInv
<1> SUFFICES ASSUME Init
             PROVE  IInv
    OBVIOUS
<1>1. package = <<>> /\ manifest = <<>> /\ shared = {}
      BY DEF Init
<1>2. /\ call \in [Client -> Call]
      /\ \A c \in Client : call[c].step = "idle"
      BY DEF Init, Call, Step
<1>3. DOMAIN package = {} /\ DOMAIN manifest = {}
      BY <1>1
<1>4. RowsDense
      BY <1>1 DEF RowsDense
<1> QED BY <1>1, <1>2, <1>3, <1>4
        DEF IInv, TypeOK, VersionsNear, HoldersShared, TakenShared, Written,
            ManifestExists, UnsharedAgrees, Active

LEMMA ReadVersionStep ==
    ASSUME IInv, NEW c \in Client, ReadVersion(c)
    PROVE  IInv'
<1> DEFINE v == Len(package) + 1
<1>1. NextVersion = v
      BY NextVersionFollows DEF IInv
<1>2. /\ v \in Version /\ v \notin DOMAIN package /\ v \in 1 .. Len(package) + 1
      /\ DOMAIN package = 1 .. Len(package)
      BY DEF IInv, RowsDense, Version
<1>3. PICK s \in Source :
          call' = [call EXCEPT ![c] = [step |-> "write", version |-> v, source |-> s]]
      BY <1>1 DEF ReadVersion
<1>4. /\ package' = package /\ manifest' = manifest
      /\ shared' = shared \cup {w \in {v} : \E d \in Client \ {c} : Holds(d, w)}
      BY <1>1 DEF ReadVersion
<1> HIDE DEF v
<1>5. /\ call' \in [Client -> Call]
      /\ call'[c] = [step |-> "write", version |-> v, source |-> s]
      /\ \A d \in Client \ {c} : call'[d] = call[d]
      BY <1>2, <1>3 DEF IInv, TypeOK, Call, Step, Version
<1>6. shared \subseteq shared' /\ shared' \subseteq shared \cup {v}
      BY <1>4
<1>7. TypeOK'
      BY <1>2, <1>4, <1>5, <1>6 DEF IInv, TypeOK
<1>8. RowsDense' /\ ManifestExists'
      BY <1>4 DEF IInv, RowsDense, ManifestExists
<1>9. VersionsNear'
      BY <1>2, <1>4, <1>5 DEF IInv, VersionsNear, Active
<1>10. HoldersShared'
      <2> SUFFICES ASSUME NEW d \in Client, NEW e \in Client, d # e,
                          Active(d)', Active(e)', call'[d].version = call'[e].version
                   PROVE  call'[d].version \in shared'
          BY DEF HoldersShared
      <2>1. CASE d = c
            BY <1>4, <1>5, <2>1 DEF Active, Holds
      <2>2. CASE e = c
            BY <1>4, <1>5, <2>2 DEF Active, Holds
      <2>3. CASE d # c /\ e # c
            BY <1>5, <1>6, <2>3 DEF IInv, HoldersShared, Active
      <2> QED BY <2>1, <2>2, <2>3
<1>11. TakenShared'
      BY <1>2, <1>4, <1>5, <1>6 DEF IInv, TakenShared, Active
<1>12. Written'
      BY <1>4, <1>5, <1>6 DEF IInv, Written
<1>13. UnsharedAgrees'
      BY <1>4, <1>6 DEF IInv, UnsharedAgrees
<1> QED BY <1>7, <1>8, <1>9, <1>10, <1>11, <1>12, <1>13 DEF IInv

\* What a step of one call under way that leaves the rows alone has to show:
\* it ends, or goes on with the same version, and touches that manifest only.
LEMMA FileStep ==
    ASSUME IInv, NEW c \in Client, Active(c), NEW step \in Step, Goto(c, step),
           package' = package, shared' = shared,
           NEW s \in Source \cup {Truncated},
           \/ manifest' = With(manifest, call[c].version, s)
           \/ manifest' = manifest,
           step = "insert" => manifest' = With(manifest, call[c].version, call[c].source)
    PROVE  IInv'
<1> DEFINE v == call[c].version
<1>1. v \in Version /\ v \in 1 .. Len(package) + 1
      BY DEF IInv, VersionsNear, TypeOK, Call, Version, RowsDense
<1>2. /\ call' \in [Client -> Call]
      /\ call'[c].step = step /\ call'[c].version = v /\ call'[c].source = call[c].source
      /\ \A d \in Client \ {c} : call'[d] = call[d]
      BY DEF IInv, TypeOK, Call, Goto
<1>3. /\ DOMAIN manifest \subseteq DOMAIN manifest'
      /\ DOMAIN manifest' \subseteq DOMAIN manifest \cup {v}
      /\ \A w \in DOMAIN manifest : w # v => manifest'[w] = manifest[w]
      /\ \A w \in DOMAIN manifest' : manifest'[w] \in Source \cup {Truncated}
      BY DEF With, IInv, TypeOK
<1>4. step = "insert" => v \in DOMAIN manifest' /\ manifest'[v] = call[c].source
      BY DEF With
<1>5. v \in DOMAIN package => v \in shared
      BY DEF IInv, TakenShared
<1>6. \A d \in Client \ {c} : Active(d) /\ call[d].version = v => v \in shared
      BY DEF IInv, HoldersShared
<1> HIDE DEF v
<1>7. TypeOK'
      BY <1>1, <1>2, <1>3 DEF IInv, TypeOK
<1>8. RowsDense' /\ ManifestExists'
      BY <1>3 DEF IInv, RowsDense, ManifestExists
<1>9. VersionsNear'
      BY <1>1, <1>2 DEF IInv, VersionsNear, Active
<1>10. HoldersShared'
      <2> SUFFICES ASSUME NEW d \in Client, NEW e \in Client, d # e,
                          Active(d)', Active(e)', call'[d].version = call'[e].version
                   PROVE  call'[d].version \in shared
          BY DEF HoldersShared
      <2>1. CASE d = c
            BY <1>2, <1>6, <2>1 DEF Active
      <2>2. CASE e = c
            BY <1>2, <1>6, <2>2 DEF Active
      <2>3. CASE d # c /\ e # c
            BY <1>2, <2>3 DEF IInv, HoldersShared, Active
      <2> QED BY <2>1, <2>2, <2>3
<1>11. TakenShared'
      BY <1>2, <1>5 DEF IInv, TakenShared, Active
<1>12. Written'
      <2> SUFFICES ASSUME NEW d \in Client, call'[d].step = "insert"
                   PROVE  /\ call'[d].version \in DOMAIN manifest'
                          /\ call'[d].version \notin shared =>
                                 manifest'[call'[d].version] = call'[d].source
          BY DEF Written
      <2>1. CASE d = c
            BY <1>2, <1>4, <2>1
      <2>2. CASE d # c
            BY <1>2, <1>3, <1>6, <2>2 DEF IInv, Written, Active
      <2> QED BY <2>1, <2>2
<1>13. UnsharedAgrees'
      BY <1>3, <1>5 DEF IInv, UnsharedAgrees
<1> QED BY <1>7, <1>8, <1>9, <1>10, <1>11, <1>12, <1>13 DEF IInv

LEMMA WriteManifestStep ==
    ASSUME IInv, NEW c \in Client, WriteManifest(c)
    PROVE  IInv'
<1>1. Active(c) /\ call[c].source \in Source
      BY DEF WriteManifest, Active, IInv, TypeOK, Call
<1> QED BY <1>1, FileStep DEF WriteManifest, Step

LEMMA AbandonStep ==
    ASSUME IInv, NEW c \in Client, Abandon(c)
    PROVE  IInv'
<1>1. Active(c) /\ "idle" \in Step /\ Truncated \in Source \cup {Truncated}
      BY DEF Abandon, Active, Step
<1> QED BY <1>1, FileStep DEF Abandon

\* What the insert does: the row is appended, or refused as taken.
LEMMA InsertedRow ==
    ASSUME IInv, NEW c \in Client, InsertPackage(c)
    PROVE  \/ /\ call[c].version \in DOMAIN package
              /\ package' = package
           \/ /\ call[c].version = Len(package) + 1
              /\ package' = Append(package, call[c].source)
              /\ package' = With(package, call[c].version, call[c].source)
              /\ package' \in Seq(Source)
<1>1. /\ package \in Seq(Source) /\ Len(package) \in Nat
      /\ DOMAIN package = 1 .. Len(package)
      /\ call[c].version \in 1 .. Len(package) + 1
      /\ call[c].source \in Source
      BY DEF InsertPackage, IInv, RowsDense, VersionsNear, Active, TypeOK, Call
<1>2. CASE call[c].version \in DOMAIN package
      BY <1>2 DEF InsertPackage
<1>3. CASE call[c].version \notin DOMAIN package
      <2>1. call[c].version = Len(package) + 1
            BY <1>1, <1>3
      <2> QED BY <1>1, <1>3, <2>1, WithAppends DEF InsertPackage, IInv
<1> QED BY <1>2, <1>3

LEMMA InsertPackageStep ==
    ASSUME IInv, NEW c \in Client, InsertPackage(c)
    PROVE  IInv'
<1> DEFINE v == call[c].version
<1>0. call[c].source \in Source
      BY DEF IInv, TypeOK, Call
<1>1. manifest' = manifest /\ shared' = shared /\ call[c].step = "insert" /\ Active(c)
      BY DEF InsertPackage, Active
<1>2. /\ call' \in [Client -> Call]
      /\ call'[c].step = "idle"
      /\ \A d \in Client \ {c} : call'[d] = call[d]
      BY DEF IInv, TypeOK, Call, Step, InsertPackage, Goto
<1>3. package \in Seq(Source) /\ Len(package) \in Nat /\ DOMAIN package = 1 .. Len(package)
      BY DEF IInv, RowsDense
<1>4. /\ v \in DOMAIN manifest
      /\ v \notin shared => manifest[v] = call[c].source
      BY <1>1 DEF IInv, Written
<1>5. /\ package' \in Seq(Source)
      /\ Len(package) <= Len(package')
      /\ DOMAIN package' \subseteq DOMAIN package \cup {v}
      /\ \A w \in DOMAIN package : package'[w] = package[w]
      /\ v \in DOMAIN package \/ package'[v] = call[c].source
      /\ v \in DOMAIN package => package' = package
      <2>1. CASE v \in DOMAIN package /\ package' = package
            BY <1>3, <2>1
      <2>2. CASE /\ v = Len(package) + 1
                 /\ package' = Append(package, call[c].source)
                 /\ package' = With(package, v, call[c].source)
                 /\ package' \in Seq(Source)
            <3>1. v \notin DOMAIN package
                  BY <1>3, <2>2
            <3>2. /\ DOMAIN package' = DOMAIN package \cup {v}
                  /\ package'[v] = call[c].source
                  /\ \A w \in DOMAIN package : package'[w] = package[w]
                  BY <2>2, <3>1 DEF With
            <3>3. Len(Append(package, call[c].source)) = Len(package) + 1
                  BY <1>0, <1>3, AppendProperties
            <3>4. Len(package') = Len(package) + 1
                  BY <2>2, <3>3
            <3> QED BY <1>3, <2>2, <3>1, <3>2, <3>4
      <2> QED BY <2>1, <2>2, InsertedRow
<1>6. \A d \in Client \ {c} : Active(d) /\ call[d].version = v => v \in shared
      BY <1>1 DEF IInv, HoldersShared
<1> HIDE DEF v
<1>7. TypeOK'
      <2>1. DOMAIN package' \subseteq Version /\ \A w \in DOMAIN package' : package'[w] \in Source
            BY <1>5 DEF Version
      <2> QED BY <1>1, <1>2, <2>1 DEF IInv, TypeOK
<1>8. RowsDense' /\ ManifestExists'
      BY <1>1, <1>4, <1>5 DEF IInv, RowsDense, ManifestExists
<1>9. VersionsNear'
      BY <1>2, <1>3, <1>5 DEF IInv, VersionsNear, Active
<1>10. HoldersShared'
      BY <1>1, <1>2 DEF IInv, HoldersShared, Active
<1>11. TakenShared'
      BY <1>1, <1>2, <1>5, <1>6 DEF IInv, TakenShared, Active
<1>12. Written'
      BY <1>1, <1>2 DEF IInv, Written
<1>13. UnsharedAgrees'
      BY <1>1, <1>3, <1>4, <1>5 DEF IInv, UnsharedAgrees
<1> QED BY <1>7, <1>8, <1>9, <1>10, <1>11, <1>12, <1>13 DEF IInv

LEMMA NextIInv == IInv /\ [Next]_vars => IInv'
<1> SUFFICES ASSUME IInv, [Next]_vars
             PROVE  IInv'
    OBVIOUS
<1>1. CASE UNCHANGED vars
      <2>1. package' = package /\ manifest' = manifest /\ call' = call /\ shared' = shared
            BY <1>1 DEF vars
      <2> QED BY <2>1 DEF IInv, TypeOK, RowsDense, VersionsNear, HoldersShared, TakenShared,
                          Written, ManifestExists, UnsharedAgrees, Active
<1>2. CASE Next
      BY <1>2, ReadVersionStep, WriteManifestStep, InsertPackageStep, AbandonStep DEF Next
<1> QED BY <1>1, <1>2

-----------------------------------------------------------------------------
\* IInv holds in every state of every instance.
THEOREM Inductive == Spec => []IInv
<1> QED BY InitIInv, NextIInv, PTL DEF Spec

\* Rows, files, calls and history keep their types (schema of frozen_packages).
THEOREM TypeCorrect == Spec => []TypeOK
<1>1. IInv => TypeOK
      BY DEF IInv
<1> QED BY <1>1, Inductive, PTL

\* Every package has its manifest file, however many calls race or die
\* (freeze_package writes the file before the row).
THEOREM ManifestsExist == Spec => []ManifestExists
<1>1. IInv => ManifestExists
      BY DEF IInv
<1> QED BY <1>1, Inductive, PTL

\* A manifest disagrees with its row only where two calls held one version at
\* once (freeze_package).
THEOREM OnlySharedDisagree == Spec => []UnsharedAgrees
<1>1. IInv => UnsharedAgrees
      BY DEF IInv
<1> QED BY <1>1, Inductive, PTL

\* The rows implement the log: each step of any call appends one package or
\* leaves all as they are (next_package_version, UNIQUE of frozen_packages).
THEOREM ImplementsLog == Spec => LogSpec
<1>1. Init => Log!Init
      BY DEF Init, Log!Init
<1>2. IInv /\ [Next]_vars => [Log!Next]_package
      <2> SUFFICES ASSUME IInv, [Next]_vars
                   PROVE  [Log!Next]_package
          OBVIOUS
      <2>1. CASE UNCHANGED vars
            BY <2>1 DEF vars
      <2>2. CASE Next
            <3>1. PICK c \in Client :
                      ReadVersion(c) \/ WriteManifest(c) \/ InsertPackage(c) \/ Abandon(c)
                  BY <2>2 DEF Next
            <3>2. CASE ReadVersion(c) \/ WriteManifest(c) \/ Abandon(c)
                  BY <3>2 DEF ReadVersion, WriteManifest, Abandon
            <3>3. CASE InsertPackage(c)
                  <4>1. call[c].source \in Source
                        BY DEF IInv, TypeOK, Call
                  <4> QED BY <3>3, <4>1, InsertedRow DEF Log!Next, Log!Freeze
            <3> QED BY <3>1, <3>2, <3>3
      <2> QED BY <2>1, <2>2
<1> QED BY <1>1, <1>2, Inductive, PTL DEF Spec, LogSpec, Log!Spec

=============================================================================
