----------------------------- MODULE MCRecords -----------------------------
(* Finite instances of the tables that are read and then written, for TLC. *)
(* They share no state: the part that is chosen at first moves, the others *)
(* do not.                                                                 *)
EXTENDS PackageStore, ArtifactStore, MessageHandoff, TLC

CONSTANTS c1, c2, c3, s1, s2, d1, d2, Parts

VARIABLE part

\* The sources of packages are only compared.
Symmetry == Permutations(Client) \cup Permutations(Source)

MCInit ==
    /\ part \in Parts
    /\ Init /\ ArtifactInit /\ MessageInit
    /\ part # "packages" => \A c, d \in Client : call[c] = call[d]

MCNext ==
    \/ part = "packages" /\ Next /\ UNCHANGED <<part, artifactVars, messageVars>>
    \/ part = "artifacts" /\ ArtifactNext /\ UNCHANGED <<part, vars, messageVars>>
    \/ part = "messages" /\ MessageNext /\ UNCHANGED <<part, vars, artifactVars>>

MCSpec == MCInit /\ [][MCNext]_<<part, vars, artifactVars, messageVars>>
=============================================================================
