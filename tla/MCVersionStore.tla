--------------------------- MODULE MCVersionStore ---------------------------
(***************************************************************************)
(* Finite instances of VersionStore.  Names, updates and readers are       *)
(* interchangeable, so the safety runs use symmetry.                       *)
(***************************************************************************)
EXTENDS VersionStore, TLC

CONSTANTS f1, f2, f3, v1, v2, v3, u1, u2, r1, r2

ThreeFiles == {f1, f2, f3}
TwoFiles == {f1, f2}
ThreeVersions == {v1, v2, v3}
TwoUpdaters == {u1, u2}
OneUpdater == {u1}
TwoReaders == {r1, r2}
OneReader == {r1}

Symmetry == Permutations(File) \cup Permutations(Version)
            \cup Permutations(Updater) \cup Permutations(Reader)
=============================================================================
