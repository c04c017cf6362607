----------------------------- MODULE MCBatches ------------------------------
(***************************************************************************)
(* Finite instances of Batches.                                            *)
(***************************************************************************)
EXTENDS Batches

CONSTANTS v1, v2, tomb

ThreeKeys == {1, 2, 3}
TwoValues == {v1, v2}

\* Another batch that writes a key twice, and one that removes it.
TwoOthers == {<<Record(1, 0, v1), Record(1, 1, v2)>>, <<Record(2, 0, v1), Record(1, 1, tomb)>>}
=============================================================================
