----------------------------- MODULE MCRecovery -----------------------------
(***************************************************************************)
(* Finite instances of Recovery.                                           *)
(***************************************************************************)
EXTENDS Recovery, TLC

CONSTANTS w1, w2

OneWriter == {w1}
TwoWriters == {w1, w2}
WriterSymmetry == Permutations(TwoWriters)
TwoKeys == {1, 2}
SinglesAndPair == {<<k>> : k \in Key} \cup {<<1, 2>>}
OneToFour == {<<1>>, <<1, 2>>, <<1, 2, 1>>, <<1, 2, 1, 2>>}
=============================================================================
