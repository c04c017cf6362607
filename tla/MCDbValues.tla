----------------------------- MODULE MCDbValues -----------------------------
(***************************************************************************)
(* Finite instances of DbValues.                                           *)
(***************************************************************************)
EXTENDS MCDbLocal, DbValues
=============================================================================
