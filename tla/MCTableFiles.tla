---------------------------- MODULE MCTableFiles ----------------------------
(***************************************************************************)
(* Finite instances of TableFiles.                                         *)
(***************************************************************************)
EXTENDS TableFiles

CONSTANTS t1, t2

\* Blocks that leave room in the buffer of a file, fill it, and are larger.
TwoLayouts == (t1 :> <<3, 2>>) @@ (t2 :> <<5>>)
=============================================================================
