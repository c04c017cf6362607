----------------------------- MODULE MCLogFile ------------------------------
(***************************************************************************)
(* Finite instances of LogFile.                                            *)
(***************************************************************************)
EXTENDS LogFile

CONSTANTS v1, empty, large, tomb, garbled

TwoKeys == {1, 2}
AllValues == {v1, empty, large}

\* Entries have five to seven cells, those of a large value thirteen or more.
Lengths == (0 :> 0) @@ (1 :> 1) @@ (2 :> 2) @@ (tomb :> 0) @@ (empty :> 0) @@ (v1 :> 2)
              @@ (large :> 8)

\* Another batch, that writes a key twice.
OneOther == {<<Record(1, 0, v1), Record(1, 1, empty)>>}
=============================================================================
