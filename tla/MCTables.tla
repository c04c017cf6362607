------------------------------ MODULE MCTables ------------------------------
(***************************************************************************)
(* Finite instances of Tables and TableBytes.                              *)
(***************************************************************************)
EXTENDS TableBytes

CONSTANTS tomb, empty, long

SixKeys == 1 .. 6
Values == {tomb, empty, long}
TwoLong == [k \in Key |-> 2]
LongHas60 == [v \in Value |-> IF v = long THEN 60 ELSE 0]

\* Two or three entries of each key, short and long ones.
ValueOf(k, s) == IF (k + s) % 3 = 0 THEN long ELSE IF s = 1 THEN empty ELSE tomb
Fixed == {[key |-> k, seq |-> s, value |-> ValueOf(k, s)] : k \in Key, s \in {1, 2}}
Longer == {[key |-> k, seq |-> 3, value |-> long] : k \in {2, 5}}
Some == Fixed \cup Longer
=============================================================================
