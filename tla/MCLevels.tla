------------------------------ MODULE MCLevels ------------------------------
(***************************************************************************)
(* Finite instances of Levels.                                             *)
(***************************************************************************)
EXTENDS Levels

CONSTANTS background, inserting   \* the loop of a level, and an insert

Background == {background}
Both == {background, inserting}

FromTop == [c \in Task |-> Top]
\* may_compact(l, 0.7) in the loop, may_compact() in an insert
Ratios == [c \in Task |-> IF c = background THEN 70 ELSE 100]

\* options::level_file_number, and zero for the last level
Numbers(first) == [l \in Level |-> IF l = MaxLevel THEN 0 ELSE IF l < 2 THEN first ELSE 16]
ThreeThenMany == Numbers(3)

SingleKeys == {{k} : k \in Key}

TwoKeys == {1, 2}
=============================================================================
