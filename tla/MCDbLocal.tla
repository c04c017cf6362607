----------------------------- MODULE MCDbLocal ------------------------------
(***************************************************************************)
(* Finite instances of DbLocal.                                            *)
(***************************************************************************)
EXTENDS DbLocal

CONSTANTS w1, w2, background, r1

OneWriter == {w1}
TwoWriters == {w1, w2}
OneWriterOneLoop == {w1, background}
TwoWritersOneLoop == {w1, w2, background}
Background == {background}

FromTop == [c \in Task |-> Top]
Ratios == [c \in Task |-> IF c = background THEN 70 ELSE 100]

\* options::level_file_number
Numbers(first) == [l \in Level |-> IF l = MaxLevel THEN 0 ELSE IF l < 2 THEN first ELSE 16]
TwoThenMany == Numbers(2)
ThreeThenMany == Numbers(3)

TwoKeys == {1, 2}

OneKey == {1}
OnceOrTwice == {<<1>>, <<1, 1>>}

Singles == {<<k>> : k \in Key}
Pair == {<<1, 2>>}
SinglesAndPair == Singles \cup Pair
SinglesToTriple == SinglesAndPair \cup {<<1, 2, 1>>}
=============================================================================
