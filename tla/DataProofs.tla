----------------------------- MODULE DataProofs -----------------------------
(***************************************************************************)
(* Lemmas about numbers, functions and sets of entries.                    *)
(***************************************************************************)
EXTENDS Entries, SequencesExt, SequenceTheorems, WellFoundedInduction, TLAPS

\* Of some numbers, one is the smallest.
LEMMA LeastOf ==
    ASSUME NEW T \in SUBSET Nat, T # {}
    PROVE  \E n \in T : \A m \in T : n <= m
<1> DEFINE R == {p \in Nat \X Nat : p[1] < p[2]}
<1>1. IsWellFoundedOn(R, Nat)
  <2>1. OpToRel(<, Nat) = R
    BY DEF OpToRel
  <2> QED BY <2>1, NatLessThanWellFounded
<1> HIDE DEF R
<1>2. PICK n \in T : \A m \in T : <<m, n>> \notin R
  BY <1>1, WFMin
<1>3. \A m \in T : n \in Nat /\ m \in Nat /\ ~(m < n)
  BY <1>2 DEF R
<1> QED BY <1>3

\* A bounded set of numbers has a largest one.
LEMMA MaxOfBounded ==
    ASSUME NEW S \in SUBSET Nat, S # {}, NEW b \in Nat, \A s \in S : s <= b
    PROVE  Max(S) \in S /\ \A s \in S : s <= Max(S)
<1> DEFINE T == {b - s : s \in S}
<1>1. T \in SUBSET Nat /\ T # {}
  <2>1. \A s \in S : b - s \in Nat
    OBVIOUS
  <2> QED BY <2>1
<1>2. PICK n \in T : \A m \in T : n <= m
  <2> HIDE DEF T
  <2> QED BY <1>1, LeastOf
<1>3. PICK x \in S : n = b - x
  BY <1>2
<1>4. \A s \in S : x >= s
  <2>1. SUFFICES ASSUME NEW s \in S PROVE x >= s
    OBVIOUS
  <2>2. b - x <= b - s
    BY <1>2, <1>3
  <2>3. b \in Nat /\ x \in Nat /\ s \in Nat
    OBVIOUS
  <2> HIDE DEF T
  <2> QED BY <2>2, <2>3
<1>5. Max(S) \in S /\ \A s \in S : Max(S) >= s
  BY <1>3, <1>4 DEF Max
<1>6. Max(S) \in Nat
  BY <1>5
<1> QED BY <1>5, <1>6

\* Induction: what holds of zero, and of each number's successor with it, holds
\* of every number.
LEMMA SetInduction ==
    ASSUME NEW T, 0 \in T, \A n \in Nat : n \in T => n + 1 \in T
    PROVE  \A n \in Nat : n \in T
<1> SUFFICES ASSUME Nat \ T # {} PROVE FALSE
  OBVIOUS
<1>1. PICK n \in Nat \ T : \A m \in Nat \ T : n <= m
  <2>1. Nat \ T \in SUBSET Nat
    OBVIOUS
  <2> QED BY <2>1, LeastOf
<1>2. n # 0
  OBVIOUS
<1>3. n - 1 \in Nat /\ n - 1 < n /\ n = (n - 1) + 1
  BY <1>2
<1>4. n - 1 \in T
  BY <1>1, <1>3
<1> QED BY <1>3, <1>4

\* u is s and then t.
Joined(u, s, t, S) ==
    /\ u \in Seq(S) /\ Len(u) = Len(s) + Len(t)
    /\ \A i \in 1 .. Len(s) : u[i] = s[i]
    /\ \A i \in 1 .. Len(t) : u[Len(s) + i] = t[i]

LEMMA ConcatIs ==
    ASSUME NEW S, NEW s \in Seq(S), NEW t \in Seq(S)
    PROVE  Joined(s \o t, s, t, S)
BY DEF Joined

LEMMA ConcatParts ==
    ASSUME NEW S, NEW s \in Seq(S), NEW t \in Seq(S)
    PROVE  /\ s = SubSeq(s \o t, 1, Len(s))
           /\ t = SubSeq(s \o t, Len(s) + 1, Len(s) + Len(t))
           /\ s \o t = SubSeq(s \o t, 1, Len(s) + Len(t))
<1>1. s = SubSeq(s \o t, 1, Len(s))
  OBVIOUS
<1>2. t = SubSeq(s \o t, Len(s) + 1, Len(s) + Len(t))
  OBVIOUS
<1>3. s \o t = SubSeq(s \o t, 1, Len(s) + Len(t))
  OBVIOUS
<1> QED BY <1>1, <1>2, <1>3

\* c has the cells of T behind u, up to x.
Slice(c, T, u, x, S) ==
    c \in Seq(S) /\ Len(c) = x - u /\ \A i \in 1 .. x - u : c[i] = T[u + i]

LEMMA SliceIs ==
    ASSUME NEW S, NEW T \in Seq(S), NEW u \in Nat, NEW x \in Nat, u <= x, x <= Len(T)
    PROVE  Slice(SubSeq(T, u + 1, x), T, u, x, S)
BY DEF Slice

\* What a definition by recursion adds to what it has, at each number up to N.
StepOn(F, N, S) == F \in [(1 .. N) \X S -> S]

\* f is defined by recursion from i - 1 to i.
Forward(f, N, S, base, F) ==
    /\ f \in [0 .. N -> S]
    /\ \A i \in 0 .. N : f[i] = IF i = 0 THEN base ELSE F[<<i, f[i - 1]>>]

\* f is defined by recursion from a later argument to i, where there is one.
Backward(f, N, S, next, base, F) ==
    /\ f \in [1 .. N -> S]
    /\ \A i \in 1 .. N :
          f[i] = IF next[i] \in (i + 1) .. N THEN F[<<i, f[next[i]]>>] ELSE base[i]

LEMMA ForwardRecursion ==
    ASSUME NEW N \in Nat, NEW S, NEW base \in S, NEW F, StepOn(F, N, S)
    PROVE  \E f : Forward(f, N, S, base, F)
<1> USE DEF StepOn
<1> DEFINE P(n, f) == \A i \in 0 .. n : f[i] = IF i = 0 THEN base ELSE F[<<i, f[i - 1]>>]
           T == {n \in Nat : n <= N => \E f \in [0 .. n -> S] : P(n, f)}
<1>1. 0 \in T
  <2>1. [i \in 0 .. 0 |-> base] \in [0 .. 0 -> S] /\ P(0, [i \in 0 .. 0 |-> base])
    OBVIOUS
  <2> QED BY <2>1
<1>2. ASSUME NEW n \in Nat, n \in T PROVE n + 1 \in T
  <2> SUFFICES ASSUME n + 1 <= N PROVE \E f \in [0 .. n + 1 -> S] : P(n + 1, f)
    BY <1>2
  <2>1. PICK f \in [0 .. n -> S] : P(n, f)
    BY <1>2
  <2> DEFINE g == [i \in 0 .. n + 1 |-> IF i = n + 1 THEN F[<<n + 1, f[n]>>] ELSE f[i]]
  <2>2. f[n] \in S /\ n + 1 \in 1 .. N
    OBVIOUS
  <2>3. F[<<n + 1, f[n]>>] \in S
    BY <2>2
  <2>4. g \in [0 .. n + 1 -> S]
    BY <2>3
  <2>6. g[n + 1] = F[<<n + 1, f[n]>>] /\ \A i \in 0 .. n : g[i] = f[i]
    OBVIOUS
  <2> HIDE DEF g
  <2>5. ASSUME NEW i \in 0 .. n + 1
        PROVE  g[i] = IF i = 0 THEN base ELSE F[<<i, g[i - 1]>>]
    <3>1. CASE i = n + 1
      <4>1. i # 0 /\ i - 1 = n /\ g[n] = f[n]
        BY <2>6, <3>1
      <4> QED BY <2>6, <3>1, <4>1
    <3>2. CASE i \in 0 .. n
      <4>1. f[i] = IF i = 0 THEN base ELSE F[<<i, f[i - 1]>>]
        BY <2>1, <3>2
      <4>2. i # 0 => i - 1 \in 0 .. n
        BY <3>2
      <4> QED BY <2>6, <3>2, <4>1, <4>2
    <3> QED BY <3>1, <3>2
  <2> QED BY <2>4, <2>5
<1> HIDE DEF T
<1>3. N \in T
  BY <1>1, <1>2, SetInduction
<1> QED BY <1>3 DEF T, Forward

LEMMA BackwardRecursion ==
    ASSUME NEW N \in Nat, NEW S, NEW next, NEW base \in [1 .. N -> S], NEW F, StepOn(F, N, S)
    PROVE  \E f : Backward(f, N, S, next, base, F)
<1> USE DEF StepOn
<1> DEFINE Step(f, i) == IF next[i] \in (i + 1) .. N THEN F[<<i, f[next[i]]>>] ELSE base[i]
           T == {n \in Nat : n <= N =>
                    \E f \in [(N - n + 1) .. N -> S] :
                       \A i \in (N - n + 1) .. N : f[i] = Step(f, i)}
<1>1. 0 \in T
  <2>1. \A i \in (N - 0 + 1) .. N : FALSE
    OBVIOUS
  <2>2. [i \in (N - 0 + 1) .. N |-> base[i]] \in [(N - 0 + 1) .. N -> S]
    BY <2>1
  <2> QED BY <2>1, <2>2
<1>2. ASSUME NEW n \in Nat, n \in T PROVE n + 1 \in T
  <2> SUFFICES ASSUME n + 1 <= N
               PROVE  \E f \in [(N - (n + 1) + 1) .. N -> S] :
                         \A i \in (N - (n + 1) + 1) .. N : f[i] = Step(f, i)
    BY <1>2
  <2> DEFINE k == N - n
  <2>0. k \in 1 .. N /\ N - n + 1 = k + 1 /\ N - (n + 1) + 1 = k
    OBVIOUS
  <2>1. PICK f \in [(k + 1) .. N -> S] : \A i \in (k + 1) .. N : f[i] = Step(f, i)
    BY <1>2, <2>0
  <2> HIDE DEF k
  <2> DEFINE g == [i \in k .. N |-> IF i = k THEN Step(f, k) ELSE f[i]]
  <2>3. Step(f, k) \in S
    <3>1. CASE next[k] \in (k + 1) .. N
      <4>1. <<k, f[next[k]]>> \in (1 .. N) \X S
        BY <2>0, <3>1
      <4>2. Step(f, k) = F[<<k, f[next[k]]>>]
        BY <3>1
      <4> QED BY <4>1, <4>2
    <3>2. CASE next[k] \notin (k + 1) .. N
      BY <2>0, <3>2
    <3> QED BY <3>1, <3>2
  <2>4. g \in [k .. N -> S]
    <3> HIDE DEF Step
    <3> QED BY <2>0, <2>3
  <2>5. ASSUME NEW i \in k .. N
        PROVE  g[i] = Step(g, i)
    <3>1. \A j \in (i + 1) .. N : j \in (k + 1) .. N /\ g[j] = f[j]
      BY <2>0
    <3>2. Step(g, i) = Step(f, i)
      <4>1. CASE next[i] \in (i + 1) .. N
        <5>1. g[next[i]] = f[next[i]]
          BY <3>1, <4>1
        <5> HIDE DEF g
        <5> QED BY <4>1, <5>1
      <4>2. CASE next[i] \notin (i + 1) .. N
        <5> HIDE DEF g
        <5> QED BY <4>2
      <4> QED BY <4>1, <4>2
    <3>3. g[i] = Step(f, i)
      <4> HIDE DEF Step
      <4>1. CASE i = k
        BY <4>1, <2>0
      <4>2. CASE i # k
        <5>1. i \in (k + 1) .. N
          BY <4>2, <2>0
        <5> QED BY <2>1, <4>2, <5>1
      <4> QED BY <4>1, <4>2
    <3> QED BY <3>2, <3>3
  <2> HIDE DEF g, Step
  <2> QED BY <2>0, <2>4, <2>5
<1> HIDE DEF T
<1>3. N \in T
  BY <1>1, <1>2, SetInduction
<1>4. N - N + 1 = 1
  OBVIOUS
<1> QED BY <1>3, <1>4 DEF T, Backward

(***************************************************************************)
(* Concatenation                                                           *)
(***************************************************************************)
\* f[i] is the concatenation of the first i parts.
Flattens(f, ss, S) ==
    /\ f \in [0 .. Len(ss) -> Seq(S)]
    /\ f[0] = <<>>
    /\ \A i \in 1 .. Len(ss) : f[i] = f[i - 1] \o ss[i]

LEMMA FlattenIs ==
    ASSUME NEW S, NEW ss \in Seq(Seq(S))
    PROVE  \E f : Flattens(f, ss, S) /\ FlattenSeq(ss) = f[Len(ss)]
<1> DEFINE n == Len(ss)
           F == [p \in (1 .. n) \X Seq(S) |-> p[2] \o ss[p[1]]]
           Def(g) == [i \in 1 .. n |-> IF i = 1 THEN ss[i] ELSE g[i - 1] \o ss[i]]
           flatten == CHOOSE g : g = Def(g)
<1>0. n \in Nat /\ <<>> \in Seq(S) /\ \A i \in 1 .. n : ss[i] \in Seq(S)
  BY EmptySeq
<1>1. StepOn(F, n, Seq(S))
  <2>1. ASSUME NEW p \in (1 .. n) \X Seq(S) PROVE p[2] \o ss[p[1]] \in Seq(S)
    <3>1. p[2] \in Seq(S) /\ ss[p[1]] \in Seq(S)
      BY <1>0
    <3> QED BY <3>1, ConcatProperties
  <2> HIDE DEF n
  <2> QED BY <2>1 DEF StepOn
<1>2. PICK f : Forward(f, n, Seq(S), <<>>, F)
  <2> HIDE DEF n, F
  <2> QED BY <1>0, <1>1, ForwardRecursion
<1>3. /\ f \in [0 .. n -> Seq(S)] /\ f[0] = <<>>
      /\ \A i \in 1 .. n : f[i] = F[<<i, f[i - 1]>>]
  <2> HIDE DEF n, F
  <2>1. /\ f \in [0 .. n -> Seq(S)]
        /\ \A i \in 0 .. n : f[i] = IF i = 0 THEN <<>> ELSE F[<<i, f[i - 1]>>]
    BY <1>2 DEF Forward
  <2>2. \A i \in 1 .. n : i \in 0 .. n /\ i # 0
    BY <1>0
  <2>3. 0 \in 0 .. n
    BY <1>0
  <2> QED BY <2>1, <2>2, <2>3
<1>4. ASSUME NEW i \in 1 .. n PROVE f[i] = f[i - 1] \o ss[i]
  <2>1. i - 1 \in 0 .. n /\ f[i - 1] \in Seq(S)
    <3> HIDE DEF n
    <3> QED BY <1>0, <1>3
  <2>2. F[<<i, f[i - 1]>>] = f[i - 1] \o ss[i]
    <3> HIDE DEF n
    <3> QED BY <2>1
  <2> QED BY <1>3, <2>2
<1>5. Flattens(f, ss, S)
  BY <1>3, <1>4 DEF Flattens
<1>6. CASE n = 0
  <2>1. FlattenSeq(ss) = ss /\ ss = <<>>
    BY <1>6, EmptySeq DEF FlattenSeq
  <2> QED BY <1>3, <1>5, <1>6, <2>1
<1>7. CASE n # 0
  <2>1. FlattenSeq(ss) = flatten[n]
    BY <1>7 DEF FlattenSeq
  <2> DEFINE g == [i \in 1 .. n |-> f[i]]
  <2>2. ASSUME NEW i \in 1 .. n PROVE g[i] = Def(g)[i]
    <3>1. CASE i = 1
      <4>1. f[1] = f[0] \o ss[1]
        <5>1. 1 \in 1 .. n /\ 1 - 1 = 0
          BY <3>1
        <5> HIDE DEF n
        <5> QED BY <1>4, <5>1
      <4>2. <<>> \o ss[1] = ss[1]
        BY <1>0, <3>1, ConcatEmptySeq
      <4> QED BY <1>3, <3>1, <4>1, <4>2
    <3>2. CASE i # 1
      <4>1. i - 1 \in 1 .. n
        BY <3>2
      <4>2. g[i - 1] = f[i - 1] /\ g[i] = f[i]
        BY <4>1
      <4> HIDE DEF g
      <4> QED BY <1>4, <3>2, <4>2
    <3> QED BY <3>1, <3>2
  <2>3. g = Def(g)
    <3>1. g = [i \in 1 .. n |-> g[i]] /\ Def(g) = [i \in 1 .. n |-> Def(g)[i]]
      OBVIOUS
    <3> HIDE DEF Def, n, g
    <3> QED BY <2>2, <3>1
  <2>4. flatten = Def(flatten)
    BY <2>3
  <2>5. ASSUME NEW h, h = Def(h) PROVE \A i \in 1 .. n : h[i] = f[i]
    <3>0. \A i \in 1 .. n : h[i] = IF i = 1 THEN ss[i] ELSE h[i - 1] \o ss[i]
      <4>1. ASSUME NEW i \in 1 .. n PROVE h[i] = Def(h)[i]
        BY <2>5, Zenon
      <4> QED BY <4>1
    <3> HIDE DEF Def, n
    <3> DEFINE T == {k \in Nat : k \in 1 .. n => h[k] = f[k]}
    <3>1. 0 \in T
      OBVIOUS
    <3>2. ASSUME NEW k \in Nat, k \in T PROVE k + 1 \in T
      <4> SUFFICES ASSUME k + 1 \in 1 .. n PROVE h[k + 1] = f[k + 1]
        BY <1>0
      <4>1. CASE k = 0
        <5>1. 1 \in 1 .. n /\ 1 - 1 = 0
          BY <1>0, <4>1
        <5>2. h[1] = ss[1] /\ f[1] = f[0] \o ss[1] /\ ss[1] \in Seq(S)
          BY <1>0, <1>4, <3>0, <5>1
        <5>3. <<>> \o ss[1] = ss[1]
          BY <5>2, ConcatEmptySeq
        <5> QED BY <1>3, <4>1, <5>2, <5>3
      <4>2. CASE k # 0
        <5>1. k \in 1 .. n /\ (k + 1) - 1 = k /\ k + 1 # 1
          BY <1>0, <4>2
        <5>2. h[k + 1] = h[k] \o ss[k + 1] /\ f[k + 1] = f[k] \o ss[k + 1]
          BY <1>4, <3>0, <5>1
        <5> QED BY <3>2, <5>1, <5>2
      <4> QED BY <4>1, <4>2
    <3> HIDE DEF T
    <3>3. \A k \in Nat : k \in T
      BY <3>1, <3>2, SetInduction
    <3> QED BY <1>0, <3>3 DEF T
  <2> HIDE DEF flatten, Def
  <2>6. flatten[n] = f[n]
    BY <1>0, <1>7, <2>4, <2>5
  <2> QED BY <1>5, <2>1, <2>6
<1> QED BY <1>6, <1>7

\* Sequences that begin with the same k parts have them in common.
LEMMA SameFirstParts ==
    ASSUME NEW S, NEW f, NEW ss, Flattens(f, ss, S), NEW g, NEW tt, Flattens(g, tt, S),
           NEW n \in Nat, n <= Len(ss), n <= Len(tt), Len(ss) \in Nat, Len(tt) \in Nat,
           \A i \in 1 .. n : ss[i] = tt[i]
    PROVE  f[n] = g[n]
<1> DEFINE T == {k \in Nat : k <= n => f[k] = g[k]}
<1>1. 0 \in T
  BY DEF Flattens
<1>2. ASSUME NEW k \in Nat, k \in T PROVE k + 1 \in T
  <2> SUFFICES ASSUME k + 1 <= n PROVE f[k + 1] = g[k + 1]
    OBVIOUS
  <2> DEFINE i == k + 1
  <2>1. i \in 1 .. Len(ss) /\ i \in 1 .. Len(tt) /\ i \in 1 .. n /\ i - 1 = k /\ k <= n
    OBVIOUS
  <2>2. f[k] = g[k]
    BY <1>2, <2>1
  <2> HIDE DEF i, T
  <2>3. f[i] = f[i - 1] \o ss[i] /\ g[i] = g[i - 1] \o tt[i]
    BY <2>1 DEF Flattens
  <2>4. f[i] = g[i]
    BY <2>1, <2>2, <2>3
  <2> QED BY <2>4 DEF i
<1> HIDE DEF T
<1>3. n \in T
  BY <1>1, <1>2, SetInduction
<1> QED BY <1>3 DEF T

LEMMA FlattenNone == FlattenSeq(<<>>) = <<>>
BY DEF FlattenSeq

\* One part more.
LEMMA FlattenMore ==
    ASSUME NEW S, NEW ss \in Seq(Seq(S)), NEW tt \in Seq(Seq(S)), NEW n \in Nat,
           Len(ss) = n, Len(tt) = n + 1, \A i \in 1 .. n : ss[i] = tt[i]
    PROVE  FlattenSeq(tt) = FlattenSeq(ss) \o tt[n + 1]
<1>1. PICK f : Flattens(f, ss, S) /\ FlattenSeq(ss) = f[n]
  BY FlattenIs
<1>2. PICK g : Flattens(g, tt, S) /\ FlattenSeq(tt) = g[n + 1]
  BY FlattenIs
<1>3. f[n] = g[n]
  BY <1>1, <1>2, SameFirstParts, SMTT(30)
<1>4. g[n + 1] = g[n] \o tt[n + 1]
  <2> DEFINE k == n + 1
  <2>1. k \in 1 .. Len(tt) /\ k - 1 = n
    OBVIOUS
  <2> HIDE DEF k
  <2>2. g[k] = g[k - 1] \o tt[k]
    BY <1>2, <2>1 DEF Flattens
  <2> QED BY <2>1, <2>2 DEF k
<1> QED BY <1>1, <1>2, <1>3, <1>4

\* Only the last part differs.
LEMMA FlattenOther ==
    ASSUME NEW S, NEW ss \in Seq(Seq(S)), NEW tt \in Seq(Seq(S)), NEW n \in Nat \ {0},
           Len(ss) = n, Len(tt) = n, \A i \in 1 .. n - 1 : ss[i] = tt[i]
    PROVE  \E p \in Seq(S) : FlattenSeq(ss) = p \o ss[n] /\ FlattenSeq(tt) = p \o tt[n]
<1>1. PICK f : Flattens(f, ss, S) /\ FlattenSeq(ss) = f[n]
  BY FlattenIs
<1>2. PICK g : Flattens(g, tt, S) /\ FlattenSeq(tt) = g[n]
  BY FlattenIs
<1> DEFINE m == n - 1
<1>3. m \in Nat /\ m <= n /\ n \in 1 .. n /\ m \in 0 .. n
  OBVIOUS
<1>4. \A i \in 1 .. m : ss[i] = tt[i]
  OBVIOUS
<1>5. f[n] = f[m] \o ss[n] /\ g[n] = g[m] \o tt[n]
  BY <1>1, <1>2, <1>3 DEF Flattens
<1> HIDE DEF m
<1>6. f[m] = g[m]
  BY <1>1, <1>2, <1>3, <1>4, SameFirstParts
<1>7. f[m] \in Seq(S)
  <2>1. f \in [0 .. n -> Seq(S)]
    BY <1>1 DEF Flattens
  <2> QED BY <1>3, <2>1
<1> QED BY <1>1, <1>2, <1>5, <1>6, <1>7

LEMMA FlattenType ==
    ASSUME NEW S, NEW ss \in Seq(Seq(S))
    PROVE  FlattenSeq(ss) \in Seq(S)
<1>1. PICK f : Flattens(f, ss, S) /\ FlattenSeq(ss) = f[Len(ss)]
  BY FlattenIs
<1>2. Len(ss) \in 0 .. Len(ss) /\ f \in [0 .. Len(ss) -> Seq(S)]
  BY <1>1, LenProperties DEF Flattens
<1> QED BY <1>1, <1>2

(***************************************************************************)
(* Sequences cut into parts                                                *)
(***************************************************************************)
LEMMA SliceConcat ==
    ASSUME NEW S, NEW c \in Seq(S), NEW a \in Nat, NEW b \in Nat, NEW d \in Nat,
           a <= b, b <= d, d <= Len(c)
    PROVE  SubSeq(c, a + 1, b) \o SubSeq(c, b + 1, d) = SubSeq(c, a + 1, d)
<1>1. a + 1 \in 1 .. Len(c) + 1 /\ b \in (a + 1) - 1 .. Len(c) /\ d \in b .. Len(c)
  OBVIOUS
<1> QED BY <1>1, ConcatAdjacentSubSeq

LEMMA HeadTail ==
    ASSUME NEW S, NEW c \in Seq(S), NEW b \in Nat, b <= Len(c)
    PROVE  SubSeq(c, 1, b) \o SubSeq(c, b + 1, Len(c)) = c
<1> DEFINE a == 0
<1>1. a \in Nat /\ a <= b /\ a + 1 = 1 /\ Len(c) \in Nat /\ Len(c) <= Len(c)
  OBVIOUS
<1> HIDE DEF a
<1>2. SubSeq(c, a + 1, b) \o SubSeq(c, b + 1, Len(c)) = SubSeq(c, a + 1, Len(c))
  BY <1>1, SliceConcat
<1>3. SubSeq(c, 1, Len(c)) = c
  OBVIOUS
<1> QED BY <1>1, <1>2, <1>3

LEMMA SliceNone ==
    ASSUME NEW c, NEW a \in Nat
    PROVE  SubSeq(c, a + 1, a) = <<>>
BY SubSeqEmpty

LEMMA JoinedLengths ==
    ASSUME NEW S, NEW s \in Seq(S), NEW t \in Seq(S), NEW u, Joined(u, s, t, S)
    PROVE  /\ Len(s) \in Nat /\ Len(t) \in Nat /\ Len(u) \in Nat
           /\ Len(u) = Len(s) + Len(t) /\ Len(s) <= Len(u)
BY DEF Joined

LEMMA PartIs ==
    ASSUME NEW S, NEW c \in Seq(S), NEW s \in Seq(S), NEW a \in Nat, a + Len(s) <= Len(c),
           \A j \in 1 .. Len(s) : c[a + j] = s[j]
    PROVE  s = SubSeq(c, a + 1, a + Len(s))
<1> DEFINE t == SubSeq(c, a + 1, a + Len(s))
<1>1. /\ t \in Seq(S) /\ Len(t) = Len(s) /\ Len(s) \in Nat
      /\ \A j \in 1 .. Len(s) : t[j] = c[a + j]
  OBVIOUS
<1> HIDE DEF t
<1>2. t = s
  BY <1>1
<1> QED BY <1>2 DEF t

\* The parts ss are those of c between the cells o.
Tiles(c, ss, o, S) ==
    /\ c \in Seq(S) /\ ss \in Seq(Seq(S))
    /\ o \in [0 .. Len(ss) -> 0 .. Len(c)]
    /\ \A i \in 1 .. Len(ss) : o[i - 1] <= o[i] /\ ss[i] = SubSeq(c, o[i - 1] + 1, o[i])

LEMMA TilesFlatten ==
    ASSUME NEW S, NEW c, NEW ss, NEW o, Tiles(c, ss, o, S)
    PROVE  FlattenSeq(ss) = SubSeq(c, o[0] + 1, o[Len(ss)])
<1> DEFINE n == Len(ss)
<1>1. /\ c \in Seq(S) /\ ss \in Seq(Seq(S)) /\ n \in Nat /\ Len(c) \in Nat
      /\ o \in [0 .. n -> 0 .. Len(c)]
      /\ \A i \in 1 .. n : o[i - 1] <= o[i] /\ ss[i] = SubSeq(c, o[i - 1] + 1, o[i])
  BY DEF Tiles
<1>2. PICK f : Flattens(f, ss, S) /\ FlattenSeq(ss) = f[n]
  BY <1>1, FlattenIs
<1>3. f[0] = <<>> /\ \A i \in 1 .. n : f[i] = f[i - 1] \o ss[i]
  BY <1>2 DEF Flattens
<1> HIDE DEF n
<1> DEFINE T == {k \in Nat : k <= n => o[0] <= o[k] /\ f[k] = SubSeq(c, o[0] + 1, o[k])}
<1>4. 0 \in T
  <2>1. o[0] \in Nat
    BY <1>1
  <2>2. SubSeq(c, o[0] + 1, o[0]) = <<>>
    BY <2>1, SliceNone
  <2>3. o[0] <= o[0]
    BY <2>1
  <2> QED BY <1>3, <2>2, <2>3
<1>5. ASSUME NEW k \in Nat, k \in T PROVE k + 1 \in T
  <2> SUFFICES ASSUME k + 1 <= n
               PROVE  o[0] <= o[k + 1] /\ f[k + 1] = SubSeq(c, o[0] + 1, o[k + 1])
    OBVIOUS
  <2>1. k + 1 \in 1 .. n /\ (k + 1) - 1 = k /\ k <= n
    BY <1>1
  <2>2. o[0] <= o[k] /\ f[k] = SubSeq(c, o[0] + 1, o[k])
    BY <1>5, <2>1
  <2>3. o[k] <= o[k + 1] /\ ss[k + 1] = SubSeq(c, o[k] + 1, o[k + 1])
    BY <1>1, <2>1
  <2>4. f[k + 1] = f[k] \o ss[k + 1]
    BY <1>3, <2>1
  <2> DEFINE A == o[0]
             B == o[k]
             D == o[k + 1]
  <2>5. A \in Nat /\ B \in Nat /\ D \in Nat /\ A <= B /\ B <= D /\ D <= Len(c)
    BY <1>1, <2>1, <2>2, <2>3
  <2> HIDE DEF A, B, D
  <2>6. SubSeq(c, A + 1, B) \o SubSeq(c, B + 1, D) = SubSeq(c, A + 1, D)
    BY <1>1, <2>5, SliceConcat
  <2>7. A <= D
    BY <2>5
  <2> QED BY <2>2, <2>3, <2>4, <2>6, <2>7 DEF A, B, D
<1> HIDE DEF T
<1>6. n \in T
  BY <1>1, <1>4, <1>5, SetInduction
<1>7. f[n] = SubSeq(c, o[0] + 1, o[n])
  BY <1>1, <1>6 DEF T
<1> QED BY <1>2, <1>7 DEF n

LEMMA FlattenTiles ==
    ASSUME NEW S, NEW ss \in Seq(Seq(S))
    PROVE  \E o : /\ Tiles(FlattenSeq(ss), ss, o, S)
                  /\ o[0] = 0 /\ o[Len(ss)] = Len(FlattenSeq(ss))
                  /\ \A i \in 1 .. Len(ss) : o[i] = o[i - 1] + Len(ss[i])
<1> DEFINE n == Len(ss)
<1>1. n \in Nat /\ \A i \in 1 .. n : ss[i] \in Seq(S)
  OBVIOUS
<1>2. PICK f : Flattens(f, ss, S) /\ FlattenSeq(ss) = f[n]
  BY FlattenIs
<1>3. /\ f \in [0 .. n -> Seq(S)] /\ f[0] = <<>>
      /\ \A i \in 1 .. n : f[i] = f[i - 1] \o ss[i]
  BY <1>2 DEF Flattens
<1> HIDE DEF n
<1> DEFINE o == [i \in 0 .. n |-> Len(f[i])]
<1>4. ASSUME NEW i \in 1 .. n
      PROVE  /\ i - 1 \in 0 .. n /\ i \in 0 .. n /\ f[i - 1] \in Seq(S) /\ f[i] \in Seq(S)
             /\ Joined(f[i], f[i - 1], ss[i], S)
  <2>1. i - 1 \in 0 .. n /\ i \in 0 .. n
    BY <1>1
  <2>2. f[i - 1] \in Seq(S) /\ f[i] \in Seq(S) /\ ss[i] \in Seq(S)
    BY <1>1, <1>3, <2>1
  <2>3. Joined(f[i - 1] \o ss[i], f[i - 1], ss[i], S)
    BY <2>2, ConcatIs
  <2> QED BY <1>3, <2>1, <2>2, <2>3
<1>5. ASSUME NEW i \in 1 .. n
      PROVE  o[i] = o[i - 1] + Len(ss[i]) /\ o[i - 1] \in Nat /\ o[i] \in Nat /\ o[i - 1] <= o[i]
  <2>1. o[i] = Len(f[i]) /\ o[i - 1] = Len(f[i - 1])
    BY <1>4
  <2>2. /\ Len(f[i]) = Len(f[i - 1]) + Len(ss[i]) /\ Len(f[i]) \in Nat
        /\ Len(f[i - 1]) \in Nat /\ Len(f[i - 1]) <= Len(f[i])
    BY <1>1, <1>4, JoinedLengths, ZenonT(60)
  <2> HIDE DEF o
  <2> QED BY <2>1, <2>2
<1> DEFINE Prefix(s, t) ==
             Len(s) <= Len(t) /\ \A j \in 1 .. Len(s) : s[j] = t[j]
           T == {k \in Nat : k <= n => \A i \in 0 .. k : Prefix(f[i], f[k])}
<1>6. 0 \in T
  <2>1. Len(<<>>) \in Nat
    OBVIOUS
  <2> QED BY <1>3, <2>1
<1>7. ASSUME NEW k \in Nat, k \in T PROVE k + 1 \in T
  <2> SUFFICES ASSUME k + 1 <= n, NEW i \in 0 .. k + 1 PROVE Prefix(f[i], f[k + 1])
    OBVIOUS
  <2>1. k + 1 \in 1 .. n /\ (k + 1) - 1 = k /\ k <= n
    BY <1>1
  <2>2. f[k] \in Seq(S) /\ f[k + 1] \in Seq(S) /\ Joined(f[k + 1], f[k], ss[k + 1], S)
    BY <1>4, <2>1
  <2>3. Prefix(f[k], f[k + 1])
    <3>1. ss[k + 1] \in Seq(S)
      BY <1>1, <2>1
    <3>2. Len(f[k]) <= Len(f[k + 1])
      BY <2>2, <3>1, JoinedLengths
    <3> QED BY <2>2, <3>2 DEF Joined
  <2>4. CASE i \in 0 .. k
    <3>1. Prefix(f[i], f[k])
      BY <1>7, <2>1, <2>4
    <3>2. Len(f[i]) \in Nat /\ Len(f[k]) \in Nat /\ Len(f[k + 1]) \in Nat
      BY <1>3, <2>1, <2>2, <2>4
    <3> QED BY <2>3, <3>1, <3>2
  <2>5. CASE i = k + 1
    <3>1. Len(f[k + 1]) \in Nat
      BY <2>2
    <3> QED BY <2>5, <3>1
  <2> QED BY <1>1, <2>4, <2>5
<1> HIDE DEF T
<1>8. n \in T
  BY <1>1, <1>6, <1>7, SetInduction
<1>9. \A i \in 0 .. n : Prefix(f[i], f[n])
  BY <1>1, <1>8 DEF T
<1>10. f[n] \in Seq(S) /\ Len(f[n]) \in Nat
  BY <1>1, <1>3
<1>11. o \in [0 .. n -> 0 .. Len(f[n])]
  <2>1. ASSUME NEW i \in 0 .. n PROVE Len(f[i]) \in 0 .. Len(f[n])
    BY <1>3, <1>9, <1>10
  <2> QED BY <2>1
<1>12. ASSUME NEW i \in 1 .. n PROVE ss[i] = SubSeq(f[n], o[i - 1] + 1, o[i])
  <2> DEFINE A == o[i - 1]
             B == o[i]
             s == ss[i]
             c == f[n]
  <2>1. A \in Nat /\ B = A + Len(s) /\ s \in Seq(S) /\ Len(s) \in Nat /\ B <= Len(c)
    <3>1. i \in 0 .. n
      BY <1>4
    <3> HIDE DEF o
    <3> QED BY <1>1, <1>5, <1>11, <3>1
  <2>2. ASSUME NEW j \in 1 .. Len(s) PROVE c[A + j] = s[j]
    <3>1. f[i][Len(f[i - 1]) + j] = s[j]
      BY <1>4 DEF Joined
    <3>2. A = Len(f[i - 1]) /\ B = Len(f[i])
      BY <1>4
    <3>3. A + j \in 1 .. B
      <4> HIDE DEF A, B, s
      <4> QED BY <2>1
    <3>4. Prefix(f[i], c)
      BY <1>4, <1>9
    <3> HIDE DEF A, B, c, s, o
    <3> QED BY <3>1, <3>2, <3>3, <3>4
  <2>3. c \in Seq(S)
    BY <1>10
  <2> HIDE DEF A, B, s, c, Prefix
  <2>4. s = SubSeq(c, A + 1, A + Len(s))
    BY <2>1, <2>2, <2>3, PartIs
  <2> QED BY <2>1, <2>4 DEF A, B, s, c
<1>13. o[0] = 0 /\ o[n] = Len(f[n])
  <2>1. Len(<<>>) = 0 /\ 0 \in 0 .. n /\ n \in 0 .. n
    BY <1>1
  <2> QED BY <1>3, <2>1
<1> HIDE DEF o
<1>14. Tiles(f[n], ss, o, S)
  BY <1>5, <1>10, <1>11, <1>12 DEF Tiles, n
<1> QED BY <1>2, <1>5, <1>13, <1>14 DEF n

(***************************************************************************)
(* Entries                                                                 *)
(***************************************************************************)
\* Of some entries, one has the smallest sequence number.
LEMMA FirstOf ==
    ASSUME NEW E, E # {}, \A e \in E : e.seq \in Nat
    PROVE  \E e \in E : \A d \in E : e.seq <= d.seq
<1> DEFINE T == {e.seq : e \in E}
<1>1. T \in SUBSET Nat /\ T # {}
  OBVIOUS
<1>2. PICK n \in T : \A m \in T : n <= m
  <2> HIDE DEF T
  <2> QED BY <1>1, LeastOf
<1> QED BY <1>2

\* Of some entries with bounded sequence numbers, one has the largest.
LEMMA LastOf ==
    ASSUME NEW E \in SUBSET Entry, E # {}, NEW b \in Nat, \A e \in E : e.seq <= b
    PROVE  \E e \in E : \A d \in E : d.seq <= e.seq
<1> DEFINE S == {e.seq : e \in E}
<1>1. S \in SUBSET Nat /\ S # {} /\ \A s \in S : s <= b
  BY DEF Entry
<1>2. Max(S) \in S /\ \A s \in S : s <= Max(S)
  <2> HIDE DEF S
  <2> QED BY <1>1, MaxOfBounded
<1> QED BY <1>2

LEMMA MaxOfTwo ==
    ASSUME NEW m \in Nat, NEW n \in Nat
    PROVE  /\ Max({m, n}) \in {m, n}
           /\ m <= Max({m, n}) /\ n <= Max({m, n})
<1>1. \A s \in {m, n} : s <= m + n
  OBVIOUS
<1>2. {m, n} \in SUBSET Nat /\ {m, n} # {} /\ m + n \in Nat
  OBVIOUS
<1> HIDE DEF Max
<1> QED BY <1>1, <1>2, MaxOfBounded

\* LargestSeq is the sequence number of an entry of its key, or zero.
LEMMA LargestSeqIs ==
    ASSUME NEW E \in SUBSET Entry, NEW k \in Key,
           NEW b \in Nat, \A e \in E : e.seq <= b
    PROVE  LET n == LargestSeq(E, k)
           IN  /\ n \in Nat /\ n <= b
               /\ \A e \in E : e.key = k => e.seq <= n
               /\ n # 0 => [key |-> k, seq |-> n] \in E
<1> DEFINE S == {e.seq : e \in {e \in E : e.key = k}} \cup {0}
           n == Max(S)
<1>1. S \in SUBSET Nat /\ S # {} /\ \A s \in S : s <= b
  BY DEF Entry
<1>2. n \in S /\ \A s \in S : s <= n
  <2> HIDE DEF S
  <2> QED BY <1>1, MaxOfBounded
<1>3. n # 0 => \E e \in E : e.key = k /\ e.seq = n
  BY <1>2
<1>4. n # 0 => [key |-> k, seq |-> n] \in E
  <2>1. \A e \in E : e = [key |-> e.key, seq |-> e.seq]
    BY DEF Entry
  <2> HIDE DEF n
  <2> QED BY <1>3, <2>1
<1>5. \A e \in E : e.key = k => e.seq <= n
  BY <1>2
<1>6. n \in Nat /\ n <= b
  BY <1>1, <1>2
<1> HIDE DEF n
<1>7. LargestSeq(E, k) = n
  BY DEF LargestSeq, n
<1> QED BY <1>4, <1>5, <1>6, <1>7

\* Sets of entries that outdo each other have the same largest number.
LEMMA SameLargest ==
    ASSUME NEW A \in SUBSET Entry, NEW B \in SUBSET Entry, NEW k \in Key, NEW b \in Nat,
           \A e \in A \cup B : e.seq <= b,
           \A d \in A : d.key = k => \E e \in B : e.key = k /\ d.seq <= e.seq,
           \A d \in B : d.key = k => \E e \in A : e.key = k /\ d.seq <= e.seq
    PROVE  LargestSeq(A, k) = LargestSeq(B, k)
<1>1. ASSUME NEW C \in SUBSET Entry, NEW D \in SUBSET Entry,
             \A e \in C \cup D : e.seq <= b,
             \A d \in C : d.key = k => \E e \in D : e.key = k /\ d.seq <= e.seq
      PROVE  LargestSeq(C, k) <= LargestSeq(D, k)
  <2> DEFINE c == LargestSeq(C, k)
             d == LargestSeq(D, k)
  <2>1. c \in Nat /\ (c # 0 => [key |-> k, seq |-> c] \in C)
    BY <1>1, LargestSeqIs
  <2>2. d \in Nat /\ \A e \in D : e.key = k => e.seq <= d
    BY <1>1, LargestSeqIs
  <2> HIDE DEF c, d
  <2>3. CASE c # 0
    <3>1. PICK e \in D : e.key = k /\ c <= e.seq
      BY <1>1, <2>1, <2>3
    <3>2. e.seq \in Nat /\ e.seq <= d
      BY <2>2, <3>1 DEF Entry
    <3> QED BY <2>1, <2>2, <3>1, <3>2 DEF c, d
  <2>4. CASE c = 0
    <3>1. c <= d
      BY <2>2, <2>4
    <3> QED BY <3>1 DEF c, d
  <2> QED BY <2>3, <2>4
<1>2. LargestSeq(A, k) \in Nat /\ LargestSeq(B, k) \in Nat
  BY LargestSeqIs
<1>3. LargestSeq(A, k) <= LargestSeq(B, k) /\ LargestSeq(B, k) <= LargestSeq(A, k)
  BY <1>1
<1> QED BY <1>2, <1>3

\* Batches are numbered from the next number on.
LEMMA NumberedIs ==
    ASSUME NEW keys \in Seq(Key), NEW n \in Nat
    PROVE  /\ Numbered(keys, n) \subseteq Entry
           /\ Len(keys) \in Nat
           /\ \A e \in Numbered(keys, n) : n <= e.seq /\ e.seq < n + Len(keys)
<1>2. Len(keys) \in Nat /\ DOMAIN keys = 1 .. Len(keys)
  OBVIOUS
<1>3. \A i \in DOMAIN keys : keys[i] \in Key /\ n + i - 1 \in Nat /\ n <= n + i - 1
                             /\ n + i - 1 < n + Len(keys)
  BY <1>2
<1> QED BY <1>2, <1>3 DEF Numbered, Entry
=============================================================================
