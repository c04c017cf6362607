--------------------------- MODULE LogFileProofs ----------------------------
(***************************************************************************)
(* Proofs about batches, and about the pre-write log as bytes.             *)
(***************************************************************************)
EXTENDS LogFile, DataProofs, SequenceTheorems

USE BatchAssumption, KeyAssumption

(***************************************************************************)
(* Batches                                                                 *)
(***************************************************************************)
Items == [key : Key \cup {NoKey}, seq : Nat, value : Value \cup {Tomb}]

\* The last of the first n entries that is of k has the value v.
LastUpTo(es, n, k, v) ==
    \E i \in 1 .. n :
        /\ es[i].key = k
        /\ es[i].value = v
        /\ \A j \in (i + 1) .. n : es[j].key # k

NoneUpTo(es, n, k) == \A i \in 1 .. n : es[i].key # k

\* What a batch keeps of the client's last word v on k.
Keeps(es, k, v) ==
    LastUpTo(es, Len(es), k, v) \/ (v = Tomb /\ NoneUpTo(es, Len(es), k))

BatchInv ==
    /\ BatchTypeOK
    /\ \A k \in Key : \A v \in asked[k] : Keeps(entries, k, v)
    /\ numbered => \A i \in 1 .. Len(entries) : entries[i].seq = seqnumber + i - 1

LEMMA RecordIsItem ==
    ASSUME NEW k \in Key \cup {NoKey}, NEW n \in Nat, NEW v \in Value \cup {Tomb}
    PROVE  /\ Record(k, n, v) \in Items
           /\ Record(k, n, v).key = k /\ Record(k, n, v).seq = n /\ Record(k, n, v).value = v
BY DEF Record, Items

\* An entry more: of its key it is the last one, and no other key is concerned.
LEMMA KeepsAppend ==
    ASSUME NEW es \in Seq(Items), NEW e \in Items
    PROVE  /\ Keeps(Append(es, e), e.key, e.value)
           /\ \A k \in Key, v \in Value \cup {Tomb} :
                 k # e.key /\ Keeps(es, k, v) => Keeps(Append(es, e), k, v)
<1> DEFINE t == Append(es, e)
<1>1. Len(t) = Len(es) + 1 /\ Len(es) \in Nat /\ t[Len(es) + 1] = e
      /\ \A i \in 1 .. Len(es) : t[i] = es[i]
  OBVIOUS
<1> HIDE DEF t
<1>2. LastUpTo(t, Len(t), e.key, e.value)
  BY <1>1 DEF LastUpTo
<1>3. ASSUME NEW k \in Key, NEW v \in Value \cup {Tomb}, k # e.key, Keeps(es, k, v)
      PROVE  Keeps(t, k, v)
  <2>1. CASE LastUpTo(es, Len(es), k, v)
    <3>1. PICK i \in 1 .. Len(es) :
             es[i].key = k /\ es[i].value = v /\ \A j \in (i + 1) .. Len(es) : es[j].key # k
      BY <2>1 DEF LastUpTo
    <3>2. \A j \in (i + 1) .. Len(t) : t[j].key # k
      BY <1>1, <1>3, <3>1, SMTT(30)
    <3>3. i \in 1 .. Len(t) /\ t[i] = es[i]
      BY <1>1
    <3> QED BY <3>1, <3>2, <3>3 DEF Keeps, LastUpTo
  <2>2. CASE v = Tomb /\ NoneUpTo(es, Len(es), k)
    BY <1>1, <1>3, <2>2 DEF Keeps, NoneUpTo
  <2> QED BY <1>3, <2>1, <2>2 DEF Keeps
<1> QED BY <1>2, <1>3 DEF Keeps, t

\* std::remove_if: the entries of other keys stay, in their order.
LEMMA OthersThanIs ==
    ASSUME entries \in Seq(Items), NEW k \in Key
    PROVE  /\ OthersThan(k) \in Seq(Items)
           /\ NoneUpTo(OthersThan(k), Len(OthersThan(k)), k)
           /\ Len(OthersThan(k)) <= Len(entries)
           /\ ~NoneUpTo(entries, Len(entries), k) => Len(OthersThan(k)) < Len(entries)
           /\ \A q \in Key, v \in Value \cup {Tomb} :
                 q # k /\ Keeps(entries, q, v) => Keeps(OthersThan(k), q, v)
<1> DEFINE N == Len(entries)
           F == [p \in (1 .. N) \X Seq(Items) |->
                   IF entries[p[1]].key = k THEN p[2] ELSE Append(p[2], entries[p[1]])]
           Def(f) == [i \in 0 .. N |->
                        IF i = 0 THEN <<>>
                        ELSE IF entries[i].key = k THEN f[i - 1]
                        ELSE Append(f[i - 1], entries[i])]
           others == CHOOSE f : f = Def(f)
<1>0. N \in Nat /\ \A i \in 1 .. N : entries[i] \in Items
  OBVIOUS
<1>1. \E f : f = Def(f)
  <2>1. StepOn(F, N, Seq(Items)) /\ <<>> \in Seq(Items)
    BY DEF StepOn
  <2>2. PICK f : Forward(f, N, Seq(Items), <<>>, F)
    <3> HIDE DEF F, N, Def
    <3> QED BY <1>0, <2>1, ForwardRecursion
  <2>3. f \in [0 .. N -> Seq(Items)]
        /\ \A i \in 0 .. N : f[i] = IF i = 0 THEN <<>> ELSE F[<<i, f[i - 1]>>]
    BY <2>2 DEF Forward
  <2>4. ASSUME NEW i \in 0 .. N PROVE f[i] = Def(f)[i]
    <3>1. CASE i = 0
      BY <2>3, <3>1
    <3>2. CASE i # 0
      <4>1. f[i - 1] \in Seq(Items) /\ i \in 1 .. N
        BY <1>0, <2>3, <3>2
      <4>2. F[<<i, f[i - 1]>>] = IF entries[i].key = k THEN f[i - 1]
                                 ELSE Append(f[i - 1], entries[i])
        BY <4>1
      <4> QED BY <2>3, <3>2, <4>2
    <3> QED BY <3>1, <3>2
  <2>5. f = [i \in 0 .. N |-> f[i]] /\ Def(f) = [i \in 0 .. N |-> Def(f)[i]]
    BY <2>3
  <2> HIDE DEF Def, N
  <2>6. f = Def(f)
    BY <2>4, <2>5
  <2> QED BY <2>6
<1>2. others = Def(others)
  BY <1>1
<1>3. OthersThan(k) = others[N]
  BY DEF OthersThan
<1> HIDE DEF others
<1>4. others[0] = <<>>
      /\ \A i \in 1 .. N :
           others[i] = IF entries[i].key = k THEN others[i - 1]
                       ELSE Append(others[i - 1], entries[i])
  <2>1. ASSUME NEW f, f = Def(f), NEW i \in 0 .. N
        PROVE  f[i] = IF i = 0 THEN <<>>
                      ELSE IF entries[i].key = k THEN f[i - 1]
                      ELSE Append(f[i - 1], entries[i])
    <3>1. f[i] = Def(f)[i]
      BY <2>1, Zenon
    <3> QED BY <3>1
  <2> HIDE DEF Def
  <2>2. 0 \in 0 .. N /\ \A i \in 1 .. N : i \in 0 .. N /\ i # 0
    BY <1>0
  <2> HIDE DEF N
  <2> QED BY <1>2, <2>1, <2>2
<1> DEFINE UpTo(n, q, v) == LastUpTo(entries, n, q, v) \/ (v = Tomb /\ NoneUpTo(entries, n, q))
           P(n) == /\ others[n] \in Seq(Items)
                   /\ NoneUpTo(others[n], Len(others[n]), k)
                   /\ Len(others[n]) <= n
                   /\ ~NoneUpTo(entries, n, k) => Len(others[n]) < n
                   /\ \A q \in Key, v \in Value \cup {Tomb} :
                        q # k /\ UpTo(n, q, v) => Keeps(others[n], q, v)
           T == {n \in Nat : n <= N => P(n)}
<1>5. P(0)
  BY <1>4 DEF NoneUpTo, LastUpTo, Keeps
<1>6. ASSUME NEW n \in Nat, n + 1 <= N, P(n) PROVE P(n + 1)
  <2> DEFINE e == entries[n + 1]
             s == others[n]
             t == others[n + 1]
  <2>0. e \in Items /\ s \in Seq(Items) /\ n + 1 \in 1 .. N /\ (n + 1) - 1 = n
    BY <1>0, <1>6
  <2>1. t = IF e.key = k THEN s ELSE Append(s, e)
    BY <1>4, <2>0
  <2>2. t \in Seq(Items) /\ Len(s) \in Nat /\ Len(t) \in Nat
    BY <2>0, <2>1
  <2>3. NoneUpTo(t, Len(t), k)
    BY <1>6, <2>0, <2>1 DEF NoneUpTo
  <2>4. Len(t) <= n + 1
    BY <1>6, <2>0, <2>1
  <2>5. ASSUME ~NoneUpTo(entries, n + 1, k) PROVE Len(t) < n + 1
    <3>1. CASE e.key = k
      BY <1>6, <2>1, <3>1, <2>2
    <3>2. CASE e.key # k
      <4>1. ~NoneUpTo(entries, n, k)
        BY <2>5, <3>2 DEF NoneUpTo
      <4>2. Len(s) < n /\ Len(t) = Len(s) + 1
        BY <4>1, <1>6, <2>1, <2>0, <3>2
      <4> QED BY <4>2, <2>2
    <3> QED BY <3>1, <3>2
  <2>6. ASSUME NEW q \in Key, NEW v \in Value \cup {Tomb}, q # k, UpTo(n + 1, q, v)
        PROVE  Keeps(t, q, v)
    <3>1. CASE e.key = q
      <4>1. e.value = v
        <5>1. ~NoneUpTo(entries, n + 1, q)
          BY <3>1 DEF NoneUpTo
        <5>2. LastUpTo(entries, n + 1, q, v)
          BY <5>1, <2>6
        <5> QED BY <5>2, <3>1 DEF LastUpTo
      <4>2. t = Append(s, e)
        BY <2>1, <2>6, <3>1
      <4>3. Keeps(Append(s, e), e.key, e.value)
        BY <2>0, KeepsAppend
      <4> QED BY <4>1, <4>2, <4>3, <3>1
    <3>2. CASE e.key # q
      <4>1. UpTo(n, q, v)
        <5>1. CASE LastUpTo(entries, n + 1, q, v)
          <6>1. PICK i \in 1 .. n + 1 :
                   /\ entries[i].key = q /\ entries[i].value = v
                   /\ \A j \in (i + 1) .. n + 1 : entries[j].key # q
            BY <5>1 DEF LastUpTo
          <6>2. i # n + 1
            BY <6>1, <3>2
          <6>3. i \in 1 .. n
            BY <6>2
          <6>4. \A j \in (i + 1) .. n : entries[j].key # q
            BY <6>1
          <6> QED BY <6>1, <6>3, <6>4 DEF LastUpTo
        <5>2. CASE v = Tomb /\ NoneUpTo(entries, n + 1, q)
          BY <5>2 DEF NoneUpTo
        <5> QED BY <5>1, <5>2, <2>6
      <4>2. Keeps(s, q, v)
        BY <4>1, <1>6, <2>6
      <4>3. Keeps(Append(s, e), q, v)
        BY <2>0, <2>6, <3>2, <4>2, KeepsAppend
      <4> QED BY <2>1, <4>2, <4>3
    <3> QED BY <3>1, <3>2
  <2> HIDE DEF e, s, t, UpTo
  <2> QED BY <2>2, <2>3, <2>4, <2>5, <2>6 DEF t
<1>7. P(N)
  <2> HIDE DEF P, N
  <2>1. 0 \in T
    BY <1>5
  <2>2. ASSUME NEW n \in Nat, n \in T PROVE n + 1 \in T
    BY <1>0, <1>6, <2>2
  <2> HIDE DEF T
  <2>3. N \in T
    BY <1>0, <2>1, <2>2, SetInduction
  <2> QED BY <1>0, <2>3 DEF T
<1> QED BY <1>0, <1>3, <1>7 DEF Keeps

\* Another batch: the last of its entries of a key is the last one, and where it
\* has none that of the batch stays.
LEMMA KeepsConcat ==
    ASSUME NEW es \in Seq(Items), NEW other \in Seq(Items), NEW k \in Key
    PROVE  LET own == {i \in DOMAIN other : other[i].key = k}
           IN  /\ own # {} => Max(own) \in DOMAIN other /\ Keeps(es \o other, k, other[Max(own)].value)
               /\ \A v \in Value \cup {Tomb} :
                     own = {} /\ Keeps(es, k, v) => Keeps(es \o other, k, v)
<1> DEFINE own == {i \in DOMAIN other : other[i].key = k}
           t == es \o other
           n == Len(es)
           m == Len(other)
<1>1. n \in Nat /\ m \in Nat /\ Len(t) = n + m /\ DOMAIN other = 1 .. m
      /\ (\A i \in 1 .. n : t[i] = es[i])
      /\ \A i \in (n + 1) .. (n + m) : i - n \in 1 .. m /\ t[i] = other[i - n]
  OBVIOUS
<1> HIDE DEF t, n, m
<1>2. ASSUME own # {}
      PROVE  Max(own) \in DOMAIN other /\ LastUpTo(t, n + m, k, other[Max(own)].value)
  <2>1. own \in SUBSET Nat /\ \A s \in own : s <= m
    BY <1>1
  <2>2. Max(own) \in own /\ \A s \in own : s <= Max(own)
    <3> HIDE DEF own
    <3> QED BY <1>1, <1>2, <2>1, MaxOfBounded
  <2> DEFINE x == Max(own)
  <2>3. x \in 1 .. m /\ other[x].key = k /\ \A i \in 1 .. m : other[i].key = k => i <= x
    <3>1. x \in own /\ \A s \in own : s <= x
      BY <2>2
    <3> HIDE DEF x
    <3> QED BY <1>1, <3>1
  <2> HIDE DEF x, own
  <2>4. n + x \in 1 .. (n + m) /\ n + x \in (n + 1) .. (n + m) /\ (n + x) - n = x
    BY <1>1, <2>3
  <2>5. t[n + x] = other[x]
    BY <1>1, <2>4
  <2>6. ASSUME NEW j \in (n + x + 1) .. (n + m) PROVE t[j].key # k
    <3>1. j \in (n + 1) .. (n + m) /\ j - n \in 1 .. m /\ ~(j - n <= x)
      BY <1>1, <2>3
    <3> QED BY <1>1, <2>3, <3>1
  <2>7. LastUpTo(t, n + m, k, other[x].value)
    BY <2>3, <2>4, <2>5, <2>6 DEF LastUpTo
  <2> QED BY <1>1, <2>3, <2>7 DEF x
<1>3. ASSUME own = {}, NEW v \in Value \cup {Tomb}, Keeps(es, k, v)
      PROVE  Keeps(t, k, v)
  <2>1. \A j \in (n + 1) .. (n + m) : t[j].key # k
    <3>1. \A i \in 1 .. m : other[i].key # k
      BY <1>1, <1>3
    <3> QED BY <1>1, <3>1
  <2>2. CASE LastUpTo(es, n, k, v)
    <3>1. PICK i \in 1 .. n :
             es[i].key = k /\ es[i].value = v /\ \A j \in (i + 1) .. n : es[j].key # k
      BY <2>2 DEF LastUpTo
    <3>2. i \in 1 .. (n + m) /\ t[i] = es[i]
      BY <1>1
    <3>3. ASSUME NEW j \in (i + 1) .. (n + m) PROVE t[j].key # k
      <4>1. CASE j <= n
        <5>1. j \in (i + 1) .. n /\ j \in 1 .. n
          BY <1>1, <4>1
        <5> QED BY <1>1, <3>1, <5>1
      <4>2. CASE j > n
        <5>1. j \in (n + 1) .. (n + m)
          BY <1>1, <4>2
        <5> QED BY <2>1, <5>1
      <4> QED BY <1>1, <4>1, <4>2
    <3>4. LastUpTo(t, n + m, k, v)
      BY <3>1, <3>2, <3>3 DEF LastUpTo
    <3> QED BY <1>1, <3>4 DEF Keeps
  <2>3. CASE v = Tomb /\ NoneUpTo(es, n, k)
    <3>1. ASSUME NEW j \in 1 .. (n + m) PROVE t[j].key # k
      <4>1. CASE j <= n
        <5>1. j \in 1 .. n
          BY <1>1, <4>1
        <5> QED BY <1>1, <2>3, <5>1 DEF NoneUpTo
      <4>2. CASE j > n
        <5>1. j \in (n + 1) .. (n + m)
          BY <1>1, <4>2
        <5> QED BY <2>1, <5>1
      <4> QED BY <1>1, <4>1, <4>2
    <3>2. NoneUpTo(t, n + m, k)
      BY <3>1 DEF NoneUpTo
    <3> QED BY <1>1, <2>3, <3>2 DEF Keeps
  <2> QED BY <1>3, <2>2, <2>3 DEF Keeps, n
<1>4. own # {} => Keeps(t, k, other[Max(own)].value)
  BY <1>1, <1>2 DEF Keeps
<1> QED BY <1>2, <1>3, <1>4 DEF t

LEMMA NothingAskedIs ==
    /\ NothingAsked \in [Key -> SUBSET (Value \cup {Tomb})]
    /\ \A k \in Key : NothingAsked[k] = {}
<1>1. \A k \in Key : {} \in SUBSET (Value \cup {Tomb})
  OBVIOUS
<1> QED BY <1>1 DEF NothingAsked

LEMMA BatchInitInv == BatchInit => BatchInv
<1> SUFFICES ASSUME BatchInit PROVE BatchInv
  OBVIOUS
<1>1. BatchTypeOK
  <2>1. <<>> \in Seq([key : Key \cup {NoKey}, seq : Nat, value : Value \cup {Tomb}])
    BY EmptySeq
  <2> QED BY <2>1, NothingAskedIs DEF BatchInit, BatchTypeOK
<1>2. \A k \in Key : asked[k] = {}
  BY NothingAskedIs DEF BatchInit
<1> QED BY <1>1, <1>2 DEF BatchInit, BatchInv

LEMMA NewBatchInv == NewBatch => BatchInv'
<1> SUFFICES ASSUME NewBatch PROVE BatchInv'
  OBVIOUS
<1>1. BatchTypeOK'
  <2>1. <<>> \in Seq([key : Key \cup {NoKey}, seq : Nat, value : Value \cup {Tomb}])
    BY EmptySeq
  <2> QED BY <2>1, NothingAskedIs DEF NewBatch, BatchTypeOK
<1>2. \A k \in Key : asked'[k] = {}
  BY NothingAskedIs DEF NewBatch
<1> QED BY <1>1, <1>2 DEF NewBatch, BatchInv

\* An entry is put at the end of what is kept of a batch.
LEMMA AppendedInv ==
    ASSUME BatchInv, ~numbered, UNCHANGED <<seqnumber, numbered>>,
           NEW kept \in Seq(Items), NEW e \in Items, NEW k \in Key, NEW v \in Value \cup {Tomb},
           \A q \in Key, w \in Value \cup {Tomb} :
              q # k /\ Keeps(entries, q, w) => q # e.key /\ Keeps(kept, q, w),
           entries' = Append(kept, e),
           Keeps(Append(kept, e), k, v),
           asked' = [asked EXCEPT ![k] = {v}]
    PROVE  BatchInv'
<1>1. BatchTypeOK'
  BY DEF BatchInv, BatchTypeOK, Items
<1>2. ASSUME NEW q \in Key, NEW w \in asked'[q] PROVE Keeps(entries', q, w)
  <2>1. CASE q = k
    BY <1>2, <2>1 DEF BatchInv, BatchTypeOK
  <2>2. CASE q # k
    <3>1. w \in asked[q] /\ w \in Value \cup {Tomb}
      BY <1>2, <2>2 DEF BatchInv, BatchTypeOK
    <3>2. q # e.key /\ Keeps(kept, q, w)
      BY <2>2, <3>1 DEF BatchInv
    <3> QED BY <3>1, <3>2, KeepsAppend
  <2> QED BY <2>1, <2>2
<1> QED BY <1>1, <1>2 DEF BatchInv

LEMMA FillBatchInv == BatchInv /\ FillBatch => BatchInv'
<1> SUFFICES ASSUME BatchInv, FillBatch PROVE BatchInv'
  OBVIOUS
<1>0. entries \in Seq(Items)
  BY DEF BatchInv, BatchTypeOK, Items
<1>1. ASSUME NEW k \in Key, NEW v \in Value \cup {Tomb},
             Filling(1), entries' = Append(entries, Record(k, NextNumber, v)),
             asked' = [asked EXCEPT ![k] = {v}]
      PROVE  BatchInv'
  <2> DEFINE e == Record(k, NextNumber, v)
  <2>1. e \in Items /\ e.key = k /\ e.value = v
    <3>1. NextNumber \in Nat
      BY <1>0 DEF NextNumber, BatchInv, BatchTypeOK
    <3> QED BY <3>1, RecordIsItem
  <2>2. Keeps(Append(entries, e), k, v)
    BY <1>0, <2>1, KeepsAppend
  <2> HIDE DEF e
  <2>3. entries' = Append(entries, e)
    BY <1>1 DEF e
  <2>4. ~numbered /\ UNCHANGED <<seqnumber, numbered>>
    BY <1>1 DEF Filling
  <2> QED BY <1>0, <1>1, <2>1, <2>2, <2>3, <2>4, AppendedInv
<1>2. ASSUME NEW k \in Key, NEW v \in Value, Write(k, v) PROVE BatchInv'
  BY <1>1, <1>2 DEF Write
<1>3. ASSUME NEW k \in Key, RemoveOther(k) PROVE BatchInv'
  BY <1>1, <1>3 DEF RemoveOther
<1>4. ASSUME NEW k \in Key, RemoveOwn(k) PROVE BatchInv'
  <2> DEFINE s == OthersThan(k)
             e == LeftBehind(k)
             x == entries[Len(s) + 1]
  <2>1. ~NoneUpTo(entries, Len(entries), k)
    <3>1. k \in {d.key : d \in Range(entries)}
      BY <1>4 DEF RemoveOwn
    <3>2. PICK i \in DOMAIN entries : entries[i].key = k
      BY <3>1 DEF Range
    <3>3. i \in 1 .. Len(entries)
      BY <1>0
    <3> QED BY <3>2, <3>3 DEF NoneUpTo
  <2>2. /\ s \in Seq(Items)
        /\ NoneUpTo(s, Len(s), k)
        /\ Len(s) < Len(entries)
        /\ \A q \in Key, v \in Value \cup {Tomb} : q # k /\ Keeps(entries, q, v) => Keeps(s, q, v)
    BY <1>0, <2>1, OthersThanIs
  <2> HIDE DEF s
  <2>3. x \in Items
    <3>1. Len(s) \in Nat /\ Len(s) + 1 \in 1 .. Len(entries)
      BY <1>0, <2>2
    <3> QED BY <1>0, <3>1
  <2>4. e = Record(IF x.key = k THEN k ELSE NoKey, x.seq, Tomb)
    BY DEF LeftBehind, s
  <2>5. x.seq \in Nat
    BY <2>3 DEF Items
  <2> HIDE DEF e, x
  <2>6. e \in Items /\ e.key \in {k, NoKey} /\ e.value = Tomb
    BY <2>4, <2>5, RecordIsItem
  <2>7. Keeps(Append(s, e), k, Tomb)
    <3>1. CASE e.key = k
      BY <2>2, <2>6, <3>1, KeepsAppend
    <3>2. CASE e.key # k
      <4>1. Keeps(s, k, Tomb)
        BY <2>2 DEF Keeps
      <4> QED BY <2>2, <2>6, <3>2, <4>1, KeepsAppend
    <3> QED BY <3>1, <3>2
  <2>8. entries' = Append(s, e) /\ asked' = [asked EXCEPT ![k] = {Tomb}]
        /\ ~numbered /\ UNCHANGED <<seqnumber, numbered>>
    BY <1>4 DEF RemoveOwn, Filling, s, e
  <2>9. \A q \in Key : q # k => q # e.key
    BY <2>6
  <2> QED BY <2>2, <2>6, <2>7, <2>8, <2>9, AppendedInv
<1>5. ASSUME NEW other \in Others, WriteBatch(other) PROVE BatchInv'
  <2>1. other \in Seq(Items)
    <3>1. \A o \in Others : o \in Seq([key : Key, seq : Nat, value : Value \cup {Tomb}])
      BY DEF BatchAssumption
    <3>2. [key : Key, seq : Nat, value : Value \cup {Tomb}] \subseteq Items
      BY DEF Items
    <3> QED BY <3>1, <3>2, SeqMonotonic
  <2> DEFINE own(k) == {i \in DOMAIN other : other[i].key = k}
  <2>2. entries' = entries \o other /\ UNCHANGED <<seqnumber, numbered>> /\ ~numbered
    BY <1>5 DEF WriteBatch, Filling
  <2>3. asked' = [k \in Key |-> IF own(k) = {} THEN asked[k] ELSE {other[Max(own(k))].value}]
    BY <1>5 DEF WriteBatch
  <2>4. \A k \in Key :
           /\ own(k) # {} => Max(own(k)) \in DOMAIN other
                             /\ Keeps(entries \o other, k, other[Max(own(k))].value)
           /\ \A v \in Value \cup {Tomb} :
                 own(k) = {} /\ Keeps(entries, k, v) => Keeps(entries \o other, k, v)
    BY <1>0, <2>1, KeepsConcat
  <2> HIDE DEF own
  <2>5. entries' \in Seq(Items)
    BY <1>0, <2>1, <2>2, ConcatProperties
  <2>6. \A i \in DOMAIN other : other[i].value \in Value \cup {Tomb}
    <3>1. \A i \in DOMAIN other : other[i] \in Items
      BY <2>1
    <3> QED BY <3>1 DEF Items
  <2>7. BatchTypeOK'
    BY <2>2, <2>3, <2>4, <2>5, <2>6 DEF BatchInv, BatchTypeOK, Items
  <2>8. ASSUME NEW k \in Key, NEW v \in asked'[k] PROVE Keeps(entries', k, v)
    <3>1. v \in Value \cup {Tomb}
      BY <2>7 DEF BatchTypeOK
    <3>2. CASE own(k) = {}
      <4>1. v \in asked[k]
        BY <2>3, <2>8, <3>2
      <4> QED BY <2>2, <2>4, <3>1, <3>2, <4>1 DEF BatchInv
    <3>3. CASE own(k) # {}
      BY <2>2, <2>3, <2>4, <2>8, <3>3
    <3> QED BY <3>2, <3>3
  <2> QED BY <2>2, <2>7, <2>8 DEF BatchInv
<1> QED BY <1>2, <1>3, <1>4, <1>5 DEF FillBatch

\* set_first_sequence_num changes numbers only.
LEMMA SetFirstInv ==
    ASSUME BatchInv, NEW first \in Nat, SetFirst(first)
    PROVE  /\ BatchInv'
           /\ Len(entries') = Len(entries)
           /\ \A i \in 1 .. Len(entries) : entries'[i].seq = first + i - 1
<1>0. entries \in Seq(Items)
  BY DEF BatchInv, BatchTypeOK, Items
<1>1. /\ entries' = [i \in DOMAIN entries |-> [entries[i] EXCEPT !.seq = NumberOf(first, i)]]
      /\ seqnumber' = first /\ numbered' = TRUE /\ asked' = asked
  BY DEF SetFirst
<1>2. DOMAIN entries = 1 .. Len(entries) /\ Len(entries) \in Nat
  BY <1>0
<1>3. ASSUME NEW i \in 1 .. Len(entries)
      PROVE  /\ entries'[i] \in Items
             /\ entries'[i].seq = first + i - 1
             /\ entries'[i].key = entries[i].key
             /\ entries'[i].value = entries[i].value
  <2>1. entries[i] \in Items
    BY <1>0
  <2>2. entries'[i] = [entries[i] EXCEPT !.seq = first + i - 1]
    BY <1>1, <1>2 DEF NumberOf
  <2>3. first + i - 1 \in Nat
    OBVIOUS
  <2> QED BY <2>1, <2>2, <2>3 DEF Items
<1>4. entries' \in Seq(Items) /\ Len(entries') = Len(entries)
  <2>1. entries' \in [1 .. Len(entries) -> Items]
    BY <1>1, <1>2, <1>3
  <2> QED BY <1>2, <2>1
<1>5. BatchTypeOK'
  BY <1>1, <1>4 DEF BatchInv, BatchTypeOK, Items
<1>6. ASSUME NEW k \in Key, NEW v \in asked'[k] PROVE Keeps(entries', k, v)
  <2>1. Keeps(entries, k, v)
    BY <1>1, <1>6 DEF BatchInv
  <2>2. CASE LastUpTo(entries, Len(entries), k, v)
    <3>1. PICK i \in 1 .. Len(entries) :
             /\ entries[i].key = k /\ entries[i].value = v
             /\ \A j \in (i + 1) .. Len(entries) : entries[j].key # k
      BY <2>2 DEF LastUpTo
    <3>2. \A j \in (i + 1) .. Len(entries) : entries'[j].key # k
      BY <1>2, <1>3, <3>1
    <3>3. LastUpTo(entries', Len(entries), k, v)
      BY <1>3, <3>1, <3>2 DEF LastUpTo
    <3> QED BY <1>4, <3>3 DEF Keeps
  <2>3. CASE v = Tomb /\ NoneUpTo(entries, Len(entries), k)
    BY <1>3, <1>4, <2>3 DEF Keeps, NoneUpTo
  <2> QED BY <2>1, <2>2, <2>3 DEF Keeps
<1> QED BY <1>1, <1>3, <1>4, <1>5, <1>6 DEF BatchInv

\* Of a numbered batch the store finds the last entry of each key.
LEMMA BatchInvIsEnough == BatchInv => BatchTypeOK /\ LastWordOrNothing
<1> SUFFICES ASSUME BatchInv, numbered, NEW k \in Key, NEW v \in asked[k]
             PROVE  \/ {e.value : e \in NewestOf(Range(entries), k, LastNumber)} = {v}
                    \/ v = Tomb /\ OfKey(Range(entries), k, LastNumber) = {}
  BY DEF BatchInv, LastWordOrNothing
<1>0. entries \in Seq(Items) /\ seqnumber \in Nat
  BY DEF BatchInv, BatchTypeOK, Items
<1> DEFINE n == Len(entries)
<1>1. n \in Nat /\ DOMAIN entries = 1 .. n /\ Range(entries) = {entries[i] : i \in 1 .. n}
  BY <1>0 DEF Range
<1>2. \A i \in 1 .. n : entries[i].seq = seqnumber + i - 1 /\ entries[i].seq <= LastNumber
  BY <1>0, <1>1 DEF BatchInv, LastNumber
<1>3. Keeps(entries, k, v)
  BY DEF BatchInv
<1> HIDE DEF n
<1>4. CASE LastUpTo(entries, n, k, v)
  <2>1. PICK i \in 1 .. n :
           entries[i].key = k /\ entries[i].value = v /\ \A j \in (i + 1) .. n : entries[j].key # k
    BY <1>4 DEF LastUpTo
  <2>2. \A j \in 1 .. n : entries[j].key = k => j <= i
    BY <1>1, <2>1
  <2>3. entries[i] \in NewestOf(Range(entries), k, LastNumber)
    BY <1>0, <1>1, <1>2, <2>1, <2>2 DEF NewestOf, OfKey
  <2>4. ASSUME NEW e \in NewestOf(Range(entries), k, LastNumber) PROVE e = entries[i]
    <3>1. PICK j \in 1 .. n : e = entries[j] /\ e.key = k
      BY <1>1 DEF NewestOf, OfKey
    <3>2. entries[i] \in OfKey(Range(entries), k, LastNumber)
      BY <2>3 DEF NewestOf
    <3>3. entries[i].seq <= entries[j].seq
      BY <3>1, <3>2 DEF NewestOf
    <3>4. i <= j
      BY <1>0, <1>1, <1>2, <3>3
    <3>5. i = j
      BY <2>2, <3>1, <3>4, <1>1
    <3> QED BY <3>1, <3>5
  <2>5. NewestOf(Range(entries), k, LastNumber) = {entries[i]}
    BY <2>3, <2>4
  <2> QED BY <2>1, <2>5
<1>5. CASE v = Tomb /\ NoneUpTo(entries, n, k)
  BY <1>1, <1>5 DEF NoneUpTo, OfKey
<1> QED BY <1>3, <1>4, <1>5 DEF Keeps, n

(***************************************************************************)
(* The bytes of an entry                                                   *)
(***************************************************************************)
Datum == Nat \cup Value \cup {Tomb}

FieldName == {"total", "key length", "key", "number", "value length", "value"}

LogCell == [field : FieldName, of : Datum, at : Nat]

\* The cells of c behind q are those of the entry e.
HasAt(c, q, e) == \A i \in 1 .. SizeOf(e) : c[q + i] = Serialized(e)[i]

\* How a reader sees one entry.
ReadEntry(e) == [e EXCEPT !.value = IF Length[@] = 0 THEN Tomb ELSE @]

LEMMA LengthsAre ==
    ASSUME NEW e \in Items
    PROVE  /\ Length[e.key] \in Nat /\ Length[e.value] \in Nat
           /\ Length[e.key] % LengthLimit = Length[e.key]
           /\ Length[e.key] = 0 <=> e.key = NoKey
<1>1. Length[e.key] \in Nat /\ Length[e.value] \in Nat
  BY LogAssumption DEF Items
<1>2. Length[e.key] < LengthLimit /\ LengthLimit \in Nat \ {0}
  <2>1. CASE e.key = NoKey
    <3>1. Length[NoKey] = 0
      BY LogAssumption
    <3> QED BY <2>1, <3>1, LogAssumption
  <2>2. CASE e.key # NoKey
    BY <2>2, LogAssumption DEF Items
  <2> QED BY <2>1, <2>2
<1>3. \A m, n \in Nat : m < n => m % n = m
  OBVIOUS
<1>4. Length[e.key] % LengthLimit = Length[e.key]
  BY <1>1, <1>2, <1>3
<1> QED BY <1>1, <1>4, LogAssumption DEF Items

LEMMA FieldIs ==
    ASSUME NEW f \in FieldName, NEW x \in Datum
    PROVE  /\ Field(f, x) \in Seq(LogCell) /\ Len(Field(f, x)) = 1
           /\ Field(f, x)[1].of = x
<1>1. [field |-> f, of |-> x, at |-> 0] \in LogCell
  BY DEF LogCell
<1> QED BY <1>1 DEF Field

LEMMA CharactersAre ==
    ASSUME NEW f \in FieldName, NEW x \in Datum, Length[x] \in Nat
    PROVE  /\ Characters(f, x) \in Seq(LogCell) /\ Len(Characters(f, x)) = Length[x]
           /\ \A i \in 1 .. Length[x] : Characters(f, x)[i] = [field |-> f, of |-> x, at |-> i]
<1>1. \A i \in 1 .. Length[x] : [field |-> f, of |-> x, at |-> i] \in LogCell
  BY DEF LogCell
<1>2. Characters(f, x) \in [1 .. Length[x] -> LogCell]
  BY <1>1 DEF Characters
<1> QED BY <1>2 DEF Characters

\* Where the fields of a serialized entry are.
LEMMA SerializedIs ==
    ASSUME NEW e \in Items
    PROVE  LET k == Length[e.key]
               v == Length[e.value]
               s == Serialized(e)
           IN  /\ s \in Seq(LogCell) /\ Len(s) = 4 + k + v
               /\ s[1].of = 4 + k + v
               /\ s[2].of = k
               /\ \A i \in 1 .. k : s[2 + i] = [field |-> "key", of |-> e.key, at |-> i]
               /\ s[3 + k].of = e.seq
               /\ s[4 + k].of = v
               /\ \A i \in 1 .. v : s[4 + k + i] = [field |-> "value", of |-> e.value, at |-> i]
<1> DEFINE k == Length[e.key]
           v == Length[e.value]
           fk == Field("key length", k)
           ck == Characters("key", e.key)
           fn == Field("number", e.seq)
           fv == Field("value length", v)
           cv == Characters("value", e.value)
           sk == (fk \o ck) \o fn
           sv == fv \o cv
           s1 == sk \o sv
           ft == Field("total", Len(s1) + 1)
           s == ft \o s1
<1>1. k \in Nat /\ v \in Nat /\ Length[e.key] % LengthLimit = k
  BY LengthsAre
<1>2. /\ e.key \in Datum /\ e.seq \in Datum /\ e.value \in Datum /\ k \in Datum /\ v \in Datum
      /\ {"key length", "key", "number", "value length", "value", "total"} \subseteq FieldName
  <2> HIDE DEF k, v
  <2>1. e.key \in Nat /\ e.seq \in Nat /\ e.value \in Value \cup {Tomb}
    BY KeyAssumption, BatchAssumption DEF Items, BatchAssumption
  <2>2. Nat \subseteq Datum /\ Value \cup {Tomb} \subseteq Datum
    BY DEF Datum
  <2>3. {"key length", "key", "number", "value length", "value", "total"} \subseteq FieldName
    BY DEF FieldName
  <2> QED BY <1>1, <2>1, <2>2, <2>3, Zenon
<1> HIDE DEF k, v
<1>3. /\ fk \in Seq(LogCell) /\ Len(fk) = 1 /\ fk[1].of = k
      /\ fn \in Seq(LogCell) /\ Len(fn) = 1 /\ fn[1].of = e.seq
      /\ fv \in Seq(LogCell) /\ Len(fv) = 1 /\ fv[1].of = v
  BY <1>2, FieldIs
<1>4. /\ ck \in Seq(LogCell) /\ Len(ck) = k
      /\ \A i \in 1 .. k : ck[i] = [field |-> "key", of |-> e.key, at |-> i]
      /\ cv \in Seq(LogCell) /\ Len(cv) = v
      /\ \A i \in 1 .. v : cv[i] = [field |-> "value", of |-> e.value, at |-> i]
  BY <1>1, <1>2, CharactersAre DEF k, v
<1>5. Serialized(e) = s
  BY <1>1 DEF Serialized, SerializedKey, SerializedValue, k, v
<1> HIDE DEF fk, ck, fn, fv, cv
<1>6. /\ sk \in Seq(LogCell) /\ Len(sk) = k + 2 /\ sk[1].of = k /\ sk[2 + k].of = e.seq
      /\ \A i \in 1 .. k : sk[1 + i] = ck[i]
  <2> DEFINE s0 == fk \o ck
  <2>0. Joined(s0, fk, ck, LogCell)
    BY <1>3, <1>4, ConcatIs
  <2> HIDE DEF s0
  <2>1. /\ s0 \in Seq(LogCell) /\ Len(s0) = 1 + k
        /\ s0[1] = fk[1] /\ \A i \in 1 .. k : s0[1 + i] = ck[i]
    BY <1>1, <1>3, <1>4, <2>0 DEF Joined
  <2>2. Joined(sk, s0, fn, LogCell)
    BY <1>3, <2>1, ConcatIs DEF s0
  <2> HIDE DEF sk
  <2>3. /\ sk \in Seq(LogCell) /\ Len(sk) = 1 + k + 1
        /\ (\A i \in 1 .. 1 + k : sk[i] = s0[i])
        /\ sk[1 + k + 1] = fn[1]
    BY <1>1, <1>3, <2>1, <2>2 DEF Joined
  <2>4. sk[1] = fk[1] /\ sk[2 + k] = fn[1]
    BY <1>1, <2>1, <2>3
  <2>5. \A i \in 1 .. k : sk[1 + i] = ck[i]
    BY <1>1, <2>1, <2>3
  <2>6. sk[1].of = k /\ sk[2 + k].of = e.seq
    BY <1>3, <2>4
  <2>7. sk \in Seq(LogCell) /\ Len(sk) = k + 2
    BY <1>1, <2>3
  <2> QED BY <2>5, <2>6, <2>7
<1>7. /\ sv \in Seq(LogCell) /\ Len(sv) = v + 1 /\ sv[1].of = v
      /\ \A i \in 1 .. v : sv[1 + i] = cv[i]
  <2>1. Joined(sv, fv, cv, LogCell)
    BY <1>3, <1>4, ConcatIs
  <2> HIDE DEF sv
  <2> QED BY <1>1, <1>3, <1>4, <2>1 DEF Joined
<1> HIDE DEF sk, sv
<1>8. /\ s1 \in Seq(LogCell) /\ Len(s1) = k + v + 3 /\ s1[1].of = k
      /\ \A i \in 1 .. k : s1[1 + i] = ck[i]
      /\ s1[2 + k].of = e.seq /\ s1[3 + k].of = v
      /\ \A i \in 1 .. v : s1[3 + k + i] = cv[i]
  <2>1. s1 \in Seq(LogCell) /\ Len(s1) = k + v + 3
        /\ (\A i \in 1 .. k + 2 : s1[i] = sk[i])
        /\ \A i \in 1 .. v + 1 : s1[k + 2 + i] = sv[i]
    <3>1. Joined(s1, sk, sv, LogCell)
      BY <1>6, <1>7, ConcatIs
    <3> HIDE DEF s1
    <3> QED BY <1>1, <1>6, <1>7, <3>1 DEF Joined
  <2> HIDE DEF s1
  <2>2. \A i \in 1 .. k : s1[1 + i] = ck[i]
    BY <1>1, <1>6, <2>1
  <2>3. s1[1].of = k /\ s1[2 + k].of = e.seq /\ s1[3 + k].of = v
    BY <1>1, <1>6, <1>7, <2>1
  <2>4. ASSUME NEW i \in 1 .. v PROVE s1[3 + k + i] = cv[i]
    <3>1. 1 + i \in 1 .. v + 1 /\ k + 2 + (1 + i) = 3 + k + i
      BY <1>1
    <3> QED BY <1>7, <2>1, <3>1
  <2> QED BY <2>1, <2>2, <2>3, <2>4
<1> HIDE DEF s1
<1>9. ft \in Seq(LogCell) /\ Len(ft) = 1 /\ ft[1].of = 4 + k + v
  <2>1. Len(s1) + 1 = 4 + k + v /\ 4 + k + v \in Datum
    BY <1>1, <1>8 DEF Datum
  <2> QED BY <1>2, <2>1, FieldIs
<1> HIDE DEF ft
<1>10. s \in Seq(LogCell) /\ Len(s) = 4 + k + v /\ s[1] = ft[1]
       /\ \A i \in 1 .. k + v + 3 : s[1 + i] = s1[i]
  <2>1. Joined(s, ft, s1, LogCell)
    BY <1>8, <1>9, ConcatIs
  <2> HIDE DEF s
  <2> QED BY <1>1, <1>8, <1>9, <2>1 DEF Joined
<1> HIDE DEF s
<1>11. \A i \in 1 .. k : s[2 + i] = ck[i]
  BY <1>1, <1>8, <1>10
<1>12. s[2].of = k /\ s[3 + k].of = e.seq /\ s[4 + k].of = v
  <2>1. 1 \in 1 .. k + v + 3 /\ 2 + k \in 1 .. k + v + 3 /\ 3 + k \in 1 .. k + v + 3
        /\ 1 + 1 = 2 /\ 1 + (2 + k) = 3 + k /\ 1 + (3 + k) = 4 + k
    BY <1>1
  <2> QED BY <1>8, <1>10, <2>1
<1>13. \A i \in 1 .. v : s[4 + k + i] = cv[i]
  <2>1. \A i \in 1 .. v : 3 + k + i \in 1 .. k + v + 3 /\ 1 + (3 + k + i) = 4 + k + i
    BY <1>1
  <2> QED BY <1>8, <1>10, <2>1
<1>14. /\ \A i \in 1 .. k : s[2 + i] = [field |-> "key", of |-> e.key, at |-> i]
       /\ \A i \in 1 .. v : s[4 + k + i] = [field |-> "value", of |-> e.value, at |-> i]
  BY <1>4, <1>11, <1>13
<1> QED BY <1>5, <1>9, <1>10, <1>12, <1>14 DEF k, v

LEMMA SizeOfIs ==
    ASSUME NEW e \in Items
    PROVE  /\ SizeOf(e) = 4 + Length[e.key] + Length[e.value]
           /\ SizeOf(e) \in Nat /\ SizeOf(e) >= 4
           /\ Serialized(e) \in Seq(LogCell) /\ Len(Serialized(e)) = SizeOf(e)
<1>1. Length[e.key] \in Nat /\ Length[e.value] \in Nat
  BY LengthsAre
<1>2. Serialized(e) \in Seq(LogCell) /\ Len(Serialized(e)) = 4 + Length[e.key] + Length[e.value]
  BY SerializedIs
<1> QED BY <1>1, <1>2 DEF SizeOf

\* The cells of c behind q are the characters of x.
HoldsAt(c, q, f, x) ==
    \A i \in 1 .. Length[x] : c[q + i] = [field |-> f, of |-> x, at |-> i]

LEMMA CharactersAt ==
    ASSUME NEW c, NEW q \in Nat, NEW f \in FieldName, NEW x \in Datum, Length[x] \in Nat,
           HoldsAt(c, q, f, x)
    PROVE  SubSeq(c, q + 1, q + Length[x]) = Characters(f, x)
<1> DEFINE n == Length[x]
           t == SubSeq(c, q + 1, q + n)
           s == Characters(f, x)
<1>1. s \in Seq(LogCell) /\ Len(s) = n
      /\ \A i \in 1 .. n : s[i] = [field |-> f, of |-> x, at |-> i] /\ s[i] \in LogCell
  BY CharactersAre
<1>2. n \in Nat /\ \A i \in 1 .. n : c[q + i] = s[i]
  BY <1>1 DEF HoldsAt
<1> HIDE DEF n, s
<1>3. \A i \in (q + 1) .. (q + n) : c[i] \in LogCell
  <2>1. ASSUME NEW i \in (q + 1) .. (q + n) PROVE c[i] \in LogCell
    <3>1. i - q \in 1 .. n /\ q + (i - q) = i
      BY <1>2
    <3>2. c[q + (i - q)] = s[i - q] /\ s[i - q] \in LogCell
      BY <1>1, <1>2, <3>1
    <3> QED BY <3>1, <3>2
  <2> QED BY <2>1
<1>4. /\ t \in Seq(LogCell) /\ Len(t) = IF q + 1 <= q + n THEN (q + n) - (q + 1) + 1 ELSE 0
      /\ \A i \in 1 .. (q + n) - (q + 1) + 1 : t[i] = c[(q + 1) + i - 1]
  <2>1. q + 1 \in Int /\ q + n \in Int
    BY <1>2
  <2> QED BY <1>3, <2>1, SubSeqProperties
<1> HIDE DEF t
<1>5. Len(t) = n
  BY <1>2, <1>4
<1>6. ASSUME NEW i \in 1 .. n PROVE t[i] = s[i]
  <2>1. (q + n) - (q + 1) + 1 = n /\ (q + 1) + i - 1 = q + i
    BY <1>2
  <2>2. t[i] = c[(q + 1) + i - 1]
    BY <1>4, <2>1
  <2> QED BY <1>2, <2>1, <2>2
<1>7. t = s
  BY <1>1, <1>4, <1>5, <1>6, SeqEqual
<1> QED BY <1>7 DEF t, s, n

\* What is not empty is known by its characters.
LEMMA CharactersTell ==
    ASSUME NEW f \in FieldName, NEW x \in Datum, NEW y \in Datum,
           Length[x] \in Nat, Length[y] \in Nat, Characters(f, x) = Characters(f, y)
    PROVE  Length[x] = Length[y] /\ (Length[x] # 0 => x = y)
<1>1. Length[x] = Length[y]
  BY CharactersAre
<1>2. ASSUME Length[x] # 0 PROVE x = y
  <2>1. 1 \in 1 .. Length[x] /\ 1 \in 1 .. Length[y]
    BY <1>1, <1>2
  <2>2. Characters(f, x)[1] = [field |-> f, of |-> x, at |-> 1]
    BY <2>1, CharactersAre
  <2>3. Characters(f, y)[1] = [field |-> f, of |-> y, at |-> 1]
    BY <2>1, CharactersAre
  <2> QED BY <2>2, <2>3
<1> QED BY <1>1, <1>2

\* Of cells that begin with those of an entry its length is parsed, and the
\* entry, but for a value that is empty.
LEMMA EntryAtIs ==
    ASSUME NEW c, NEW p \in Nat \ {0}, NEW e \in Items, HasAt(c, p - 1, e)
    PROVE  TotalAt(c, p) = SizeOf(e) /\ EntryAt(c, p) = ReadEntry(e)
<1> DEFINE k == Length[e.key]
           v == Length[e.value]
           s == Serialized(e)
<1>1. k \in Nat /\ v \in Nat /\ SizeOf(e) = 4 + k + v /\ (k = 0 <=> e.key = NoKey)
  BY LengthsAre, SizeOfIs
<1>2. /\ s[1].of = 4 + k + v
      /\ s[2].of = k
      /\ \A i \in 1 .. k : s[2 + i] = [field |-> "key", of |-> e.key, at |-> i]
      /\ s[3 + k].of = e.seq
      /\ s[4 + k].of = v
      /\ \A i \in 1 .. v : s[4 + k + i] = [field |-> "value", of |-> e.value, at |-> i]
  BY SerializedIs
<1>3. \A i \in 1 .. 4 + k + v : c[p - 1 + i] = s[i]
  BY <1>1 DEF HasAt
<1>4. /\ e.key \in Key \cup {NoKey} /\ e.seq \in Nat /\ e.value \in Value \cup {Tomb}
      /\ e = [key |-> e.key, seq |-> e.seq, value |-> e.value]
  BY DEF Items
<1>0. Key \cup {NoKey} \subseteq Datum /\ Value \cup {Tomb} \subseteq Datum
      /\ "key" \in FieldName /\ "value" \in FieldName
  BY KeyAssumption, BatchAssumption DEF Datum, FieldName
<1> HIDE DEF k, v, s
<1>5. c[p] = s[1] /\ c[p + 1] = s[2] /\ c[p + 2 + k] = s[3 + k] /\ c[p + 3 + k] = s[4 + k]
  <2>1. /\ 1 \in 1 .. 4 + k + v /\ p - 1 + 1 = p
        /\ 2 \in 1 .. 4 + k + v /\ p - 1 + 2 = p + 1
        /\ 3 + k \in 1 .. 4 + k + v /\ p - 1 + (3 + k) = p + 2 + k
        /\ 4 + k \in 1 .. 4 + k + v /\ p - 1 + (4 + k) = p + 3 + k
    BY <1>1
  <2> QED BY <1>3, <2>1
<1>6. TotalAt(c, p) = SizeOf(e) /\ KeyLengthAt(c, p) = k
  BY <1>1, <1>2, <1>5 DEF TotalAt, KeyLengthAt
<1>7. SubSeq(c, p + 2, p + 1 + k) = Characters("key", e.key)
  <2> DEFINE h == p + 1
  <2>1. ASSUME NEW i \in 1 .. k PROVE c[h + i] = [field |-> "key", of |-> e.key, at |-> i]
    <3>1. 2 + i \in 1 .. 4 + k + v /\ p - 1 + (2 + i) = h + i
      BY <1>1
    <3> QED BY <1>2, <1>3, <3>1
  <2>2. h \in Nat /\ e.key \in Datum /\ h + 1 = p + 2
    BY <1>0, <1>4
  <2> HIDE DEF h
  <2>3. HoldsAt(c, h, "key", e.key)
    BY <2>1 DEF HoldsAt, k
  <2>4. SubSeq(c, h + 1, h + k) = Characters("key", e.key)
    BY <1>0, <1>1, <2>2, <2>3, CharactersAt, ZenonT(60) DEF k
  <2> QED BY <2>2, <2>4 DEF h
<1>8. KeyAt(c, p) = e.key
  <2>1. ASSUME NEW q \in Key \cup {NoKey}, Characters("key", q) = Characters("key", e.key)
        PROVE  q = e.key
    <3>1. Length[q] \in Nat /\ (Length[q] = 0 <=> q = NoKey)
      BY LogAssumption
    <3>2. Length[q] = Length[e.key] /\ (Length[q] # 0 => q = e.key)
      BY <1>0, <1>1, <1>4, <2>1, <3>1, CharactersTell DEF k
    <3> QED BY <1>1, <3>1, <3>2 DEF k
  <2> QED BY <1>4, <1>6, <1>7, <2>1 DEF KeyAt
<1>9. NumberAt(c, p) = e.seq
  BY <1>2, <1>5, <1>6 DEF NumberAt
<1> DEFINE j == p + 3 + k
<1>10. c[j].of = v
  BY <1>2, <1>5
<1>11. SubSeq(c, j + 1, j + v) = Characters("value", e.value)
  <2>1. ASSUME NEW i \in 1 .. v PROVE c[j + i] = [field |-> "value", of |-> e.value, at |-> i]
    <3>1. 4 + k + i \in 1 .. 4 + k + v /\ p - 1 + (4 + k + i) = j + i
      BY <1>1
    <3> QED BY <1>2, <1>3, <3>1
  <2>2. j \in Nat /\ e.value \in Datum
    BY <1>0, <1>1, <1>4, SMTT(30)
  <2> HIDE DEF j
  <2>3. HoldsAt(c, j, "value", e.value)
    BY <2>1 DEF HoldsAt, v
  <2> QED BY <1>0, <1>1, <2>2, <2>3, CharactersAt, ZenonT(60) DEF v
<1>12. ValueAt(c, p) = IF v = 0 THEN Tomb ELSE e.value
  <2>1. j = p + 3 + KeyLengthAt(c, p)
    BY <1>6
  <2> HIDE DEF j
  <2>2. ASSUME v # 0
        PROVE  (CHOOSE w \in Value : Characters("value", w) = SubSeq(c, j + 1, j + v)) = e.value
    <3>1. e.value \in Value
      <4>1. e.value # Tomb
        BY <2>2, LogAssumption DEF v
      <4> QED BY <1>4, <4>1
    <3>2. ASSUME NEW w \in Value, Characters("value", w) = Characters("value", e.value)
          PROVE  w = e.value
      <4>1. Length[w] \in Nat
        BY LogAssumption
      <4>2. Length[w] = Length[e.value] /\ (Length[w] # 0 => w = e.value)
        BY <1>0, <1>1, <1>4, <3>2, <4>1, CharactersTell DEF v
      <4> QED BY <2>2, <4>2 DEF v
    <3> QED BY <1>11, <3>1, <3>2
  <2>3. ValueAt(c, p) =
           IF c[j].of = 0 THEN Tomb
           ELSE CHOOSE w \in Value : Characters("value", w) = SubSeq(c, j + 1, j + c[j].of)
    <3> DEFINE V(i) == IF c[i].of = 0 THEN Tomb
                       ELSE CHOOSE w \in Value : Characters("value", w) = SubSeq(c, i + 1, i + c[i].of)
    <3>1. ValueAt(c, p) = V(p + 3 + KeyLengthAt(c, p))
      BY Zenon DEF ValueAt
    <3>2. V(p + 3 + KeyLengthAt(c, p)) = V(j)
      <4> HIDE DEF V
      <4> QED BY <2>1
    <3> QED BY <3>1, <3>2
  <2>4. c[j].of = v
    BY <1>10 DEF j
  <2> QED BY <2>2, <2>3, <2>4, Zenon
<1>13. EntryAt(c, p) = [key |-> e.key, seq |-> e.seq, value |-> IF v = 0 THEN Tomb ELSE e.value]
  BY <1>8, <1>9, <1>12 DEF EntryAt, Record
<1>14. ReadEntry(e) = [key |-> e.key, seq |-> e.seq, value |-> IF v = 0 THEN Tomb ELSE e.value]
  BY <1>4 DEF ReadEntry, v
<1> QED BY <1>6, <1>13, <1>14

(***************************************************************************)
(* What is parsed of a log                                                 *)
(***************************************************************************)
\* Parsing goes from one entry to the next, as far as they are whole.
Parses(from, c) ==
    \A i \in 1 .. Len(c) + 1 :
        from[i] = IF WholeAt(c, i) THEN <<EntryAt(c, i)>> \o from[NextAt(c, i)] ELSE <<>>

Passes(from, c) ==
    \A i \in 1 .. Len(c) + 1 :
        from[i] = IF WholeAt(c, i) THEN from[NextAt(c, i)] ELSE SubSeq(c, i, Len(c))

LEMMA EntriesFromIs ==
    ASSUME NEW c \in Seq(LogCell)
    PROVE  \E from : Parses(from, c) /\ EntriesFrom(c) = from[1]
<1> DEFINE N == Len(c) + 1
           S == Seq({EntryAt(c, i) : i \in 1 .. N})
           next == [i \in 1 .. N |-> IF i <= Len(c) THEN NextAt(c, i) ELSE 0]
           base == [i \in 1 .. N |-> <<>>]
           F == [p \in (1 .. N) \X S |-> <<EntryAt(c, p[1])>> \o p[2]]
           Def(f) == [i \in 1 .. N |->
                        IF WholeAt(c, i) THEN <<EntryAt(c, i)>> \o f[NextAt(c, i)] ELSE <<>>]
           from == CHOOSE f : f = Def(f)
<1>0. N \in Nat /\ 1 \in 1 .. N /\ Len(c) \in Nat
  OBVIOUS
<1>1. ASSUME NEW i \in 1 .. N PROVE WholeAt(c, i) <=> next[i] \in (i + 1) .. N
  <2>1. next[i] = IF i <= Len(c) THEN NextAt(c, i) ELSE 0
    OBVIOUS
  <2> HIDE DEF next
  <2> QED BY <2>1, <1>0 DEF WholeAt
<1>2. ASSUME NEW i \in 1 .. N, WholeAt(c, i) PROVE next[i] = NextAt(c, i) /\ NextAt(c, i) \in 1 .. N
  BY <1>0, <1>2 DEF WholeAt
<1>3. StepOn(F, N, S)
  <2>1. ASSUME NEW p \in (1 .. N) \X S PROVE <<EntryAt(c, p[1])>> \o p[2] \in S
    <3>1. EntryAt(c, p[1]) \in {EntryAt(c, i) : i \in 1 .. N}
      OBVIOUS
    <3>2. <<EntryAt(c, p[1])>> \in S /\ p[2] \in S
      BY <3>1
    <3> QED BY <3>2, ConcatProperties
  <2> HIDE DEF S
  <2> QED BY <2>1 DEF StepOn
<1>4. base \in [1 .. N -> S]
  <2>1. <<>> \in S
    BY EmptySeq
  <2> HIDE DEF S
  <2> QED BY <2>1
<1>5. PICK f : Backward(f, N, S, next, base, F)
  <2> HIDE DEF N, S, next, base, F
  <2> QED BY <1>0, <1>3, <1>4, BackwardRecursion
<1>6. f \in [1 .. N -> S]
      /\ \A i \in 1 .. N : f[i] = IF next[i] \in (i + 1) .. N THEN F[<<i, f[next[i]]>>] ELSE base[i]
  BY <1>5 DEF Backward
<1>7. ASSUME NEW i \in 1 .. N PROVE f[i] = Def(f)[i]
  <2>1. CASE WholeAt(c, i)
    <3>1. f[i] = F[<<i, f[NextAt(c, i)]>>]
      <4> HIDE DEF N, S, next, base, F
      <4> QED BY <1>1, <1>2, <1>6, <2>1
    <3>2. f[NextAt(c, i)] \in S
      <4> HIDE DEF N, S
      <4> QED BY <1>2, <1>6, <2>1
    <3>3. F[<<i, f[NextAt(c, i)]>>] = <<EntryAt(c, i)>> \o f[NextAt(c, i)]
      <4> HIDE DEF S, N
      <4> QED BY <3>2
    <3> QED BY <2>1, <3>1, <3>3
  <2>2. CASE ~WholeAt(c, i)
    <3>1. f[i] = base[i]
      <4> HIDE DEF N, S, next, base, F
      <4> QED BY <1>1, <1>6, <2>2
    <3> QED BY <2>2, <3>1
  <2> QED BY <2>1, <2>2
<1>8. f = Def(f)
  <2>1. f = [i \in 1 .. N |-> f[i]]
    <3> HIDE DEF S, N
    <3> QED BY <1>6
  <2>2. Def(f) = [i \in 1 .. N |-> Def(f)[i]]
    OBVIOUS
  <2> HIDE DEF Def, N
  <2> QED BY <1>7, <2>1, <2>2
<1>9. from = Def(from)
  BY <1>8
<1>10. EntriesFrom(c) = from[1]
  BY DEF EntriesFrom
<1>11. ASSUME NEW g, g = Def(g) PROVE Parses(g, c)
  <2>1. ASSUME NEW i \in 1 .. N
        PROVE  g[i] = IF WholeAt(c, i) THEN <<EntryAt(c, i)>> \o g[NextAt(c, i)] ELSE <<>>
    <3>1. g[i] = Def(g)[i]
      BY <1>11, Zenon
    <3> QED BY <3>1
  <2> QED BY <2>1 DEF Parses
<1> HIDE DEF from, Def
<1> QED BY <1>9, <1>10, <1>11

LEMMA TornTailIs ==
    ASSUME NEW c \in Seq(LogCell)
    PROVE  \E from : Passes(from, c) /\ TornTail(c) = from[1]
<1> DEFINE N == Len(c) + 1
           S == Seq(LogCell)
           next == [i \in 1 .. N |-> IF i <= Len(c) THEN NextAt(c, i) ELSE 0]
           base == [i \in 1 .. N |-> SubSeq(c, i, Len(c))]
           F == [p \in (1 .. N) \X S |-> p[2]]
           Def(f) == [i \in 1 .. N |->
                        IF WholeAt(c, i) THEN f[NextAt(c, i)] ELSE SubSeq(c, i, Len(c))]
           from == CHOOSE f : f = Def(f)
<1>0. N \in Nat /\ 1 \in 1 .. N /\ Len(c) \in Nat
  OBVIOUS
<1>1. ASSUME NEW i \in 1 .. N PROVE WholeAt(c, i) <=> next[i] \in (i + 1) .. N
  <2>1. next[i] = IF i <= Len(c) THEN NextAt(c, i) ELSE 0
    OBVIOUS
  <2> HIDE DEF next
  <2> QED BY <2>1, <1>0 DEF WholeAt
<1>2. ASSUME NEW i \in 1 .. N, WholeAt(c, i) PROVE next[i] = NextAt(c, i) /\ NextAt(c, i) \in 1 .. N
  BY <1>0, <1>2 DEF WholeAt
<1>3. StepOn(F, N, S)
  BY DEF StepOn
<1>4. base \in [1 .. N -> S]
  <2>1. \A i \in 1 .. N : SubSeq(c, i, Len(c)) \in S
    OBVIOUS
  <2> HIDE DEF S
  <2> QED BY <2>1
<1>5. PICK f : Backward(f, N, S, next, base, F)
  <2> HIDE DEF N, S, next, base, F
  <2> QED BY <1>0, <1>3, <1>4, BackwardRecursion
<1>6. f \in [1 .. N -> S]
      /\ \A i \in 1 .. N : f[i] = IF next[i] \in (i + 1) .. N THEN F[<<i, f[next[i]]>>] ELSE base[i]
  BY <1>5 DEF Backward
<1>7. ASSUME NEW i \in 1 .. N PROVE f[i] = Def(f)[i]
  <2>1. CASE WholeAt(c, i)
    <3>1. f[i] = F[<<i, f[NextAt(c, i)]>>]
      <4> HIDE DEF N, S, next, base, F
      <4> QED BY <1>1, <1>2, <1>6, <2>1
    <3>2. f[NextAt(c, i)] \in S
      <4> HIDE DEF N, S
      <4> QED BY <1>2, <1>6, <2>1
    <3>3. F[<<i, f[NextAt(c, i)]>>] = f[NextAt(c, i)]
      <4> HIDE DEF S, N
      <4> QED BY <3>2
    <3> QED BY <2>1, <3>1, <3>3
  <2>2. CASE ~WholeAt(c, i)
    <3>1. f[i] = base[i]
      <4> HIDE DEF N, S, next, base, F
      <4> QED BY <1>1, <1>6, <2>2
    <3> QED BY <2>2, <3>1
  <2> QED BY <2>1, <2>2
<1>8. f = Def(f)
  <2>1. f = [i \in 1 .. N |-> f[i]]
    <3> HIDE DEF S, N
    <3> QED BY <1>6
  <2>2. Def(f) = [i \in 1 .. N |-> Def(f)[i]]
    OBVIOUS
  <2> HIDE DEF Def, N
  <2> QED BY <1>7, <2>1, <2>2
<1>9. from = Def(from)
  BY <1>8
<1>10. TornTail(c) = from[1]
  BY DEF TornTail
<1>11. ASSUME NEW g, g = Def(g) PROVE Passes(g, c)
  <2>1. ASSUME NEW i \in 1 .. N
        PROVE  g[i] = IF WholeAt(c, i) THEN g[NextAt(c, i)] ELSE SubSeq(c, i, Len(c))
    <3>1. g[i] = Def(g)[i]
      BY <1>11, Zenon
    <3> QED BY <3>1
  <2> QED BY <2>1 DEF Passes
<1> HIDE DEF from, Def
<1> QED BY <1>9, <1>10, <1>11

\* The cells T are those of the entries es, and entry i ends at cell o[i].
Frame(T, es, o) ==
    /\ o \in [0 .. Len(es) -> Nat]
    /\ o[0] = 0 /\ o[Len(es)] = Len(T)
    /\ \A i, j \in 0 .. Len(es) : i <= j => o[i] <= o[j]
    /\ \A i \in 1 .. Len(es) : o[i] = o[i - 1] + SizeOf(es[i]) /\ HasAt(T, o[i - 1], es[i])

LEMMA FrameEmpty == \E o : Frame(<<>>, <<>>, o)
<1> DEFINE o == [i \in 0 .. 0 |-> 0]
<1>1. o \in [0 .. 0 -> Nat] /\ o[0] = 0 /\ Len(<<>>) = 0
  OBVIOUS
<1>2. \A i \in 1 .. 0 : FALSE
  OBVIOUS
<1>3. \A i, j \in 0 .. 0 : o[i] <= o[j]
  OBVIOUS
<1> HIDE DEF o
<1>4. Frame(<<>>, <<>>, o)
  BY <1>1, <1>2, <1>3 DEF Frame
<1> QED BY <1>4

LEMMA FrameAppend ==
    ASSUME NEW T \in Seq(LogCell), NEW es \in Seq(Items), NEW o, Frame(T, es, o), NEW e \in Items
    PROVE  \E q : /\ Frame(T \o Serialized(e), Append(es, e), q)
                  /\ \A i \in 0 .. Len(es) : q[i] = o[i]
<1> DEFINE n == Len(es)
           z == SizeOf(e)
           t == T \o Serialized(e)
           fs == Append(es, e)
           q == [i \in 0 .. n + 1 |-> IF i = n + 1 THEN o[n] + z ELSE o[i]]
<1>1. /\ n \in Nat /\ Len(fs) = n + 1 /\ fs[n + 1] = e /\ \A i \in 1 .. n : fs[i] = es[i]
  OBVIOUS
<1>2. z \in Nat /\ z >= 4 /\ Serialized(e) \in Seq(LogCell) /\ Len(Serialized(e)) = z
  BY SizeOfIs
<1>3. Joined(t, T, Serialized(e), LogCell)
  BY <1>2, ConcatIs
<1> HIDE DEF t, fs, n, z
<1>4. /\ Len(T) \in Nat /\ Len(t) = Len(T) + z
      /\ \A i \in 1 .. Len(T) : t[i] = T[i]
      /\ \A i \in 1 .. z : t[Len(T) + i] = Serialized(e)[i]
  BY <1>2, <1>3 DEF Joined
<1>5. /\ o \in [0 .. n -> Nat] /\ o[0] = 0 /\ o[n] = Len(T)
      /\ \A i, j \in 0 .. n : i <= j => o[i] <= o[j]
      /\ \A i \in 1 .. n : o[i] = o[i - 1] + SizeOf(es[i]) /\ HasAt(T, o[i - 1], es[i])
  BY DEF Frame, n
<1>6. q[n + 1] = o[n] + z /\ \A i \in 0 .. n : q[i] = o[i]
  BY <1>1
<1>7. q \in [0 .. n + 1 -> Nat]
  BY <1>1, <1>2, <1>5
<1> HIDE DEF q
<1>8. q[0] = 0 /\ q[n + 1] = Len(t)
  BY <1>1, <1>4, <1>5, <1>6
<1>9. ASSUME NEW i \in 0 .. n + 1, NEW j \in 0 .. n + 1, i <= j PROVE q[i] <= q[j]
  <2>1. CASE j \in 0 .. n
    <3>1. i \in 0 .. n
      BY <1>1, <1>9, <2>1
    <3> QED BY <1>5, <1>6, <1>9, <2>1, <3>1
  <2>2. CASE j = n + 1 /\ i \in 0 .. n
    <3>1. o[i] <= o[n] /\ o[i] \in Nat /\ o[n] \in Nat
      BY <1>1, <1>5, <2>2
    <3> QED BY <1>2, <1>6, <2>2, <3>1
  <2>3. CASE i = n + 1 /\ j = n + 1
    BY <1>7, <2>3
  <2> QED BY <1>1, <1>9, <2>1, <2>2, <2>3
<1>10. ASSUME NEW i \in 1 .. n + 1
       PROVE  q[i] = q[i - 1] + SizeOf(fs[i]) /\ HasAt(t, q[i - 1], fs[i])
  <2>1. CASE i \in 1 .. n
    <3>1. i - 1 \in 0 .. n /\ i \in 0 .. n /\ fs[i] = es[i] /\ q[i] = o[i] /\ q[i - 1] = o[i - 1]
      BY <1>1, <1>6, <2>1
    <3>2. o[i] = o[i - 1] + SizeOf(es[i]) /\ HasAt(T, o[i - 1], es[i])
      BY <1>5, <2>1
    <3> DEFINE u == o[i - 1]
               y == SizeOf(es[i])
    <3>3. u \in Nat /\ y \in Nat /\ u + y <= Len(T)
      <4>1. o[i] <= o[n] /\ u \in Nat
        BY <1>1, <1>5, <2>1, <3>1
      <4>2. es[i] \in Items
        BY <2>1 DEF n
      <4>3. y \in Nat
        BY <4>2, SizeOfIs
      <4>4. u + y = o[i]
        BY <3>2
      <4> HIDE DEF u, y
      <4> QED BY <1>5, <4>1, <4>3, <4>4
    <3>4. HasAt(T, u, es[i])
      BY <3>2
    <3> HIDE DEF u
    <3>5. ASSUME NEW p \in 1 .. y PROVE t[u + p] = Serialized(es[i])[p]
      <4>1. T[u + p] = Serialized(es[i])[p]
        BY <3>4 DEF HasAt
      <4> HIDE DEF y
      <4>2. u + p \in 1 .. Len(T)
        BY <1>4, <3>3
      <4> QED BY <1>4, <4>1, <4>2
    <3>6. HasAt(t, u, es[i])
      BY <3>5 DEF HasAt
    <3> QED BY <3>1, <3>2, <3>6 DEF u
  <2>2. CASE i = n + 1
    <3>1. i - 1 = n /\ fs[i] = e /\ q[i] = o[n] + z /\ q[i - 1] = o[n]
      BY <1>1, <1>6, <2>2
    <3>2. HasAt(t, o[n], e)
      BY <1>4, <1>5 DEF HasAt, z
    <3> QED BY <3>1, <3>2 DEF z
  <2> QED BY <1>1, <2>1, <2>2
<1>11. Frame(t, fs, q)
  BY <1>1, <1>7, <1>8, <1>9, <1>10 DEF Frame
<1> QED BY <1>6, <1>11 DEF t, fs, n

LEMMA ReadEntryIs ==
    ASSUME NEW e \in Items
    PROVE  /\ ReadEntry(e) \in Items /\ ReadEntry(e).key = e.key /\ ReadEntry(e).seq = e.seq
           /\ ReadEntry(e).value \in Value \cup {Tomb}
BY DEF ReadEntry, Items

LEMMA AsReadIs ==
    ASSUME NEW es \in Seq(Items)
    PROVE  /\ AsRead(es) \in Seq(Items) /\ Len(AsRead(es)) = Len(es)
           /\ \A i \in 1 .. Len(es) : AsRead(es)[i] = ReadEntry(es[i])
<1>1. DOMAIN es = 1 .. Len(es) /\ Len(es) \in Nat /\ \A i \in 1 .. Len(es) : es[i] \in Items
  OBVIOUS
<1>2. AsRead(es) = [i \in 1 .. Len(es) |-> ReadEntry(es[i])]
  BY <1>1 DEF AsRead, ReadEntry
<1>3. \A i \in 1 .. Len(es) : ReadEntry(es[i]) \in Items
  BY <1>1, ReadEntryIs
<1>4. AsRead(es) \in [1 .. Len(es) -> Items]
  BY <1>2, <1>3
<1>5. \A i \in 1 .. Len(es) : AsRead(es)[i] = ReadEntry(es[i])
  BY <1>2
<1> QED BY <1>1, <1>4, <1>5

LEMMA SliceOfSlice ==
    ASSUME NEW S, NEW T \in Seq(S), NEW u \in Nat, NEW v \in Nat, NEW x \in Nat,
           u <= v, v <= x, x <= Len(T)
    PROVE  SubSeq(SubSeq(T, u + 1, x), v - u + 1, x - u) = SubSeq(T, v + 1, x)
OBVIOUS

\* Of the cells T of entries up to x, the first b entries are whole, and entry
\* b + 1 is not.
Inside(T, es, o, b, x) ==
    b \in 0 .. Len(es) /\ x \in o[b] .. Len(T) /\ (b < Len(es) => x < o[b + 1])

\* Parsing cells from the end of entry a on, up to some cell of entry b + 1.
LEMMA ParsingIs ==
    ASSUME NEW T \in Seq(LogCell), NEW es \in Seq(Items), NEW o, Frame(T, es, o),
           NEW a \in 0 .. Len(es), NEW b, NEW x, Inside(T, es, o, b, x), a <= b
    PROVE  /\ EntriesFrom(SubSeq(T, o[a] + 1, x)) = SubSeq(AsRead(es), a + 1, b)
           /\ TornTail(SubSeq(T, o[a] + 1, x)) = SubSeq(T, o[b] + 1, x)
<1> DEFINE n == Len(es)
           c == SubSeq(T, o[a] + 1, x)
           R == AsRead(es)
           pos(i) == o[i] - o[a] + 1
<1>1. /\ n \in Nat /\ a \in 0 .. n /\ b \in 0 .. n /\ a <= b
      /\ \A i \in 1 .. n : es[i] \in Items
  BY DEF Inside
<1>2. /\ o \in [0 .. n -> Nat] /\ o[n] = Len(T)
      /\ \A i, j \in 0 .. n : i <= j => o[i] <= o[j]
      /\ \A i \in 1 .. n : o[i] = o[i - 1] + SizeOf(es[i]) /\ HasAt(T, o[i - 1], es[i])
  BY DEF Frame
<1>3. /\ R \in Seq(Items) /\ Len(R) = n /\ \A i \in 1 .. n : R[i] = ReadEntry(es[i])
  BY AsReadIs
<1>4. o[a] \in Nat /\ o[b] \in Nat /\ o[a] <= o[b] /\ x \in Nat /\ o[b] <= x /\ x <= Len(T)
      /\ Len(T) \in Nat
  <2>1. o[a] \in Nat /\ o[b] \in Nat /\ o[a] <= o[b]
    <3> HIDE DEF n
    <3> QED BY <1>1, <1>2
  <2>2. x \in o[b] .. Len(T) /\ Len(T) \in Nat
    BY DEF Inside
  <2> QED BY <2>1, <2>2
<1> DEFINE A == o[a]
           B == o[b]
<1> HIDE DEF n, R
<1>5. c \in Seq(LogCell) /\ Len(c) = x - A /\ \A i \in 1 .. x - A : c[i] = T[A + i]
  <2> HIDE DEF A
  <2>1. A \in Nat /\ A <= x
    BY <1>4 DEF A
  <2>2. c = SubSeq(T, A + 1, x)
    BY DEF A
  <2> HIDE DEF c
  <2>3. Slice(c, T, A, x, LogCell)
    BY <1>4, <2>1, <2>2, SliceIs
  <2> QED BY <2>3 DEF Slice
<1>0. A \in Nat /\ B \in Nat /\ A <= B /\ B <= x
  BY <1>4
<1> HIDE DEF c, A, B
<1>6. ASSUME NEW i \in a .. (b - 1)
      PROVE  /\ pos(i) \in 1 .. Len(c) + 1
             /\ WholeAt(c, pos(i)) /\ NextAt(c, pos(i)) = pos(i + 1)
             /\ EntryAt(c, pos(i)) = R[i + 1]
  <2>1. i \in 0 .. n /\ i + 1 \in 0 .. n /\ i + 1 \in 1 .. n /\ i + 1 <= b /\ a <= i /\ (i + 1) - 1 = i
    BY <1>1
  <2> DEFINE e == es[i + 1]
             z == SizeOf(e)
             P == o[i]
             Q == o[i + 1]
             p == P - A + 1
  <2>2. P \in Nat /\ Q \in Nat /\ A <= P /\ Q <= B
    BY <1>1, <1>2, <2>1 DEF A, B
  <2>3. Q = P + z /\ HasAt(T, P, e)
    BY <1>2, <2>1
  <2>4. e \in Items /\ z \in Nat /\ z >= 4
    BY <1>1, <2>1, SizeOfIs
  <2>5. pos(i) = p /\ pos(i + 1) = Q - A + 1
    BY DEF A
  <2> HIDE DEF e, z, P, Q, pos
  <2>6. /\ p \in Nat \ {0} /\ p + z = Q - A + 1 /\ p <= Len(c)
        /\ p + z \in (p + 1) .. (Len(c) + 1) /\ p \in 1 .. Len(c) + 1
    BY <1>0, <1>4, <1>5, <2>2, <2>3, <2>4
  <2>7. HasAt(c, p - 1, e)
    <3>1. ASSUME NEW m \in 1 .. z PROVE c[p - 1 + m] = Serialized(e)[m]
      <4>1. p - 1 + m \in 1 .. x - A /\ A + (p - 1 + m) = P + m
        BY <1>0, <1>4, <2>2, <2>3, <2>4
      <4>2. T[P + m] = Serialized(e)[m]
        BY <2>3 DEF HasAt, z
      <4>3. c[p - 1 + m] = T[A + (p - 1 + m)]
        <5> HIDE DEF p
        <5> QED BY <1>5, <4>1
      <4> QED BY <4>1, <4>2, <4>3
    <3> HIDE DEF p
    <3> QED BY <3>1 DEF HasAt, z
  <2> HIDE DEF p
  <2>8. TotalAt(c, p) = z /\ EntryAt(c, p) = ReadEntry(e)
    BY <2>4, <2>6, <2>7, EntryAtIs DEF z
  <2>9. NextAt(c, p) = p + z
    BY <2>8 DEF NextAt
  <2>10. WholeAt(c, p)
    BY <2>6, <2>9 DEF WholeAt
  <2> QED BY <1>3, <2>1, <2>5, <2>6, <2>8, <2>9, <2>10 DEF e
<1>7. pos(b) \in 1 .. Len(c) + 1 /\ ~WholeAt(c, pos(b))
  <2> DEFINE p == B - A + 1
  <2>0. pos(b) = p
    BY DEF A, B
  <2>1. p \in 1 .. Len(c) + 1
    BY <1>0, <1>4, <1>5, SMTT(30)
  <2>2. CASE x = B
    <3>1. ~(p <= Len(c))
      BY <1>0, <1>4, <1>5, <2>2
    <3> HIDE DEF p, pos
    <3> QED BY <2>0, <2>1, <3>1 DEF WholeAt
  <2>3. CASE x # B
    <3>1. b < n /\ b + 1 \in 1 .. n /\ (b + 1) - 1 = b /\ b + 1 \in 0 .. n
      <4>1. b # n
        BY <1>2, <1>4, <2>3 DEF B
      <4> QED BY <1>1, <4>1
    <3> DEFINE e == es[b + 1]
               z == SizeOf(e)
               Q == o[b + 1]
    <3>2. e \in Items /\ z \in Nat /\ Q = B + z /\ HasAt(T, B, e) /\ x < Q
      <4>1. e \in Items /\ x < Q
        BY <1>1, <3>1 DEF n, Inside
      <4>2. o[b + 1] = o[b] + z /\ HasAt(T, o[b], e)
        BY <1>2, <3>1
      <4> QED BY <4>1, <4>2, SizeOfIs DEF B
    <3> HIDE DEF e, z, Q, pos
    <3>3. TotalAt(T, B + 1) = z
      <4>1. B + 1 \in Nat \ {0} /\ (B + 1) - 1 = B
        BY <1>0
      <4> QED BY <3>2, <4>1, EntryAtIs DEF z
    <3>4. c[p] = T[B + 1]
      <4>1. p \in 1 .. x - A /\ A + p = B + 1
        BY <1>0, <1>4, <2>3
      <4> HIDE DEF p
      <4> QED BY <1>5, <4>1
    <3>5. NextAt(c, p) = p + z
      <4> HIDE DEF p
      <4> QED BY <3>3, <3>4 DEF NextAt, TotalAt
    <3>6. p + z \notin (p + 1) .. (Len(c) + 1)
      BY <1>0, <1>4, <1>5, <3>2
    <3> HIDE DEF p
    <3> QED BY <2>0, <2>1, <3>5, <3>6 DEF WholeAt
  <2> QED BY <2>2, <2>3
<1>8. pos(a) = 1
  BY <1>4
<1>9. \A m \in 0 .. (b - a) :
         /\ b - m \in a .. b
         /\ m + 1 <= b - a => b - (m + 1) \in a .. (b - 1) /\ (b - (m + 1)) + 1 = b - m
  BY <1>1
<1>10. EntriesFrom(c) = SubSeq(R, a + 1, b)
  <2>1. PICK from : Parses(from, c) /\ EntriesFrom(c) = from[1]
    BY <1>5, EntriesFromIs
  <2> DEFINE I == {m \in Nat : m <= b - a => from[pos(b - m)] = SubSeq(R, b - m + 1, b)}
  <2>2. 0 \in I
    <3>1. from[pos(b)] = <<>>
      BY <1>7, <2>1 DEF Parses
    <3>2. SubSeq(R, b + 1, b) = <<>>
      BY <1>1, SubSeqEmpty
    <3>3. b - 0 = b
      BY <1>1
    <3> HIDE DEF pos
    <3> QED BY <3>1, <3>2, <3>3
  <2>3. ASSUME NEW m \in Nat, m \in I PROVE m + 1 \in I
    <3> SUFFICES ASSUME m + 1 <= b - a
                 PROVE  from[pos(b - (m + 1))] = SubSeq(R, b - (m + 1) + 1, b)
      OBVIOUS
    <3> DEFINE i == b - (m + 1)
    <3>1. i \in a .. (b - 1) /\ i + 1 = b - m /\ i + 1 \in 1 .. n /\ b \in (i + 1) .. n
      BY <1>1
    <3>2. from[pos(i + 1)] = SubSeq(R, (i + 1) + 1, b)
      <4>1. m <= b - a
        BY <1>1
      <4>2. from[pos(b - m)] = SubSeq(R, b - m + 1, b)
        BY <2>3, <4>1
      <4> HIDE DEF i, pos
      <4> QED BY <3>1, <4>2
    <3> HIDE DEF i
    <3>3. from[pos(i)] = <<R[i + 1]>> \o from[pos(i + 1)]
      <4> HIDE DEF pos
      <4> QED BY <1>6, <2>1, <3>1 DEF Parses
    <3>4. SubSeq(R, i + 1, b) = <<R[i + 1]>> \o SubSeq(R, (i + 1) + 1, b)
      BY <1>3, <3>1, SubSeqRecursiveFirst
    <3> HIDE DEF pos
    <3> QED BY <3>2, <3>3, <3>4 DEF i
  <2> HIDE DEF I
  <2>4. b - a \in I
    <3>1. b - a \in Nat
      BY <1>1
    <3> QED BY <2>2, <2>3, <3>1, SetInduction
  <2>5. from[pos(b - (b - a))] = SubSeq(R, b - (b - a) + 1, b)
    BY <1>1, <2>4 DEF I
  <2>6. b - (b - a) = a
    BY <1>1
  <2> HIDE DEF pos
  <2> QED BY <1>8, <2>1, <2>5, <2>6
<1>11. TornTail(c) = SubSeq(T, o[b] + 1, x)
  <2>1. PICK from : Passes(from, c) /\ TornTail(c) = from[1]
    BY <1>5, TornTailIs
  <2> DEFINE I == {m \in Nat : m <= b - a => from[pos(b - m)] = from[pos(b)]}
  <2>2. 0 \in I
    <3>1. b - 0 = b
      BY <1>1
    <3> HIDE DEF pos
    <3> QED BY <3>1
  <2>3. ASSUME NEW m \in Nat, m \in I PROVE m + 1 \in I
    <3> SUFFICES ASSUME m + 1 <= b - a PROVE from[pos(b - (m + 1))] = from[pos(b)]
      OBVIOUS
    <3> DEFINE i == b - (m + 1)
    <3>1. i \in a .. (b - 1) /\ i + 1 = b - m
      BY <1>1
    <3>2. from[pos(i + 1)] = from[pos(b)]
      <4>1. m <= b - a
        BY <1>1
      <4> HIDE DEF i, pos
      <4> QED BY <2>3, <3>1, <4>1
    <3> HIDE DEF i
    <3>3. from[pos(i)] = from[pos(i + 1)]
      <4> HIDE DEF pos
      <4> QED BY <1>6, <2>1, <3>1 DEF Passes
    <3> HIDE DEF pos
    <3> QED BY <3>2, <3>3 DEF i
  <2> HIDE DEF I
  <2>4. b - a \in I
    <3>1. b - a \in Nat
      BY <1>1
    <3> QED BY <2>2, <2>3, <3>1, SetInduction
  <2>5. from[pos(a)] = from[pos(b)]
    <3>1. b - (b - a) = a /\ b - a <= b - a /\ b - a \in Nat
      BY <1>1
    <3>2. from[pos(b - (b - a))] = from[pos(b)]
      BY <2>4, <3>1 DEF I
    <3> HIDE DEF pos
    <3> QED BY <3>1, <3>2
  <2>6. from[pos(b)] = SubSeq(c, pos(b), Len(c))
    <3> HIDE DEF pos
    <3> QED BY <1>7, <2>1 DEF Passes
  <2>7. SubSeq(c, pos(b), Len(c)) = SubSeq(T, o[b] + 1, x)
    <3>1. SubSeq(SubSeq(T, A + 1, x), B - A + 1, x - A) = SubSeq(T, B + 1, x)
      BY <1>0, <1>4, SliceOfSlice
    <3>2. c = SubSeq(T, A + 1, x) /\ pos(b) = B - A + 1
      BY DEF c, A, B
    <3> HIDE DEF pos
    <3> QED BY <1>5, <3>1, <3>2 DEF B
  <2> HIDE DEF pos
  <2> QED BY <1>8, <2>1, <2>5, <2>6, <2>7
<1> QED BY <1>10, <1>11 DEF c, R

LEMMA FrameGrows ==
    ASSUME NEW T \in Seq(LogCell), NEW es \in Seq(Items), NEW o, Frame(T, es, o),
           NEW i \in 0 .. Len(es), i < Len(es)
    PROVE  o[i] \in Nat /\ o[i + 1] \in Nat /\ o[i] < o[i + 1]
<1>1. i + 1 \in 1 .. Len(es) /\ i + 1 \in 0 .. Len(es) /\ (i + 1) - 1 = i /\ es[i + 1] \in Items
  OBVIOUS
<1>2. o[i] \in Nat /\ o[i + 1] \in Nat /\ o[i + 1] = o[i] + SizeOf(es[i + 1])
  BY <1>1 DEF Frame
<1>3. SizeOf(es[i + 1]) \in Nat /\ SizeOf(es[i + 1]) >= 4
  BY <1>1, SizeOfIs
<1> QED BY <1>2, <1>3

\* Where some cell is: behind the end of an entry, and not at that of the next.
LEMMA CutPoint ==
    ASSUME NEW T \in Seq(LogCell), NEW es \in Seq(Items), NEW o, Frame(T, es, o),
           NEW x \in 0 .. Len(T)
    PROVE  \E b :
              /\ Inside(T, es, o, b, x)
              /\ \A m \in 0 .. Len(es) : o[m] <= x => m <= b
<1> DEFINE S == {i \in 0 .. Len(es) : o[i] <= x}
           b == Max(S)
<1>1. /\ o \in [0 .. Len(es) -> Nat] /\ o[0] = 0 /\ Len(es) \in Nat
  BY DEF Frame
<1>2. S \in SUBSET Nat /\ 0 \in S /\ \A i \in S : i <= Len(es)
  BY <1>1
<1>3. b \in S /\ \A i \in S : i <= b
  <2> HIDE DEF S
  <2> QED BY <1>1, <1>2, MaxOfBounded
<1> HIDE DEF b
<1>4. b \in 0 .. Len(es) /\ o[b] <= x /\ o[b] \in Nat
  BY <1>1, <1>3
<1>5. ASSUME b < Len(es) PROVE x < o[b + 1]
  <2>1. b + 1 \in 0 .. Len(es) /\ ~(b + 1 <= b)
    BY <1>1, <1>4, <1>5
  <2>2. b + 1 \notin S
    <3> HIDE DEF S
    <3> QED BY <1>3, <2>1
  <2>3. ~(o[b + 1] <= x) /\ o[b + 1] \in Nat
    BY <1>1, <2>1, <2>2
  <2> QED BY <2>3
<1>6. \A m \in 0 .. Len(es) : o[m] <= x => m <= b
  BY <1>3
<1>7. Inside(T, es, o, b, x)
  BY <1>4, <1>5 DEF Inside
<1> QED BY <1>6, <1>7

\* A file and a buffer that together hold entries.
LEMMA WrittenParses ==
    ASSUME NEW f \in Seq(LogCell), NEW d \in Seq(LogCell), NEW es \in Seq(Items), NEW o,
           Frame(f \o d, es, o), NEW m \in 0 .. Len(es), Len(f) = o[m]
    PROVE  /\ EntriesFrom(f) = SubSeq(AsRead(es), 1, m)
           /\ EntriesFrom(d) = SubSeq(AsRead(es), m + 1, Len(es))
           /\ EntriesFrom(f \o d) = AsRead(es)
           /\ d = <<>> => o[m] = o[Len(es)]
<1> DEFINE T == f \o d
           n == Len(es)
<1>1. Joined(T, f, d, LogCell)
  BY ConcatIs
<1>2. /\ T \in Seq(LogCell) /\ Len(T) = Len(f) + Len(d) /\ Len(f) \in Nat /\ Len(d) \in Nat
  BY <1>1 DEF Joined
<1>0. f = SubSeq(T, 1, Len(f)) /\ d = SubSeq(T, Len(f) + 1, Len(T)) /\ T = SubSeq(T, 1, Len(T))
  <2>1. Len(T) = Len(f) + Len(d)
    BY <1>2
  <2> QED BY <2>1, ConcatParts, SMTT(30)
<1> HIDE DEF T
<1>3. Frame(T, es, o) /\ n \in Nat /\ 0 \in 0 .. n /\ m \in 0 .. n /\ n \in 0 .. n /\ 0 <= m /\ m <= n
      /\ 0 <= n /\ ~(n < n)
  BY DEF T
<1>4. o[0] = 0 /\ o[n] = Len(T) /\ o[m] = Len(f) /\ 0 + 1 = 1
  BY <1>3 DEF Frame
<1>5. Inside(T, es, o, m, Len(f))
  <2>1. m < n => Len(f) < o[m + 1]
    BY <1>2, <1>3, <1>4, FrameGrows
  <2>2. Len(f) \in Len(f) .. Len(T)
    BY <1>2
  <2> HIDE DEF n
  <2> QED BY <1>3, <1>4, <2>1, <2>2 DEF Inside, n
<1>6. Inside(T, es, o, n, Len(T))
  <2>1. Len(T) \in Len(T) .. Len(T)
    BY <1>2
  <2> HIDE DEF n
  <2> QED BY <1>3, <1>4, <2>1 DEF Inside, n
<1> HIDE DEF n
<1>7. EntriesFrom(SubSeq(T, o[0] + 1, Len(f))) = SubSeq(AsRead(es), 0 + 1, m)
  BY <1>2, <1>3, <1>5, ParsingIs DEF n
<1>8. EntriesFrom(SubSeq(T, o[m] + 1, Len(T))) = SubSeq(AsRead(es), m + 1, n)
  BY <1>2, <1>3, <1>6, ParsingIs DEF n
<1>9. EntriesFrom(SubSeq(T, o[0] + 1, Len(T))) = SubSeq(AsRead(es), 0 + 1, n)
  BY <1>2, <1>3, <1>6, ParsingIs DEF n
<1>10. SubSeq(AsRead(es), 1, n) = AsRead(es)
  <2>1. AsRead(es) \in Seq(Items) /\ Len(AsRead(es)) = n
    BY AsReadIs DEF n
  <2> QED BY <2>1, SubSeqFull
<1>11. EntriesFrom(f) = SubSeq(AsRead(es), 1, m)
  BY <1>0, <1>4, <1>7
<1>12. EntriesFrom(d) = SubSeq(AsRead(es), m + 1, n)
  BY <1>0, <1>4, <1>8
<1>13. EntriesFrom(T) = AsRead(es)
  BY <1>0, <1>4, <1>9, <1>10
<1>14. d = <<>> => o[m] = o[n]
  BY <1>2, <1>4
<1> QED BY <1>11, <1>12, <1>13, <1>14 DEF T, n

(***************************************************************************)
(* The invariant                                                           *)
(***************************************************************************)
Logged == [key : Key \cup {NoKey}, seq : 0 .. MaxSeq, value : Value \cup {Tomb}]
Writables == [buffer : [capa : {Capacity}, data : Seq(LogCell)], file : Seq(LogCell)]

Up == stage \in {"open", "logging"}

LogTypes ==
    /\ log \in Writables
    /\ Len(log.buffer.data) <= Capacity
    /\ stage \in Stages
    /\ nextSeq \in Nat
    /\ cursor \in 0 .. Len(entries)
    /\ sent \in Seq(Logged)
    /\ returned \in 0 .. Len(sent)
    /\ cut \in BOOLEAN

\* A batch is numbered while it is logged, and the numbers are in bounds.
NumbersInv ==
    /\ stage = "open" => ~numbered /\ cursor = 0
    /\ ~numbered /\ entries # <<>> => nextSeq + Len(entries) - 1 <= MaxSeq
    /\ stage = "logging" => \A i \in 1 .. Len(entries) : entries[i].seq <= MaxSeq
    /\ ~Up => entries = <<>> /\ ~numbered /\ cursor = 0

\* The first m of the entries are in the file, and all others in the buffer.
Written(o, m) ==
    /\ Frame(log.file \o log.buffer.data, sent, o)
    /\ m \in 0 .. Len(sent)
    /\ Len(log.file) = o[m]
    /\ returned <= m

\* The file has the first x cells of the entries, with the first b of them whole.
KeptUpTo(T, o, b, x) ==
    /\ T \in Seq(LogCell)
    /\ Frame(T, sent, o)
    /\ Inside(T, sent, o, b, x)
    /\ returned <= b
    /\ log.file = SubSeq(T, 1, x)
    /\ x # o[b] => cut

BytesInv ==
    /\ Up => \E o, m : Written(o, m)
    /\ ~Up => log.buffer.data = <<>> /\ \E T, o, b, x : KeptUpTo(T, o, b, x)

\* What was recovered is what is parsed, and one entry more of a torn file.
RecoveredIs ==
    \/ ~Torn(log.file) /\ recovered = EntriesFrom(log.file)
    \/ /\ Torn(log.file)
       /\ \E e : e.value \in {Garbled, Tomb} /\ recovered = Append(EntriesFrom(log.file), e)

RecoveredInv ==
    /\ stage = "recovered" => RecoveredIs
    /\ stage # "recovered" => recovered = <<>>
    /\ stage = "aborted" => ~Parsable(EntriesFrom(log.file)) \/ Torn(log.file)

LogInv == BatchInv /\ LogTypes /\ NumbersInv /\ BytesInv /\ RecoveredInv

LEMMA NewWritableIs ==
    ASSUME NEW c \in Seq(LogCell)
    PROVE  LET w == NewWritable(Capacity, c)
           IN  w \in Writables /\ w.file = c /\ w.buffer.data = <<>> /\ Len(w.buffer.data) = 0
<1>1. <<>> \in Seq(LogCell)
  OBVIOUS
<1> QED BY <1>1 DEF NewWritable, NewBuffer, Writables

LEMMA FlushValidIs ==
    ASSUME NEW w \in Writables
    PROVE  /\ FlushValid(w) \in Writables
           /\ FlushValid(w).file = w.file \o w.buffer.data
           /\ FlushValid(w).buffer.data = <<>>
<1>1. w.file \in Seq(LogCell) /\ w.buffer.data \in Seq(LogCell) /\ w.buffer.capa = Capacity
  BY DEF Writables
<1>2. w.file \o w.buffer.data \in Seq(LogCell) /\ <<>> \in Seq(LogCell)
  BY <1>1, ConcatProperties, EmptySeq
<1>3. Emptied(w.buffer) = [capa |-> Capacity, data |-> <<>>]
  BY DEF Writables, Emptied
<1> QED BY <1>2, <1>3 DEF FlushValid, Writables

LEMMA AppendToIs ==
    ASSUME NEW w \in Writables, NEW cells \in Seq(LogCell), Len(cells) <= Left(w.buffer),
           Capacity \in Nat
    PROVE  LET v == [w EXCEPT !.buffer = AppendTo(@, cells)]
           IN  /\ v \in Writables
               /\ v.file = w.file
               /\ v.buffer.data = w.buffer.data \o cells
               /\ Len(v.buffer.data) <= Capacity
<1> DEFINE b == w.buffer
           d == b.data \o cells
<1>1. b \in [capa : {Capacity}, data : Seq(LogCell)] /\ w.file \in Seq(LogCell)
  BY DEF Writables
<1>2. b.data \in Seq(LogCell) /\ b.capa = Capacity
  BY <1>1
<1>3. d \in Seq(LogCell) /\ Len(d) = Len(b.data) + Len(cells) /\ Len(b.data) \in Nat /\ Len(cells) \in Nat
  BY <1>2, ConcatProperties, LenProperties
<1>4. Left(b) = Capacity - Len(b.data)
  BY <1>2 DEF Left
<1>5. ~(Left(b) < Len(cells)) /\ Len(d) <= Capacity
  BY <1>3, <1>4
<1>6. AppendTo(b, cells) = [b EXCEPT !.data = d]
  BY <1>5 DEF AppendTo
<1> HIDE DEF d, b
<1>7. [b EXCEPT !.data = d] \in [capa : {Capacity}, data : Seq(LogCell)] /\ [b EXCEPT !.data = d].data = d
  BY <1>1, <1>3
<1>8. [w EXCEPT !.buffer = AppendTo(@, cells)] = [w EXCEPT !.buffer = [b EXCEPT !.data = d]]
  BY <1>6 DEF b
<1>9. [w EXCEPT !.buffer = [b EXCEPT !.data = d]].buffer = [b EXCEPT !.data = d]
      /\ [w EXCEPT !.buffer = [b EXCEPT !.data = d]].file = w.file
      /\ [w EXCEPT !.buffer = [b EXCEPT !.data = d]] \in Writables
  BY <1>1, <1>7 DEF Writables
<1> QED BY <1>5, <1>7, <1>8, <1>9 DEF d, b

LEMMA LoggedAreItems == Logged \subseteq Items /\ Seq(Logged) \subseteq Seq(Items)
<1>1. Logged \subseteq Items
  BY LogAssumption DEF Logged, Items
<1> QED BY <1>1, SeqMonotonic

LEMMA LogInitInv == LogFileInit => LogInv
<1> SUFFICES ASSUME LogFileInit PROVE LogInv
  OBVIOUS
<1>1. BatchInv /\ entries = <<>> /\ ~numbered
  BY BatchInitInv DEF LogFileInit, BatchInit
<1>2. <<>> \in Seq(LogCell) /\ <<>> \in Seq(Logged) /\ Len(<<>>) = 0 /\ Capacity \in Nat
  BY EmptySeq, LogAssumption
<1>3. log \in Writables /\ log.file = <<>> /\ log.buffer.data = <<>> /\ Len(log.buffer.data) = 0
  BY <1>2, NewWritableIs DEF LogFileInit
<1>4. LogTypes
  <2>1. 0 \in 0 .. Len(entries) /\ 0 \in 0 .. Len(sent) /\ sent \in Seq(Logged)
    BY <1>1, <1>2 DEF LogFileInit
  <2>2. First \in Nat /\ 0 <= Capacity
    BY <1>2, BatchAssumption
  <2> QED BY <1>3, <2>1, <2>2 DEF LogTypes, LogFileInit, Stages
<1>5. NumbersInv
  BY <1>1 DEF NumbersInv, LogFileInit, Up
<1>6. BytesInv
  <2>1. PICK o : Frame(<<>>, <<>>, o)
    BY FrameEmpty
  <2>2. <<>> \o <<>> = <<>>
    BY <1>2, ConcatEmptySeq
  <2>3. o[0] = 0 /\ 0 \in 0 .. Len(<<>>) /\ 0 <= 0
    BY <2>1 DEF Frame
  <2>4. Written(o, 0)
    BY <1>2, <1>3, <2>1, <2>2, <2>3 DEF Written, LogFileInit
  <2> QED BY <2>4 DEF BytesInv, LogFileInit, Up
<1>7. RecoveredInv
  BY DEF RecoveredInv, LogFileInit
<1> QED BY <1>1, <1>4, <1>5, <1>6, <1>7 DEF LogInv

LEMMA BytesSame ==
    ASSUME BytesInv, UNCHANGED <<log, sent, returned, cut>>, Up' <=> Up
    PROVE  BytesInv'
BY DEF BytesInv, Written, KeptUpTo

LEMMA NothingRecovered ==
    ASSUME RecoveredInv, Up, Up', recovered' = recovered
    PROVE  RecoveredInv'
BY DEF RecoveredInv, Up

LEMMA FillInv == LogInv /\ Fill => LogInv'
<1> SUFFICES ASSUME LogInv, Fill PROVE LogInv'
  OBVIOUS
<1>1. stage = "open" /\ FillBatch /\ nextSeq + Len(entries') - 1 <= MaxSeq /\ UNCHANGED logFileVars
  BY DEF Fill
<1>2. numbered' = numbered
  BY <1>1 DEF FillBatch, Write, WriteBatch, RemoveOther, RemoveOwn, Filling
<1>3. BatchInv'
  BY <1>1, FillBatchInv DEF LogInv
<1>4. Up /\ Up' /\ ~numbered /\ cursor = 0
  BY <1>1 DEF logFileVars, LogInv, NumbersInv, Up
<1>5. LogTypes'
  <2>1. 0 \in 0 .. Len(entries')
    BY <1>3 DEF BatchInv, BatchTypeOK
  <2> QED BY <1>1, <1>4, <2>1 DEF logFileVars, LogInv, LogTypes
<1>6. NumbersInv'
  BY <1>1, <1>2, <1>4 DEF logFileVars, NumbersInv
<1>7. BytesInv'
  BY <1>1, <1>4, BytesSame DEF logFileVars, LogInv
<1>8. RecoveredInv'
  BY <1>1, <1>4, NothingRecovered DEF logFileVars, LogInv
<1> QED BY <1>3, <1>5, <1>6, <1>7, <1>8 DEF LogInv

LEMMA InsertInv == LogInv /\ Insert => LogInv'
<1> SUFFICES ASSUME LogInv, Insert PROVE LogInv'
  OBVIOUS
<1>1. /\ stage = "open" /\ SetFirst(nextSeq) /\ nextSeq' = nextSeq + Len(entries)
      /\ stage' = "logging"
      /\ UNCHANGED <<log, cursor, sent, returned, cut, recovered>>
  BY DEF Insert
<1>2. nextSeq \in Nat /\ cursor = 0 /\ ~numbered /\ entries # <<>>
  BY <1>1 DEF LogInv, LogTypes, NumbersInv, SetFirst
<1>3. /\ BatchInv' /\ Len(entries') = Len(entries)
      /\ \A i \in 1 .. Len(entries) : entries'[i].seq = nextSeq + i - 1
  BY <1>1, <1>2, SetFirstInv DEF LogInv
<1>4. Len(entries) \in Nat
  BY DEF LogInv, BatchInv, BatchTypeOK
<1>5. Up /\ Up' /\ numbered'
  BY <1>1 DEF Up, SetFirst
<1>6. LogTypes'
  <2>1. 0 \in 0 .. Len(entries') /\ nextSeq' \in Nat
    BY <1>1, <1>2, <1>3, <1>4
  <2> QED BY <1>1, <1>2, <2>1 DEF LogInv, LogTypes, Stages
<1>7. NumbersInv'
  <2>1. nextSeq + Len(entries) - 1 <= MaxSeq /\ MaxSeq \in Nat
    BY <1>2, LogAssumption DEF LogInv, NumbersInv
  <2>2. ASSUME NEW i \in 1 .. Len(entries') PROVE entries'[i].seq <= MaxSeq
    <3>1. i \in 1 .. Len(entries) /\ entries'[i].seq = nextSeq + i - 1
      BY <1>3
    <3> QED BY <1>2, <1>4, <2>1, <3>1
  <2> QED BY <1>1, <1>5, <2>2 DEF NumbersInv
<1>8. BytesInv'
  BY <1>1, <1>5, BytesSame DEF LogInv
<1>9. RecoveredInv'
  BY <1>1, <1>5, NothingRecovered DEF LogInv
<1> QED BY <1>3, <1>6, <1>7, <1>8, <1>9 DEF LogInv

\* While the process runs.
LEMMA UpFacts ==
    ASSUME LogInv, Up
    PROVE  /\ log \in Writables /\ log.file \in Seq(LogCell) /\ log.buffer.data \in Seq(LogCell)
           /\ sent \in Seq(Items) /\ sent \in Seq(Logged)
           /\ \E o, m : Written(o, m)
<1>1. log \in Writables /\ sent \in Seq(Logged)
  BY DEF LogInv, LogTypes
<1>2. log.file \in Seq(LogCell) /\ log.buffer.data \in Seq(LogCell)
  BY <1>1 DEF Writables
<1> QED BY <1>1, <1>2, LoggedAreItems DEF LogInv, BytesInv

LEMMA FlushInv == LogInv /\ Flush => LogInv'
<1> SUFFICES ASSUME LogInv, Flush PROVE LogInv'
  OBVIOUS
<1>1. /\ stage = "logging" /\ log' = FlushValid(log)
      /\ UNCHANGED <<batchVars, stage, nextSeq, cursor, sent, returned, cut, recovered>>
  BY DEF Flush, MustFlush
<1>2. Up /\ Up'
  BY <1>1 DEF Up
<1>3. /\ log' \in Writables /\ log'.file = log.file \o log.buffer.data
      /\ log'.buffer.data = <<>>
  BY <1>1, <1>2, UpFacts, FlushValidIs
<1>4. BatchInv'
  BY <1>1 DEF LogInv, BatchInv, BatchTypeOK, Keeps, LastUpTo, NoneUpTo, batchVars
<1>5. LogTypes'
  <2>1. Len(<<>>) <= Capacity
    BY LogAssumption
  <2> QED BY <1>1, <1>3, <2>1 DEF LogInv, LogTypes, batchVars
<1>6. NumbersInv'
  BY <1>1 DEF LogInv, NumbersInv, Up, batchVars
<1>7. BytesInv'
  <2>1. PICK o, m : Written(o, m)
    BY <1>2, UpFacts
  <2> DEFINE T == log.file \o log.buffer.data
  <2>2. T \in Seq(LogCell) /\ T \o <<>> = T
    BY <1>2, UpFacts, ConcatProperties, ConcatEmptySeq
  <2>3. Frame(T, sent, o) /\ m \in 0 .. Len(sent) /\ returned <= m
    BY <2>1 DEF Written
  <2> HIDE DEF T
  <2>4. Len(T) = o[Len(sent)]
    BY <2>3 DEF Frame
  <2>5. Len(sent) \in 0 .. Len(sent) /\ returned <= Len(sent)
    BY <1>2, <2>3 DEF LogInv, LogTypes
  <2>6. log'.file = T /\ log'.file \o log'.buffer.data = T
    BY <1>3, <2>2 DEF T
  <2>7. Written(o, Len(sent))'
    BY <1>1, <2>3, <2>4, <2>5, <2>6 DEF Written
  <2> QED BY <1>2, <2>7 DEF BytesInv
<1>8. RecoveredInv'
  BY <1>1, <1>2, NothingRecovered DEF LogInv
<1> QED BY <1>4, <1>5, <1>6, <1>7, <1>8 DEF LogInv

\* The entry that is serialized, and what becomes of the buffer.
LEMMA LogEntryFacts ==
    ASSUME LogInv, LogEntry
    PROVE  /\ Up /\ Up' /\ cursor + 1 \in 1 .. Len(entries)
           /\ NextEntry \in Logged /\ NextEntry \in Items /\ sent' = Append(sent, NextEntry)
           /\ log' \in Writables /\ log'.file = log.file
           /\ log'.buffer.data = log.buffer.data \o Serialized(NextEntry)
           /\ Len(log'.buffer.data) <= Capacity
<1>1. /\ stage = "logging" /\ stage' = stage /\ NextFits /\ sent' = Append(sent, NextEntry)
      /\ log' = [log EXCEPT !.buffer = AppendTo(@, Serialized(NextEntry))]
  BY DEF LogEntry
<1>2. Up /\ Up'
  BY <1>1 DEF Up
<1>3. cursor + 1 \in 1 .. Len(entries)
  <2>1. cursor \in 0 .. Len(entries) /\ cursor # Len(entries) /\ Len(entries) \in Nat
    BY <1>1 DEF LogInv, LogTypes, BatchInv, BatchTypeOK, NextFits, AllSerialized
  <2> QED BY <2>1
<1>4. NextEntry \in Items /\ NextEntry.seq <= MaxSeq
  <2>1. entries \in Seq(Items) /\ entries[cursor + 1].seq <= MaxSeq
    BY <1>1, <1>3 DEF LogInv, BatchInv, BatchTypeOK, Items, NumbersInv
  <2> QED BY <1>3, <2>1 DEF NextEntry
<1>5. NextEntry \in Logged
  <2>1. NextEntry.seq \in 0 .. MaxSeq
    BY <1>4, LogAssumption DEF Items
  <2> QED BY <1>4, <2>1 DEF Items, Logged
<1>6. Serialized(NextEntry) \in Seq(LogCell) /\ Len(Serialized(NextEntry)) <= Left(log.buffer)
  <2>1. SizeOf(NextEntry) <= Left(log.buffer)
    BY <1>1 DEF NextFits
  <2>2. Serialized(NextEntry) \in Seq(LogCell) /\ Len(Serialized(NextEntry)) = SizeOf(NextEntry)
    BY <1>4, SizeOfIs
  <2> QED BY <2>1, <2>2
<1>7. log \in Writables /\ Capacity \in Nat
  BY LogAssumption DEF LogInv, LogTypes
<1>8. /\ log' \in Writables /\ log'.file = log.file
      /\ log'.buffer.data = log.buffer.data \o Serialized(NextEntry)
      /\ Len(log'.buffer.data) <= Capacity
  BY <1>1, <1>6, <1>7, AppendToIs
<1> QED BY <1>1, <1>2, <1>3, <1>4, <1>5, <1>8
LEMMA BatchSame ==
    ASSUME BatchInv, UNCHANGED batchVars
    PROVE  BatchInv'
BY DEF BatchInv, BatchTypeOK, Keeps, LastUpTo, NoneUpTo, batchVars

\* The entry is behind those in the buffer, and the file has the same ones.
LEMMA LogEntryWritten ==
    ASSUME LogInv, LogEntry
    PROVE  \E o, m, q : Written(o, m) /\ Written(q, m)'
<1> DEFINE e == NextEntry
           s == Serialized(e)
<1>1. UNCHANGED returned
  BY DEF LogEntry
<1>2. /\ Up /\ e \in Items /\ sent' = Append(sent, e)
      /\ log'.file = log.file /\ log'.buffer.data = log.buffer.data \o s
  BY LogEntryFacts
<1>3. /\ log.file \in Seq(LogCell) /\ log.buffer.data \in Seq(LogCell)
      /\ sent \in Seq(Items) /\ s \in Seq(LogCell)
  BY <1>2, UpFacts, SizeOfIs
<1> HIDE DEF e, s
<1>4. Len(sent') = Len(sent) + 1 /\ Len(sent) \in Nat
  BY <1>2, <1>3, AppendProperties, LenProperties
<1>5. PICK o, m : Written(o, m)
  BY <1>2, UpFacts
<1> DEFINE f == log.file
           d == log.buffer.data
           T == f \o d
<1>6. T \in Seq(LogCell) /\ log'.file \o log'.buffer.data = T \o s
  <2>1. f \in Seq(LogCell) /\ d \in Seq(LogCell) /\ s \in Seq(LogCell)
    BY <1>3
  <2>2. log'.file \o log'.buffer.data = f \o (d \o s)
    BY <1>2
  <2> HIDE DEF f, d
  <2>3. f \o (d \o s) = (f \o d) \o s
    BY <2>1, ConcatAssociative, SMTT(30)
  <2>4. f \o d \in Seq(LogCell)
    BY <2>1, ConcatProperties
  <2> QED BY <2>2, <2>3, <2>4
<1>7. Frame(T, sent, o) /\ m \in 0 .. Len(sent) /\ returned <= m /\ Len(log.file) = o[m]
  BY <1>5 DEF Written
<1> HIDE DEF T
<1>8. PICK q : Frame(T \o s, Append(sent, e), q) /\ \A i \in 0 .. Len(sent) : q[i] = o[i]
  BY <1>2, <1>3, <1>6, <1>7, FrameAppend DEF s
<1>9. m \in 0 .. Len(sent') /\ q[m] = o[m]
  BY <1>4, <1>7, <1>8
<1>10. Written(q, m)'
  BY <1>1, <1>2, <1>6, <1>7, <1>8, <1>9 DEF Written
<1> QED BY <1>5, <1>10

LEMMA LogEntryInv == LogInv /\ LogEntry => LogInv'
<1> SUFFICES ASSUME LogInv, LogEntry PROVE LogInv'
  OBVIOUS
<1>1. /\ stage = "logging" /\ cursor' = cursor + 1
      /\ UNCHANGED <<batchVars, stage, nextSeq, returned, cut, recovered>>
  BY DEF LogEntry
<1>2. /\ Up /\ Up' /\ cursor + 1 \in 1 .. Len(entries)
      /\ NextEntry \in Logged /\ sent' = Append(sent, NextEntry)
      /\ log' \in Writables /\ Len(log'.buffer.data) <= Capacity
  BY LogEntryFacts
<1>3. sent \in Seq(Logged)
  BY <1>2, UpFacts
<1>4. sent' \in Seq(Logged) /\ Len(sent') = Len(sent) + 1 /\ Len(sent) \in Nat
  BY <1>2, <1>3, AppendProperties, LenProperties
<1>5. BatchInv'
  BY <1>1, BatchSame DEF LogInv
<1>6. LogTypes'
  <2>1. cursor' \in 0 .. Len(entries') /\ stage' \in Stages /\ nextSeq' \in Nat /\ cut' \in BOOLEAN
    BY <1>1, <1>2 DEF LogInv, LogTypes, batchVars
  <2>2. returned' \in 0 .. Len(sent')
    BY <1>1, <1>4 DEF LogInv, LogTypes
  <2> QED BY <1>2, <1>4, <2>1, <2>2 DEF LogTypes
<1>7. NumbersInv'
  BY <1>1 DEF LogInv, NumbersInv, Up, batchVars
<1>8. BytesInv'
  BY <1>2, LogEntryWritten DEF BytesInv
<1>9. RecoveredInv'
  BY <1>1, <1>2, NothingRecovered DEF LogInv
<1> QED BY <1>5, <1>6, <1>7, <1>8, <1>9 DEF LogInv

\* The client starts another batch.
LEMMA InsertOverFacts ==
    ASSUME LogInv, InsertOver
    PROVE  BatchInv' /\ entries' = <<>> /\ ~numbered' /\ Up' /\ cursor' = 0 /\ NumbersInv'
           /\ stage' \in Stages /\ cursor' \in 0 .. Len(entries')
<1>1. stage' = "open" /\ cursor' = 0 /\ NewBatch
  BY DEF InsertOver
<1>2. BatchInv' /\ entries' = <<>> /\ ~numbered'
  BY <1>1, NewBatchInv DEF NewBatch
<1>3. NumbersInv' /\ Up'
  BY <1>1, <1>2 DEF NumbersInv, Up
<1>4. 0 \in 0 .. Len(<<>>)
  OBVIOUS
<1> QED BY <1>1, <1>2, <1>3, <1>4 DEF Stages

LEMMA ThrowInv == LogInv /\ Throw => LogInv'
<1> SUFFICES ASSUME LogInv, Throw PROVE LogInv'
  OBVIOUS
<1>1. stage = "logging" /\ InsertOver /\ UNCHANGED <<log, nextSeq, sent, returned, cut, recovered>>
  BY DEF Throw
<1>2. /\ BatchInv' /\ NumbersInv' /\ Up' /\ stage' \in Stages
      /\ cursor' \in 0 .. Len(entries')
  BY <1>1, InsertOverFacts
<1>3. LogTypes'
  BY <1>1, <1>2 DEF LogInv, LogTypes
<1>4. Up
  BY <1>1 DEF Up
<1>5. BytesInv'
  BY <1>1, <1>2, <1>4, BytesSame DEF LogInv
<1>6. RecoveredInv'
  BY <1>1, <1>2, <1>4, NothingRecovered DEF LogInv
<1> QED BY <1>2, <1>3, <1>5, <1>6 DEF LogInv

LEMMA EndInsertInv == LogInv /\ EndInsert => LogInv'
<1> SUFFICES ASSUME LogInv, EndInsert PROVE LogInv'
  OBVIOUS
<1>1. /\ stage = "logging" /\ ~MustFlush /\ AllSerialized /\ InsertOver
      /\ returned' = Len(sent) /\ UNCHANGED <<log, nextSeq, sent, cut, recovered>>
  BY DEF EndInsert
<1>2. /\ BatchInv' /\ NumbersInv' /\ Up' /\ stage' \in Stages
      /\ cursor' \in 0 .. Len(entries')
  BY <1>1, InsertOverFacts
<1>3. Up /\ log.buffer.data = <<>>
  BY <1>1 DEF Up, MustFlush, FlushIsDue, NextFits
<1>4. /\ log.file \in Seq(LogCell) /\ log.buffer.data \in Seq(LogCell)
      /\ sent \in Seq(Items) /\ Len(sent) \in Nat
  BY <1>3, UpFacts, LenProperties
<1>5. LogTypes'
  <2>1. returned' \in 0 .. Len(sent')
    BY <1>1, <1>4
  <2> QED BY <1>1, <1>2, <2>1 DEF LogInv, LogTypes
<1>6. BytesInv'
  <2>1. PICK o, m : Written(o, m)
    BY <1>3, UpFacts
  <2>2. o[m] = o[Len(sent)]
    <3>1. log.file \o log.buffer.data = log.file
      BY <1>3, <1>4, ConcatEmptySeq
    <3> QED BY <2>1, <3>1 DEF Written, Frame
  <2>3. Len(sent) \in 0 .. Len(sent) /\ Len(sent) <= Len(sent)
    BY <1>4
  <2>4. Written(o, Len(sent))'
    BY <1>1, <2>1, <2>2, <2>3 DEF Written
  <2> QED BY <1>2, <2>4 DEF BytesInv
<1>7. RecoveredInv'
  BY <1>1, <1>2, <1>3, NothingRecovered DEF LogInv
<1> QED BY <1>2, <1>5, <1>6, <1>7 DEF LogInv

\* The first n cells of the buffer are in the file.
LEMMA PartWritten ==
    ASSUME NEW f \in Seq(LogCell), NEW d \in Seq(LogCell), NEW n \in 0 .. Len(d)
    PROVE  /\ f \o SubSeq(d, 1, n) = SubSeq(f \o d, 1, Len(f) + n)
           /\ f \o SubSeq(d, 1, n) \in Seq(LogCell)
<1>1. SubSeq(d, 1, n) \in Seq(LogCell)
  OBVIOUS
<1>2. f \o SubSeq(d, 1, n) \in Seq(LogCell)
  BY <1>1, ConcatProperties
<1>3. f \o SubSeq(d, 1, n) = SubSeq(f \o d, 1, Len(f) + n)
  OBVIOUS
<1> QED BY <1>2, <1>3

\* What a crash leaves, and where it cuts.
LEMMA CrashFacts ==
    ASSUME LogInv, Crash
    PROVE  /\ Up /\ ~Up' /\ log' \in Writables /\ log'.buffer.data = <<>>
           /\ cut' \in BOOLEAN
           /\ \E T, o, m, b, x :
                 /\ Written(o, m) /\ KeptUpTo(T, o, b, x)' /\ T = log.file \o log.buffer.data
                 /\ m <= b
<1>1. PICK n \in IF MustFlush THEN 0 .. Len(log.buffer.data) ELSE {0} :
         /\ log' = NewWritable(Capacity, log.file \o SubSeq(log.buffer.data, 1, n))
         /\ cut' = (n \notin {0, Len(log.buffer.data)})
  BY DEF Crash
<1>2. Up /\ ~Up' /\ UNCHANGED <<sent, returned>>
  BY DEF Crash, Up
<1> DEFINE f == log.file
           d == log.buffer.data
<1>3. PICK T : T = f \o d
  OBVIOUS
<1>4. PICK x : x = Len(f) + n
  OBVIOUS
<1>5. f \in Seq(LogCell) /\ d \in Seq(LogCell) /\ sent \in Seq(Items) /\ Len(f) \in Nat /\ Len(d) \in Nat
  BY <1>2, UpFacts, LenProperties
<1>6. n \in 0 .. Len(d)
  BY <1>1, <1>5
<1>7. Joined(T, f, d, LogCell)
  BY <1>5, <1>3, ConcatIs
<1>8. f \o SubSeq(d, 1, n) = SubSeq(T, 1, x) /\ f \o SubSeq(d, 1, n) \in Seq(LogCell)
  BY <1>5, <1>6, <1>3, <1>4, PartWritten
<1>9. /\ log' \in Writables /\ log'.file = SubSeq(T, 1, x) /\ log'.buffer.data = <<>>
  BY <1>1, <1>8, NewWritableIs
<1>10. cut' <=> n # 0 /\ n # Len(d)
  BY <1>1
<1> HIDE DEF f, d
<1>11. T \in Seq(LogCell) /\ Len(T) = Len(f) + Len(d) /\ x \in 0 .. Len(T)
  BY <1>5, <1>6, <1>7, <1>4 DEF Joined
<1>12. PICK o, m : Written(o, m)
  BY <1>2, UpFacts
<1>13. Frame(T, sent, o) /\ m \in 0 .. Len(sent) /\ returned <= m /\ o[m] = Len(f)
  BY <1>12, <1>3 DEF Written, f, d
<1>14. PICK b : Inside(T, sent, o, b, x) /\ \A i \in 0 .. Len(sent) : o[i] <= x => i <= b
  BY <1>5, <1>11, <1>13, CutPoint
<1>15. /\ b \in 0 .. Len(sent) /\ x \in o[b] .. Len(T)
       /\ o \in [0 .. Len(sent) -> Nat] /\ o[Len(sent)] = Len(T) /\ Len(sent) \in Nat
       /\ \A i, j \in 0 .. Len(sent) : i <= j => o[i] <= o[j]
  BY <1>5, <1>13, <1>14 DEF Inside, Frame
<1>16. m <= b
  <2>1. o[m] <= x
    BY <1>5, <1>6, <1>13, <1>4
  <2> QED BY <1>13, <1>14, <2>1
<1>17. ASSUME ~cut' PROVE x = o[b]
  <2> DEFINE B == o[b]
  <2>1. B \in Nat /\ B <= x /\ x \in Nat
    BY <1>11, <1>15
  <2>2. CASE n = 0
    <3>1. o[m] <= o[b] /\ x = o[m]
      BY <1>5, <1>13, <1>15, <1>16, <1>4, <2>2
    <3>2. x <= B
      BY <3>1
    <3> HIDE DEF B
    <3>3. x = B
      BY <2>1, <3>2
    <3> QED BY <3>3 DEF B
  <2>3. CASE n = Len(d)
    <3>1. x = Len(T) /\ Len(sent) \in 0 .. Len(sent)
      BY <1>11, <1>15, <1>4, <2>3
    <3>2. o[Len(sent)] <= x
      BY <1>11, <1>15, <3>1
    <3>3. Len(sent) <= b
      BY <1>14, <3>1, <3>2
    <3>4. b = Len(sent)
      BY <1>15, <3>3
    <3> QED BY <1>15, <3>1, <3>4
  <2> QED BY <1>10, <1>17, <2>2, <2>3
<1>18. returned <= b
  <2>1. returned \in Nat /\ m \in Nat /\ b \in Nat
    BY <1>13, <1>15 DEF LogInv, LogTypes
  <2> QED BY <1>13, <1>16, <2>1
<1>19. KeptUpTo(T, o, b, x)'
  BY <1>2, <1>9, <1>11, <1>13, <1>14, <1>17, <1>18 DEF KeptUpTo
<1> QED BY <1>2, <1>9, <1>10, <1>12, <1>16, <1>19, <1>3 DEF f, d

LEMMA CrashInv == LogInv /\ Crash => LogInv'
<1> SUFFICES ASSUME LogInv, Crash PROVE LogInv'
  OBVIOUS
<1>1. /\ stage' = "down" /\ cursor' = 0 /\ NewBatch
      /\ UNCHANGED <<nextSeq, sent, returned, recovered>>
  BY DEF Crash
<1>2. /\ Up /\ ~Up' /\ log' \in Writables /\ log'.buffer.data = <<>> /\ cut' \in BOOLEAN
      /\ \E T, o, b, x : KeptUpTo(T, o, b, x)'
  BY CrashFacts
<1>3. BatchInv' /\ entries' = <<>> /\ ~numbered'
  BY <1>1, NewBatchInv DEF NewBatch
<1>4. LogTypes'
  <2>1. 0 \in 0 .. Len(<<>>) /\ Len(<<>>) <= Capacity
    BY LogAssumption
  <2> QED BY <1>1, <1>2, <1>3, <2>1 DEF LogInv, LogTypes, Stages
<1>5. NumbersInv'
  BY <1>1, <1>3 DEF NumbersInv, Up
<1>6. BytesInv'
  BY <1>2 DEF BytesInv
<1>7. RecoveredInv'
  BY <1>1, <1>2 DEF LogInv, RecoveredInv, Up
<1> QED BY <1>3, <1>4, <1>5, <1>6, <1>7 DEF LogInv

LEMMA OverreadIs ==
    ASSUME NEW t, NEW e \in Overread(t)
    PROVE  e.value \in {Garbled, Tomb}
BY DEF Overread, Record

LEMMA DownSame ==
    ASSUME LogInv, stage = "down", stage' \in {"recovered", "aborted"},
           UNCHANGED <<batchVars, log, nextSeq, cursor, sent, returned, cut>>
    PROVE  BatchInv' /\ LogTypes' /\ NumbersInv' /\ BytesInv'
<1>1. ~Up /\ ~Up'
  BY DEF Up
<1>2. BatchInv'
  BY BatchSame DEF LogInv
<1>3. LogTypes'
  BY DEF LogInv, LogTypes, batchVars, Stages
<1>4. NumbersInv'
  BY <1>1 DEF LogInv, NumbersInv, batchVars, Up
<1>5. BytesInv'
  BY <1>1, BytesSame DEF LogInv
<1> QED BY <1>2, <1>3, <1>4, <1>5

LEMMA RecoverInv == LogInv /\ Recover => LogInv'
<1> SUFFICES ASSUME LogInv, Recover PROVE LogInv'
  OBVIOUS
<1>1. /\ stage = "down" /\ stage' = "recovered"
      /\ UNCHANGED <<batchVars, log, nextSeq, cursor, sent, returned, cut>>
  BY DEF Recover
<1>2. BatchInv' /\ LogTypes' /\ NumbersInv' /\ BytesInv'
  BY <1>1, DownSame
<1>3. RecoveredIs'
  BY <1>1, OverreadIs DEF Recover, RecoveredIs
<1>4. RecoveredInv'
  BY <1>1, <1>3 DEF RecoveredInv
<1> QED BY <1>2, <1>4 DEF LogInv

LEMMA AbortInv == LogInv /\ Abort => LogInv'
<1> SUFFICES ASSUME LogInv, Abort PROVE LogInv'
  OBVIOUS
<1>1. /\ stage = "down" /\ stage' = "aborted"
      /\ ~Parsable(EntriesFrom(log.file)) \/ Torn(log.file)
      /\ UNCHANGED <<batchVars, log, nextSeq, cursor, sent, returned, cut, recovered>>
  BY DEF Abort
<1>2. BatchInv' /\ LogTypes' /\ NumbersInv' /\ BytesInv'
  BY <1>1, DownSame
<1>3. RecoveredInv'
  BY <1>1 DEF LogInv, RecoveredInv
<1> QED BY <1>2, <1>3 DEF LogInv

LEMMA TruncateInv == LogInv /\ Truncate => LogInv'
<1> SUFFICES ASSUME LogInv, Truncate PROVE LogInv'
  OBVIOUS
<1>1. /\ stage = "recovered" /\ stage' = "open" /\ log' = NewWritable(Capacity, <<>>)
      /\ sent' = <<>> /\ returned' = 0 /\ cut' = FALSE /\ recovered' = <<>>
      /\ UNCHANGED <<batchVars, nextSeq, cursor>>
  BY DEF Truncate
<1>2. <<>> \in Seq(LogCell) /\ <<>> \in Seq(Logged) /\ Len(<<>>) = 0 /\ Capacity \in Nat
  BY EmptySeq, LogAssumption
<1>3. log' \in Writables /\ log'.file = <<>> /\ log'.buffer.data = <<>>
  BY <1>1, <1>2, NewWritableIs
<1>4. BatchInv'
  BY <1>1, BatchSame DEF LogInv
<1>5. LogTypes'
  <2>1. 0 \in 0 .. Len(<<>>) /\ Len(<<>>) <= Capacity /\ FALSE \in BOOLEAN
    BY <1>2
  <2> QED BY <1>1, <1>2, <1>3, <2>1 DEF LogInv, LogTypes, Stages, batchVars
<1>6. NumbersInv'
  BY <1>1 DEF LogInv, NumbersInv, Up, batchVars
<1>7. BytesInv'
  <2>1. PICK o : Frame(<<>>, <<>>, o)
    BY FrameEmpty
  <2>2. <<>> \o <<>> = <<>>
    BY <1>2, ConcatEmptySeq
  <2>3. o[0] = 0 /\ 0 \in 0 .. Len(<<>>) /\ 0 <= 0
    BY <2>1 DEF Frame
  <2>4. Written(o, 0)'
    BY <1>1, <1>2, <1>3, <2>1, <2>2, <2>3 DEF Written
  <2>5. Up'
    BY <1>1 DEF Up
  <2> QED BY <2>4, <2>5 DEF BytesInv
<1>8. RecoveredInv'
  BY <1>1 DEF RecoveredInv
<1> QED BY <1>4, <1>5, <1>6, <1>7, <1>8 DEF LogInv

LEMMA LogStutters == LogInv /\ UNCHANGED logVars => LogInv'
<1> SUFFICES ASSUME LogInv, UNCHANGED logVars PROVE LogInv'
  OBVIOUS
<1>1. UNCHANGED <<batchVars, log, stage, nextSeq, cursor, sent, returned, cut, recovered>>
  BY DEF logVars, logFileVars
<1>2. BatchInv'
  BY <1>1, BatchSame DEF LogInv
<1>3. LogTypes' /\ NumbersInv'
  BY <1>1 DEF LogInv, LogTypes, NumbersInv, batchVars, Up
<1>4. BytesInv'
  BY <1>1, BytesSame DEF LogInv, Up
<1>5. RecoveredInv'
  BY <1>1 DEF LogInv, RecoveredInv, RecoveredIs
<1> QED BY <1>2, <1>3, <1>4, <1>5 DEF LogInv

LEMMA LogInvStep == LogInv /\ [LogFileNext]_logVars => LogInv'
<1> SUFFICES ASSUME LogInv, [LogFileNext]_logVars PROVE LogInv'
  OBVIOUS
<1>1. CASE Fill
  BY <1>1, FillInv
<1>2. CASE Insert
  BY <1>2, InsertInv
<1>3. CASE Flush
  BY <1>3, FlushInv
<1>4. CASE LogEntry
  BY <1>4, LogEntryInv
<1>5. CASE Throw
  BY <1>5, ThrowInv
<1>6. CASE EndInsert
  BY <1>6, EndInsertInv
<1>7. CASE Crash
  BY <1>7, CrashInv
<1>8. CASE Recover
  BY <1>8, RecoverInv
<1>9. CASE Abort
  BY <1>9, AbortInv
<1>10. CASE Truncate
  BY <1>10, TruncateInv
<1>11. CASE UNCHANGED logVars
  BY <1>11, LogStutters
<1> QED
  BY <1>1, <1>2, <1>3, <1>4, <1>5, <1>6, <1>7, <1>8, <1>9, <1>10, <1>11 DEF LogFileNext

(***************************************************************************)
(* What the invariant says                                                 *)
(***************************************************************************)
\* What is parsed of the file after a crash.
LEMMA KeptParses ==
    ASSUME LogInv, NEW T, NEW o, NEW b, NEW x, KeptUpTo(T, o, b, x)
    PROVE  /\ EntriesFrom(log.file) = SubSeq(AsRead(sent), 1, b)
           /\ b \in 0 .. Len(sent) /\ returned <= b
           /\ Torn(log.file) => cut
<1>1. /\ T \in Seq(LogCell) /\ Frame(T, sent, o) /\ Inside(T, sent, o, b, x) /\ returned <= b
      /\ log.file = SubSeq(T, 1, x) /\ (x # o[b] => cut)
  BY DEF KeptUpTo
<1>2. sent \in Seq(Items)
  BY LoggedAreItems DEF LogInv, LogTypes
<1>3. b \in 0 .. Len(sent) /\ x \in o[b] .. Len(T) /\ 0 \in 0 .. Len(sent) /\ 0 <= b
      /\ Len(T) \in Nat
  BY <1>1, <1>2 DEF Inside
<1>4. o[0] = 0 /\ o[b] \in Nat
  BY <1>1, <1>3 DEF Frame
<1>5. /\ EntriesFrom(SubSeq(T, o[0] + 1, x)) = SubSeq(AsRead(sent), 0 + 1, b)
      /\ TornTail(SubSeq(T, o[0] + 1, x)) = SubSeq(T, o[b] + 1, x)
  BY <1>1, <1>2, <1>3, ParsingIs
<1>6. EntriesFrom(log.file) = SubSeq(AsRead(sent), 1, b) /\ TornTail(log.file) = SubSeq(T, o[b] + 1, x)
  BY <1>1, <1>4, <1>5
<1>7. ASSUME ~cut PROVE ~Torn(log.file)
  <2>1. x = o[b] /\ x \in Nat
    BY <1>1, <1>4, <1>7
  <2>2. TornTail(log.file) = SubSeq(T, x + 1, x)
    BY <1>6, <2>1
  <2>3. SubSeq(T, x + 1, x) = <<>>
    BY <2>1, SubSeqEmpty
  <2> QED BY <2>2, <2>3 DEF Torn
<1> QED BY <1>1, <1>3, <1>6, <1>7

LEMMA DownParses ==
    ASSUME LogInv, ~Up
    PROVE  \E b : /\ EntriesFrom(log.file) = SubSeq(AsRead(sent), 1, b)
                  /\ b \in 0 .. Len(sent) /\ returned <= b
                  /\ Torn(log.file) => cut
<1>1. PICK T, o, b, x : KeptUpTo(T, o, b, x)
  BY DEF LogInv, BytesInv
<1> QED BY <1>1, KeptParses

\* What recover returns: the first b of the entries, and one more of a torn file.
RecoveredWith(b) ==
    /\ b \in 0 .. Len(sent) /\ returned <= b
    /\ Torn(log.file) => cut
    /\ \E S : recovered \in Seq(S)
    /\ Len(recovered) = IF Torn(log.file) THEN b + 1 ELSE b
    /\ \A i \in 1 .. b : recovered[i] = AsRead(sent)[i]
    /\ \A i \in 1 .. Len(recovered) : recovered[i].value \in Value \cup {Tomb, Garbled}

LEMMA AllAsRead ==
    ASSUME LogInv
    PROVE  /\ sent \in Seq(Items) /\ AsRead(sent) \in Seq(Items)
           /\ Len(AsRead(sent)) = Len(sent) /\ Len(sent) \in Nat
<1>1. sent \in Seq(Items)
  BY LoggedAreItems DEF LogInv, LogTypes
<1> QED BY <1>1, AsReadIs, LenProperties

LEMMA RecoveredFacts ==
    ASSUME LogInv, stage = "recovered"
    PROVE  \E b : RecoveredWith(b)
<1>1. PICK b : /\ EntriesFrom(log.file) = SubSeq(AsRead(sent), 1, b)
               /\ b \in 0 .. Len(sent) /\ returned <= b
               /\ Torn(log.file) => cut
  BY DownParses DEF Up
<1> DEFINE p == EntriesFrom(log.file)
           all == AsRead(sent)
<1>2. p = SubSeq(all, 1, b)
  BY <1>1
<1>3. all \in Seq(Items) /\ Len(all) = Len(sent) /\ Len(sent) \in Nat
  BY AllAsRead
<1>4. RecoveredIs
  BY DEF LogInv, RecoveredInv
<1> HIDE DEF all
<1>5. p \in Seq(Items) /\ Len(p) = b /\ (\A i \in 1 .. b : p[i] = all[i]) /\ b \in Nat
  <2> HIDE DEF p
  <2> QED BY <1>1, <1>2, <1>3
<1>6. \A i \in 1 .. b : p[i].value \in Value \cup {Tomb}
  <2> HIDE DEF p
  <2>1. \A i \in 1 .. b : p[i] \in Items
    BY <1>5
  <2> QED BY <2>1 DEF Items
<1>7. CASE ~Torn(log.file)
  <2>1. recovered = p
    BY <1>4, <1>7 DEF RecoveredIs
  <2> HIDE DEF p
  <2> QED BY <1>1, <1>5, <1>6, <1>7, <2>1 DEF RecoveredWith, all
<1>8. CASE Torn(log.file)
  <2>1. PICK e : e.value \in {Garbled, Tomb} /\ recovered = Append(p, e)
    BY <1>4, <1>8 DEF RecoveredIs
  <2> HIDE DEF p
  <2> DEFINE S == Items \cup {e}
  <2>2. p \in Seq(S) /\ e \in S
    <3>1. Items \subseteq S
      OBVIOUS
    <3> HIDE DEF S
    <3> QED BY <1>5, <3>1, SeqMonotonic DEF S
  <2> HIDE DEF S
  <2>3. /\ recovered \in Seq(S) /\ Len(recovered) = b + 1 /\ recovered[b + 1] = e
        /\ \A i \in 1 .. b : recovered[i] = p[i]
    BY <1>5, <2>1, <2>2
  <2>4. \A i \in 1 .. Len(recovered) : recovered[i].value \in Value \cup {Tomb, Garbled}
    BY <1>5, <1>6, <2>1, <2>3
  <2> QED BY <1>1, <1>5, <1>8, <2>3, <2>4 DEF RecoveredWith, all
<1> QED BY <1>7, <1>8

LEMMA LogInvTypes == LogInv => LogTypeOK
<1> SUFFICES ASSUME LogInv PROVE LogTypeOK
  OBVIOUS
<1>1. log.buffer.capa = Capacity
  BY DEF LogInv, LogTypes, Writables
<1>2. ASSUME NEW r \in Range(recovered) PROVE r.value \in Value \cup {Tomb, Garbled}
  <2>1. CASE stage = "recovered"
    <3>1. PICK b : RecoveredWith(b)
      BY <2>1, RecoveredFacts
    <3>2. PICK i \in 1 .. Len(recovered) : r = recovered[i]
      BY <1>2, <3>1 DEF RecoveredWith, Range
    <3> QED BY <3>1, <3>2 DEF RecoveredWith
  <2>2. CASE stage # "recovered"
    <3>1. recovered = <<>>
      BY <2>2 DEF LogInv, RecoveredInv
    <3> QED BY <1>2, <3>1 DEF Range
  <2> QED BY <2>1, <2>2
<1> QED BY <1>1, <1>2 DEF LogInv, LogTypes, LogTypeOK

LEMMA PrefixIs ==
    ASSUME NEW S, NEW s \in Seq(S), NEW R, NEW t \in Seq(R), Len(s) <= Len(t),
           \A i \in 1 .. Len(s) : s[i] = t[i]
    PROVE  IsPrefix(s, t)
<1>1. Len(s) \in Nat /\ SubSeq(s, 1, Len(s)) = s
  BY LenProperties, SubSeqFull
<1>2. SubSeq(t, 1, Len(s)) = s
  OBVIOUS
<1> QED BY <1>1, <1>2 DEF IsPrefix

LEMMA LogInvRecovers == LogInv => RecoveredAsLogged
<1> SUFFICES ASSUME LogInv, stage = "recovered"
             PROVE  LET logged == AsRead(sent)
                        parsed == IF Torn(log.file) THEN Front(recovered) ELSE recovered
                    IN  /\ Torn(log.file) => cut
                        /\ IsPrefix(SubSeq(logged, 1, returned), recovered)
                        /\ IsPrefix(parsed, logged)
  BY DEF RecoveredAsLogged
<1> DEFINE all == AsRead(sent)
           parsed == IF Torn(log.file) THEN Front(recovered) ELSE recovered
<1>1. PICK b : RecoveredWith(b)
  BY RecoveredFacts
<1>2. PICK S : recovered \in Seq(S)
  BY <1>1 DEF RecoveredWith
<1>3. /\ b \in 0 .. Len(sent) /\ returned <= b /\ (Torn(log.file) => cut)
      /\ Len(recovered) = IF Torn(log.file) THEN b + 1 ELSE b
      /\ \A i \in 1 .. b : recovered[i] = all[i]
  BY <1>1 DEF RecoveredWith
<1>4. all \in Seq(Items) /\ Len(all) = Len(sent) /\ Len(sent) \in Nat
  BY AllAsRead
<1>5. returned \in 0 .. Len(sent)
  BY DEF LogInv, LogTypes
<1> HIDE DEF all
<1>6. IsPrefix(SubSeq(all, 1, returned), recovered)
  <2> DEFINE s == SubSeq(all, 1, returned)
  <2>1. s \in Seq(Items) /\ Len(s) = returned /\ \A i \in 1 .. returned : s[i] = all[i]
    BY <1>4, <1>5
  <2> HIDE DEF s
  <2>2. Len(s) <= Len(recovered) /\ \A i \in 1 .. Len(s) : s[i] = recovered[i]
    BY <1>3, <1>4, <1>5, <2>1
  <2>3. IsPrefix(s, recovered)
    BY <1>2, <2>1, <2>2, PrefixIs
  <2> QED BY <2>3 DEF s
<1>7. parsed \in Seq(S) /\ Len(parsed) = b /\ \A i \in 1 .. b : parsed[i] = recovered[i]
  BY <1>2, <1>3, <1>4 DEF Front
<1>8. IsPrefix(parsed, all)
  <2> HIDE DEF parsed
  <2>1. Len(parsed) <= Len(all) /\ \A i \in 1 .. Len(parsed) : parsed[i] = all[i]
    BY <1>3, <1>4, <1>7
  <2> QED BY <1>4, <1>7, <2>1, PrefixIs
<1> QED BY <1>3, <1>6, <1>8 DEF all

LEMMA LogInvOpens == LogInv => OpensAgain
<1> SUFFICES ASSUME LogInv, stage = "aborted", ~cut
             PROVE  \E i \in DOMAIN sent : sent[i].key = NoKey
  BY DEF OpensAgain
<1>1. PICK b : /\ EntriesFrom(log.file) = SubSeq(AsRead(sent), 1, b)
               /\ b \in 0 .. Len(sent) /\ (Torn(log.file) => cut)
  BY DownParses DEF Up
<1>2. ~Parsable(EntriesFrom(log.file))
  BY <1>1 DEF LogInv, RecoveredInv
<1>3. /\ sent \in Seq(Items) /\ AsRead(sent) \in Seq(Items)
      /\ Len(AsRead(sent)) = Len(sent) /\ Len(sent) \in Nat
  BY AllAsRead
<1> DEFINE all == AsRead(sent)
           p == SubSeq(all, 1, b)
<1>4. PICK i \in DOMAIN p : p[i].key = NoKey
  BY <1>1, <1>2 DEF Parsable
<1> HIDE DEF all
<1>5. all \in Seq(Items) /\ Len(all) = Len(sent)
  BY <1>3 DEF all
<1>6. i \in 1 .. b /\ p[i] = all[i]
  BY <1>1, <1>3, <1>5
<1>7. i \in 1 .. Len(sent) /\ all[i] = ReadEntry(sent[i])
  BY <1>1, <1>3, <1>6, AsReadIs DEF all
<1>8. sent[i].key = NoKey
  <2>1. sent[i] \in Items
    BY <1>3, <1>7
  <2> QED BY <1>4, <1>6, <1>7, <2>1, ReadEntryIs
<1> QED BY <1>3, <1>7, <1>8
(***************************************************************************)
(* The log of entries                                                      *)
(***************************************************************************)
LEMMA NothingParsed == EntriesFrom(<<>>) = <<>>
<1>1. <<>> \in Seq(LogCell) /\ Len(<<>>) = 0
  BY EmptySeq
<1>2. PICK from : Parses(from, <<>>) /\ EntriesFrom(<<>>) = from[1]
  BY <1>1, EntriesFromIs
<1>3. 1 \in 1 .. Len(<<>>) + 1 /\ ~WholeAt(<<>>, 1)
  BY <1>1 DEF WholeAt
<1>4. from[1] = <<>>
  BY <1>2, <1>3 DEF Parses
<1> QED BY <1>2, <1>4

\* What is durable and what is pending, while the process runs.
LEMMA UpParses ==
    ASSUME LogInv, Up, NEW o, NEW m, Written(o, m)
    PROVE  /\ EntriesFrom(log.file) = SubSeq(AsRead(sent), 1, m)
           /\ EntriesFrom(log.buffer.data) = SubSeq(AsRead(sent), m + 1, Len(sent))
           /\ EntriesFrom(log.file \o log.buffer.data) = AsRead(sent)
           /\ m \in 0 .. Len(sent)
<1> DEFINE f == log.file
           d == log.buffer.data
<1>1. f \in Seq(LogCell) /\ d \in Seq(LogCell) /\ sent \in Seq(Items)
  BY UpFacts
<1>2. Frame(f \o d, sent, o) /\ m \in 0 .. Len(sent) /\ Len(f) = o[m]
  BY DEF Written
<1> HIDE DEF f, d
<1>3. /\ EntriesFrom(f) = SubSeq(AsRead(sent), 1, m)
      /\ EntriesFrom(d) = SubSeq(AsRead(sent), m + 1, Len(sent))
      /\ EntriesFrom(f \o d) = AsRead(sent)
  BY <1>1, <1>2, WrittenParses
<1> QED BY <1>2, <1>3 DEF f, d

PendingParses ==
    \A o, m :
        LogInv /\ Up /\ Written(o, m) =>
            EntriesFrom(log.buffer.data) = SubSeq(AsRead(sent), m + 1, Len(sent))

LEMMA PendingIs == PendingParses
BY UpParses DEF PendingParses

LEMMA InitIsLog == LogFileInit => EntryLog!LogInit
<1> SUFFICES ASSUME LogFileInit PROVE EntryLog!LogInit
  OBVIOUS
<1>1. <<>> \in Seq(LogCell)
  BY EmptySeq
<1>2. log.file = <<>> /\ log.buffer.data = <<>>
  BY <1>1, NewWritableIs DEF LogFileInit
<1> QED BY <1>2, NothingParsed DEF EntryLog!LogInit

LEMMA FlushPersists == LogInv /\ Flush => EntryLog!Persist
<1> SUFFICES ASSUME LogInv, Flush PROVE EntryLog!Persist
  OBVIOUS
<1>1. stage = "logging" /\ log' = FlushValid(log)
  BY DEF Flush, MustFlush
<1>2. Up
  BY <1>1 DEF Up
<1>3. log'.file = log.file \o log.buffer.data /\ log'.buffer.data = <<>>
  BY <1>1, <1>2, UpFacts, FlushValidIs
<1>4. PICK o, m : Written(o, m)
  BY <1>2, UpFacts
<1>5. /\ EntriesFrom(log.file) = SubSeq(AsRead(sent), 1, m)
      /\ EntriesFrom(log.buffer.data) = SubSeq(AsRead(sent), m + 1, Len(sent))
      /\ EntriesFrom(log'.file) = AsRead(sent)
      /\ m \in 0 .. Len(sent)
  BY <1>2, <1>3, <1>4, UpParses
<1> DEFINE all == AsRead(sent)
<1>6. all \in Seq(Items) /\ Len(all) = Len(sent) /\ Len(sent) \in Nat
  BY AllAsRead
<1> HIDE DEF all
<1>7. SubSeq(all, 1, m) \o SubSeq(all, m + 1, Len(sent)) = all
  <2> DEFINE n == Len(sent)
  <2>1. all \in Seq(Items) /\ Len(all) = n /\ n \in Nat /\ m \in 0 .. n
    BY <1>5, <1>6
  <2> HIDE DEF n
  <2>2. 1 \in 1 .. Len(all) + 1 /\ m \in (1 - 1) .. Len(all) /\ n \in m .. Len(all)
    BY <2>1
  <2>3. SubSeq(all, 1, m) \o SubSeq(all, m + 1, n) = SubSeq(all, 1, n)
    BY <2>1, <2>2, ConcatAdjacentSubSeq
  <2>4. SubSeq(all, 1, n) = all
    BY <2>1, SubSeqFull
  <2> QED BY <2>3, <2>4 DEF n
<1>8. EntriesFrom(log'.file) = EntriesFrom(log.file) \o EntriesFrom(log.buffer.data)
  BY <1>5, <1>7 DEF all
<1>9. EntriesFrom(log'.buffer.data) = <<>>
  BY <1>3, NothingParsed
<1> QED BY <1>8, <1>9 DEF EntryLog!Persist

LEMMA LogEntryLogs ==
    LogInv /\ LogEntry => \E e \in Logged : EntryLog!LogItem(e)
<1> SUFFICES ASSUME LogInv, LogInv', LogEntry PROVE \E e \in Logged : EntryLog!LogItem(e)
  BY LogEntryInv
<1> DEFINE e == NextEntry
           r == ReadEntry(e)
<1>1. /\ Up /\ Up' /\ e \in Items /\ e \in Logged /\ sent' = Append(sent, e)
      /\ log'.file = log.file
  BY LogEntryFacts
<1>2. r \in Logged /\ r \in Items
  BY <1>1 DEF ReadEntry, Logged, Items
<1>3. PICK o, m, q : Written(o, m) /\ Written(q, m)'
  BY LogEntryWritten
<1>4. EntriesFrom(log.buffer.data) = SubSeq(AsRead(sent), m + 1, Len(sent)) /\ m \in 0 .. Len(sent)
  BY <1>1, <1>3, UpParses
<1>5. EntriesFrom(log'.buffer.data) = SubSeq(AsRead(sent'), m + 1, Len(sent'))
  <2>1. PendingParses'
    BY PendingIs, PTL
  <2> QED BY <1>1, <1>3, <2>1 DEF PendingParses
<1>6. /\ sent \in Seq(Items) /\ AsRead(sent) \in Seq(Items)
      /\ Len(AsRead(sent)) = Len(sent) /\ Len(sent) \in Nat
  BY AllAsRead
<1>7. AsRead(sent') = Append(AsRead(sent), r) /\ Len(sent') = Len(sent) + 1
  <2> HIDE DEF e, r
  <2>1. /\ sent' \in Seq(Items) /\ Len(sent') = Len(sent) + 1 /\ sent'[Len(sent) + 1] = e
        /\ \A i \in 1 .. Len(sent) : sent'[i] = sent[i]
    BY <1>1, <1>6
  <2>2. /\ AsRead(sent') \in Seq(Items) /\ Len(AsRead(sent')) = Len(sent) + 1
        /\ \A i \in 1 .. Len(sent) + 1 : AsRead(sent')[i] = ReadEntry(sent'[i])
    BY <2>1, AsReadIs
  <2>3. \A i \in 1 .. Len(sent) : AsRead(sent)[i] = ReadEntry(sent[i])
    BY <1>6, AsReadIs
  <2> DEFINE a == AsRead(sent)
             b == AsRead(sent')
             n == Len(sent)
  <2>4. /\ a \in Seq(Items) /\ Len(a) = n /\ b \in Seq(Items) /\ Len(b) = n + 1
        /\ b[n + 1] = r /\ \A i \in 1 .. n : b[i] = a[i]
    <3>1. b[n + 1] = r
      BY <1>6, <2>1, <2>2 DEF r
    <3>2. \A i \in 1 .. n : b[i] = a[i]
      BY <1>6, <2>1, <2>2, <2>3
    <3> QED BY <1>6, <2>2, <3>1, <3>2
  <2>5. n \in Nat
    BY <1>6
  <2> HIDE DEF a, b, n
  <2>6. b = Append(a, r)
    BY <1>2, <2>4, <2>5 DEF r
  <2> QED BY <2>1, <2>6 DEF a, b
<1>8. EntriesFrom(log'.buffer.data) = Append(EntriesFrom(log.buffer.data), r)
  <2> DEFINE a == AsRead(sent)
             n == Len(sent)
  <2> HIDE DEF r, e
  <2>1. a \in Seq(Items) /\ Len(a) = n /\ n \in Nat /\ m \in 0 .. n
    BY <1>4, <1>6
  <2> HIDE DEF a, n
  <2>2. SubSeq(Append(a, r), m + 1, n + 1) = Append(SubSeq(a, m + 1, n), r)
    BY <1>2, <2>1 DEF r
  <2> QED BY <1>4, <1>5, <1>7, <2>2 DEF a, n
<1>9. EntryLog!LogItem(r)
  BY <1>1, <1>8 DEF EntryLog!LogItem
<1> QED BY <1>2, <1>9

LEMMA CrashLoses == LogInv /\ Crash => EntryLog!Lose
<1> SUFFICES ASSUME LogInv, LogInv', Crash PROVE EntryLog!Lose
  BY CrashInv
<1>1. Up /\ ~Up' /\ log'.buffer.data = <<>>
  BY CrashFacts
<1>2. PICK T, o, m, b, x : Written(o, m) /\ KeptUpTo(T, o, b, x)' /\ m <= b
  BY CrashFacts
<1>3. /\ EntriesFrom(log.file) = SubSeq(AsRead(sent), 1, m)
      /\ EntriesFrom(log.buffer.data) = SubSeq(AsRead(sent), m + 1, Len(sent))
      /\ m \in 0 .. Len(sent)
  BY <1>1, <1>2, UpParses
<1>4. EntriesFrom(log'.file) = SubSeq(AsRead(sent), 1, b) /\ b \in 0 .. Len(sent)
  <2>1. (LogInv /\ KeptUpTo(T, o, b, x) =>
            EntriesFrom(log.file) = SubSeq(AsRead(sent), 1, b) /\ b \in 0 .. Len(sent))'
    BY KeptParses, PTL
  <2> QED BY <1>2, <2>1 DEF Crash
<1> DEFINE all == AsRead(sent)
           n == Len(sent)
<1>5. all \in Seq(Items) /\ Len(all) = n /\ n \in Nat
  BY AllAsRead
<1>6. m \in 0 .. n /\ b \in 0 .. n
  BY <1>3, <1>4
<1> HIDE DEF all, n
<1>7. /\ b - m \in 0 .. Len(SubSeq(all, m + 1, n))
      /\ SubSeq(all, 1, b) = SubSeq(all, 1, m) \o SubSeq(SubSeq(all, m + 1, n), 1, b - m)
  BY <1>2, <1>5, <1>6
<1>8. EntriesFrom(log'.buffer.data) = <<>>
  BY <1>1, NothingParsed
<1> QED BY <1>3, <1>4, <1>7, <1>8 DEF EntryLog!Lose, all, n

LEMMA TruncateEmpties == Truncate => EntryLog!Empty
<1> SUFFICES ASSUME Truncate PROVE EntryLog!Empty
  OBVIOUS
<1>1. <<>> \in Seq(LogCell)
  BY EmptySeq
<1>2. log'.file = <<>> /\ log'.buffer.data = <<>>
  BY <1>1, NewWritableIs DEF Truncate
<1> QED BY <1>2, NothingParsed DEF EntryLog!Empty

LEMMA StepIsLog ==
    LogInv /\ [LogFileNext]_logVars => [EntryLog!LogNext]_(EntryLog!entryLogVars)
<1> SUFFICES ASSUME LogInv, [LogFileNext]_logVars
             PROVE  EntryLog!LogNext \/ UNCHANGED EntryLog!entryLogVars
  OBVIOUS
<1>1. ASSUME UNCHANGED log PROVE UNCHANGED EntryLog!entryLogVars
  BY <1>1 DEF EntryLog!entryLogVars
<1>2. CASE Flush
  BY <1>2, FlushPersists DEF EntryLog!LogNext
<1>3. CASE LogEntry
  BY <1>3, LogEntryLogs DEF EntryLog!LogNext, Logged
<1>4. CASE Crash
  BY <1>4, CrashLoses DEF EntryLog!LogNext
<1>5. CASE Truncate
  BY <1>5, TruncateEmpties DEF EntryLog!LogNext
<1>6. CASE Fill \/ Insert \/ Throw \/ EndInsert \/ Recover \/ Abort \/ UNCHANGED logVars
  <2>1. UNCHANGED log
    BY <1>6 DEF Fill, Insert, Throw, EndInsert, Recover, Abort, logVars, logFileVars
  <2> QED BY <1>1, <2>1
<1> QED BY <1>2, <1>3, <1>4, <1>5, <1>6 DEF LogFileNext

(***************************************************************************)
(* The theorems                                                            *)
(***************************************************************************)
LEMMA LogInvHolds == LogFileSpec => []LogInv
<1> QED BY LogInitInv, LogInvStep, PTL DEF LogFileSpec

\* A batch holds entries of its own, numbered or not yet (write_batch.cc).
THEOREM BatchKeepsTypes == LogFileSpec => []BatchTypeOK
<1>1. LogInv => BatchTypeOK
  BY BatchInvIsEnough DEF LogInv
<1> QED BY <1>1, LogInvHolds, PTL

\* What the numbered batch has of a key is the client's last word on it, or
\* nothing of a key that was removed (write_batch.cc).
THEOREM BatchKeepsLastWord == LogFileSpec => []LastWordOrNothing
<1>1. LogInv => LastWordOrNothing
  BY BatchInvIsEnough DEF LogInv
<1> QED BY <1>1, LogInvHolds, PTL

\* The types of the log, and the capacity of its buffer is kept.
THEOREM LogKeepsTypes == LogFileSpec => []LogTypeOK
<1> QED BY LogInvTypes, LogInvHolds, PTL

\* recover returns every entry of an insert that returned, and what else it
\* returns are the entries logged next, with one that is torn behind them
\* (write_ahead_logger.cc, kv_entry.cc).
THEOREM LogRecoversAsLogged == LogFileSpec => []RecoveredAsLogged
<1> QED BY LogInvRecovers, LogInvHolds, PTL

\* Recovery fails for no log but one with an entry of the empty key, or one
\* whose last write was cut short.
THEOREM LogOpensAgain == LogFileSpec => []OpensAgain
<1> QED BY LogInvOpens, LogInvHolds, PTL

\* The bytes of the file and of its buffer implement the log of entries.
THEOREM LogImplementsEntryLog == LogFileSpec => LogOfEntries
<1> QED BY InitIsLog, StepIsLog, LogInvHolds, PTL DEF LogFileSpec, LogOfEntries, EntryLog!LogSpec
=============================================================================
