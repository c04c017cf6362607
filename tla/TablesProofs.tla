---------------------------- MODULE TablesProofs ----------------------------
(***************************************************************************)
(* What holds of tables built from any sorted list of entries, with any    *)
(* sizes: types, the order of entries in blocks and tables (Inv), and from *)
(* it that disjointness is exact and that lookups find what they should;   *)
(* that reading gives the list back (BackInv); and of the bytes of blocks, *)
(* that what is written is what is parsed (BytesInv).                      *)
(***************************************************************************)
EXTENDS TableBytes, DataProofs, SequenceTheorems, FiniteSetTheorems

\* Segments in the order of their keys, entries in that of their numbers, and
\* intervals from the first segment on.
SortedSegments(segs) ==
    \A i, j \in DOMAIN segs : i < j => segs[i].key < segs[j].key

SortedItems(seg) ==
    /\ seg.items # <<>>
    /\ \A a \in DOMAIN seg.items : seg.items[a].key = seg.key
    /\ \A a, b \in DOMAIN seg.items : a < b => seg.items[a].seq < seg.items[b].seq

Intervals(blk) ==
    /\ blk.segs # <<>> => blk.special # <<>> /\ blk.special[1] = 1
    /\ \A i \in DOMAIN blk.special : blk.special[i] \in DOMAIN blk.segs
    /\ \A i, j \in DOMAIN blk.special : i < j => blk.special[i] < blk.special[j]

SortedBlock(blk) ==
    /\ SortedSegments(blk.segs)
    /\ \A i \in DOMAIN blk.segs : SortedItems(blk.segs[i])
    /\ Intervals(blk)

AllBefore(D, E) == \A d \in D, e \in E : Before(d, e)

SortedBlocks(blocks) ==
    /\ \A i \in DOMAIN blocks : SortedBlock(blocks[i]) /\ blocks[i].segs # <<>>
    /\ \A i, j \in DOMAIN blocks :
         i < j => AllBefore(BlockHolds(blocks[i]), BlockHolds(blocks[j]))

\* first and last are keys of E, and the others are between them.
Within(first, last, E) ==
    /\ first \in {e.key : e \in E} /\ last \in {e.key : e \in E}
    /\ \A e \in E : first <= e.key /\ e.key <= last

Held(b) == Holds(b.blocks) \cup BlockHolds(b.block)

GoodBuilder(b) ==
    /\ b \in Builder
    /\ SortedBlocks(b.blocks)
    /\ SortedBlock(b.block)
    /\ AllBefore(Holds(b.blocks), BlockHolds(b.block))
    /\ b.filter = {e.key : e \in Held(b)}
    /\ Held(b) # {} => Within(b.first, b.last, Held(b))
    /\ Held(b) = {} => b.flushed = 0

GoodTable(t) ==
    /\ t \in Table
    /\ SortedBlocks(t.blocks)
    /\ Within(t.first, t.last, Holds(t.blocks))

\* The last entry given is the last one the builder holds.
UpTo(E, s) == \A e \in E : s # <<>> /\ (e = Last(s) \/ Before(e, Last(s)))

Inv ==
    /\ GoodBuilder(builder)
    /\ tables \in Seq(Table)
    /\ \A i \in DOMAIN tables : GoodTable(tables[i])
    /\ given \in Seq(Written)
    /\ finished \in BOOLEAN
    /\ UpTo(Held(builder), given)
    /\ given # <<>> /\ ~finished => Held(builder) # {}

(***************************************************************************)
(* Sequences that grow by one element.                                     *)
(***************************************************************************)
LEMMA Appended ==
    ASSUME NEW T, NEW s \in Seq(T), NEW x \in T
    PROVE  /\ Append(s, x) \in Seq(T)
           /\ Append(s, x) # <<>>
           /\ Len(s) \in Nat /\ DOMAIN s = 1 .. Len(s)
           /\ Len(Append(s, x)) = Len(s) + 1
           /\ DOMAIN Append(s, x) = 1 .. Len(s) + 1
           /\ \A i \in 1 .. Len(s) : Append(s, x)[i] = s[i]
           /\ Append(s, x)[Len(s) + 1] = x
           /\ Last(Append(s, x)) = x
<1>1. /\ Append(s, x) \in Seq(T) /\ Append(s, x) # <<>>
      /\ Len(Append(s, x)) = Len(s) + 1
      /\ \A i \in 1 .. Len(s) : Append(s, x)[i] = s[i]
      /\ Append(s, x)[Len(s) + 1] = x
  BY AppendProperties
<1>2. Len(s) \in Nat /\ DOMAIN s = 1 .. Len(s)
  BY LenProperties
<1>3. DOMAIN Append(s, x) = 1 .. Len(Append(s, x))
  BY <1>1, LenProperties
<1> QED BY <1>1, <1>2, <1>3 DEF Last

\* It has its old elements and the new one.
LEMMA RangeAppended ==
    ASSUME NEW T, NEW s \in Seq(T), NEW x \in T
    PROVE  Range(Append(s, x)) = Range(s) \cup {x}
<1> DEFINE t == Append(s, x)
           n == Len(s) + 1
<1>1. n \in Nat \ {0} /\ DOMAIN s = 1 .. n - 1 /\ DOMAIN t = 1 .. n
      /\ (\A i \in 1 .. n - 1 : t[i] = s[i]) /\ t[n] = x
  <2>1. Len(s) \in Nat /\ n - 1 = Len(s)
    BY LenProperties
  <2> QED BY <2>1, Appended
<1> HIDE DEF t, n
<1>2. \A i \in 1 .. n : i \in 1 .. n - 1 \/ i = n
  BY <1>1
<1>3. \A i \in 1 .. n - 1 : i \in 1 .. n
  BY <1>1
<1>4. n \in 1 .. n
  BY <1>1
<1>5. Range(t) = {t[i] : i \in 1 .. n} /\ Range(s) = {s[i] : i \in 1 .. n - 1}
  BY <1>1 DEF Range
<1>6. Range(t) \subseteq Range(s) \cup {x}
  BY <1>1, <1>2, <1>5
<1>7. Range(s) \cup {x} \subseteq Range(t)
  BY <1>1, <1>3, <1>4, <1>5
<1> QED BY <1>6, <1>7 DEF t

\* Blocks to which one is added hold what they held and what that holds.
LEMMA HoldsAppended ==
    ASSUME NEW blocks \in Seq(Block), NEW blk \in Block
    PROVE  Holds(Append(blocks, blk)) = Holds(blocks) \cup BlockHolds(blk)
<1> DEFINE t == Append(blocks, blk)
           n == Len(blocks) + 1
<1>1. n \in Nat \ {0} /\ DOMAIN blocks = 1 .. n - 1 /\ DOMAIN t = 1 .. n
      /\ (\A i \in 1 .. n - 1 : t[i] = blocks[i]) /\ t[n] = blk
  <2>1. Len(blocks) \in Nat /\ n - 1 = Len(blocks)
    BY LenProperties
  <2> QED BY <2>1, Appended
<1> HIDE DEF t, n
<1>2. \A i \in 1 .. n : i \in 1 .. n - 1 \/ i = n
  BY <1>1
<1>3. n \in 1 .. n /\ \A i \in 1 .. n - 1 : i \in 1 .. n
  BY <1>1
<1>4. Holds(t) = UNION {BlockHolds(t[i]) : i \in 1 .. n}
      /\ Holds(blocks) = UNION {BlockHolds(blocks[i]) : i \in 1 .. n - 1}
  BY <1>1 DEF Holds
<1>5. Holds(t) \subseteq Holds(blocks) \cup BlockHolds(blk)
  BY <1>1, <1>2, <1>4
<1>6. Holds(blocks) \cup BlockHolds(blk) \subseteq Holds(t)
  BY <1>1, <1>3, <1>4
<1> QED BY <1>5, <1>6 DEF t

\* Sorted blocks stay so with a block that comes after them.
LEMMA SortedBlocksAppended ==
    ASSUME NEW blocks \in Seq(Block), SortedBlocks(blocks),
           NEW blk \in Block, SortedBlock(blk), blk.segs # <<>>,
           AllBefore(Holds(blocks), BlockHolds(blk))
    PROVE  SortedBlocks(Append(blocks, blk))
<1> DEFINE t == Append(blocks, blk)
           n == Len(blocks) + 1
<1>1. n \in Nat \ {0} /\ DOMAIN blocks = 1 .. n - 1 /\ DOMAIN t = 1 .. n
      /\ (\A i \in 1 .. n - 1 : t[i] = blocks[i]) /\ t[n] = blk
  <2>1. Len(blocks) \in Nat /\ n - 1 = Len(blocks)
    BY LenProperties
  <2> QED BY <2>1, Appended
<1> HIDE DEF t, n
<1>2. \A i \in 1 .. n : i \in 1 .. n - 1 \/ i = n
  BY <1>1
<1>3. \A i \in DOMAIN t : SortedBlock(t[i]) /\ t[i].segs # <<>>
  BY <1>1, <1>2 DEF SortedBlocks
<1>4. ASSUME NEW i \in DOMAIN t, NEW j \in DOMAIN t, i < j
      PROVE  AllBefore(BlockHolds(t[i]), BlockHolds(t[j]))
  <2>1. i \in 1 .. n - 1
    BY <1>1, <1>4
  <2>2. CASE j = n
    <3>1. BlockHolds(t[i]) \subseteq Holds(blocks)
      BY <1>1, <2>1 DEF Holds
    <3> QED BY <1>1, <2>2, <3>1 DEF AllBefore
  <2>3. CASE j \in 1 .. n - 1
    BY <1>1, <1>4, <2>1, <2>3 DEF SortedBlocks
  <2> QED BY <1>1, <1>2, <2>2, <2>3
<1>5. SortedBlocks(t)
  BY <1>3, <1>4 DEF SortedBlocks
<1> QED BY <1>5 DEF t

(***************************************************************************)
(* Adding an entry that comes after all others keeps the order.            *)
(***************************************************************************)
\* An item of a segment is held by the block.
LEMMA HeldInBlock ==
    ASSUME NEW blk, NEW d
    PROVE  d \in BlockHolds(blk)
             <=> \E i \in DOMAIN blk.segs : \E j \in DOMAIN blk.segs[i].items :
                     d = blk.segs[i].items[j]
BY DEF BlockHolds, Range

\* The entry goes to the last segment.
LEMMA AddedToSegment ==
    ASSUME NEW blk \in Block, SortedBlock(blk), NEW e \in Written,
           AllBefore(BlockHolds(blk), {e}), Continues(blk, e)
    PROVE  LET new == AddToBlock(blk, e)
           IN  /\ new \in Block
               /\ SortedBlock(new)
               /\ new.segs # <<>>
               /\ BlockHolds(new) = BlockHolds(blk) \cup {e}
<1> DEFINE S == blk.segs
           n == Len(S)
           m == Len(S[n].items)
           items2 == Append(S[n].items, e)
           seg2 == [S[n] EXCEPT !.items = items2]
           S2 == [S EXCEPT ![n] = seg2]
           new == AddToBlock(blk, e)
<1>1. S \in Seq(Segment) /\ n \in Nat \ {0} /\ DOMAIN S = 1 .. n /\ n \in 1 .. n
  <2>1. S \in Seq(Segment) /\ S # <<>>
    BY DEF Block, Continues
  <2>2. n \in Nat /\ DOMAIN S = 1 .. n
    BY <2>1, LenProperties
  <2>3. n # 0
    BY <2>1, EmptySeq
  <2> QED BY <2>1, <2>2, <2>3
<1>2. S[n] \in Segment /\ S[n].items \in Seq(Written) /\ S[n].key = e.key
  <2>1. S[n] \in Segment
    BY <1>1, ElementOfSeq
  <2>2. S[n].items \in Seq(Written)
    BY <2>1 DEF Segment
  <2> QED BY <2>1, <2>2 DEF Continues, Last
<1>3. m \in Nat /\ DOMAIN S[n].items = 1 .. m
  BY <1>2, LenProperties
<1>4. /\ items2 \in Seq(Written) /\ items2 # <<>>
      /\ DOMAIN items2 = 1 .. m + 1
      /\ \A a \in 1 .. m : items2[a] = S[n].items[a]
      /\ items2[m + 1] = e
      /\ Range(items2) = Range(S[n].items) \cup {e}
  <2> DEFINE z == S[n].items
  <2>1. z \in Seq(Written) /\ e \in Written
    BY <1>2
  <2> HIDE DEF z
  <2>2. /\ Append(z, e) \in Seq(Written) /\ Append(z, e) # <<>>
        /\ DOMAIN Append(z, e) = 1 .. Len(z) + 1
        /\ \A a \in 1 .. Len(z) : Append(z, e)[a] = z[a]
        /\ Append(z, e)[Len(z) + 1] = e
    BY <2>1, Appended
  <2>3. Range(Append(z, e)) = Range(z) \cup {e}
    BY <2>1, RangeAppended
  <2> QED BY <2>2, <2>3 DEF z
<1>5. seg2 \in Segment /\ seg2.key = e.key /\ seg2.items = items2
  BY <1>2, <1>4 DEF Segment
<1>6. /\ S2 \in Seq(Segment) /\ DOMAIN S2 = 1 .. n /\ S2[n] = seg2
      /\ \A i \in 1 .. n : i # n => S2[i] = S[i]
  BY <1>1, <1>5, ExceptSeq
<1>7. new = [blk EXCEPT !.segs = S2, !.bytes = @ + ItemBytes(e)]
  BY <1>5 DEF AddToBlock
<1>8. /\ new.segs = S2 /\ new.special = blk.special
      /\ new.bytes = blk.bytes + ItemBytes(e)
  BY <1>7 DEF Block
<1>9. new \in Block
  <2>1. ItemBytes(e) \in Nat
    <3>1. e.value \in Value
      BY DEF Written
    <3>2. ValueBytes[e.value] \in Nat
      BY <3>1, TableAssumption
    <3> QED BY <3>2 DEF ItemBytes, Ril
  <2>2. blk.special \in Seq(Nat) /\ blk.bytes \in Nat
    BY DEF Block
  <2>3. new = [segs |-> S2, special |-> blk.special, bytes |-> blk.bytes + ItemBytes(e)]
    BY <1>7 DEF Block
  <2>4. blk.bytes + ItemBytes(e) \in Nat
    BY <2>1, <2>2
  <2> HIDE DEF new, S2
  <2> QED BY <1>6, <2>2, <2>3, <2>4 DEF Block
<1>10. \A a \in 1 .. m : S[n].items[a] \in BlockHolds(blk)
  BY <1>1, <1>3, HeldInBlock
<1>11. SortedSegments(S2)
  <2>1. \A i \in 1 .. n : S2[i].key = S[i].key
    BY <1>2, <1>5, <1>6
  <2>2. SortedSegments(S)
    BY DEF SortedBlock
  <2> QED BY <1>1, <1>6, <2>1, <2>2 DEF SortedSegments
<1>12. SortedItems(seg2)
  <2>1. SortedItems(S[n])
    BY <1>1 DEF SortedBlock
  <2>2. \A a \in 1 .. m + 1 : a \in 1 .. m \/ a = m + 1
    <3>1. m \in Nat
      BY <1>3
    <3> HIDE DEF m
    <3> QED BY <3>1
  <2>3. \A a \in DOMAIN items2 : items2[a].key = e.key
    BY <1>2, <1>3, <1>4, <2>1, <2>2 DEF SortedItems
  <2>4. ASSUME NEW a \in DOMAIN items2, NEW b \in DOMAIN items2, a < b
        PROVE  items2[a].seq < items2[b].seq
    <3>1. a \in 1 .. m
      BY <1>3, <1>4, <2>4
    <3>2. CASE b \in 1 .. m
      BY <1>3, <1>4, <2>1, <2>4, <3>1, <3>2 DEF SortedItems
    <3>3. CASE b = m + 1
      <4>1. Before(items2[a], e)
        BY <1>4, <1>10, <3>1 DEF AllBefore
      <4>2. items2[a].key = e.key /\ e.key \in Nat
        BY <2>3, KeyAssumption DEF Written
      <4>3. items2[a].seq < e.seq
        <5> HIDE DEF items2
        <5> QED BY <4>1, <4>2 DEF Before
      <4> QED BY <1>4, <3>3, <4>3
    <3> QED BY <1>4, <2>2, <3>2, <3>3
  <2> QED BY <1>4, <1>5, <2>3, <2>4 DEF SortedItems
<1>13. \A i \in DOMAIN S2 : SortedItems(S2[i])
  BY <1>1, <1>6, <1>12 DEF SortedBlock
<1>14. Intervals(new)
  BY <1>1, <1>6, <1>8 DEF SortedBlock, Intervals, Continues
<1>15. SortedBlock(new)
  BY <1>8, <1>11, <1>13, <1>14 DEF SortedBlock
<1>16. S2 # <<>>
  BY <1>1, <1>6
<1>17. BlockHolds(new) = BlockHolds(blk) \cup {e}
  <2>1. \A i \in 1 .. n : Range(S2[i].items)
                           = IF i = n THEN Range(S[i].items) \cup {e} ELSE Range(S[i].items)
    BY <1>4, <1>5, <1>6
  <2>2. BlockHolds(new) = UNION {Range(S2[i].items) : i \in 1 .. n}
    BY <1>6, <1>8 DEF BlockHolds
  <2>3. BlockHolds(blk) = UNION {Range(S[i].items) : i \in 1 .. n}
    BY <1>1 DEF BlockHolds
  <2> HIDE DEF S, S2, new, n
  <2>4. \A d : d \in BlockHolds(new) <=> \E i \in 1 .. n : d \in Range(S2[i].items)
    BY <2>2
  <2>5. \A d : d \in BlockHolds(blk) <=> \E i \in 1 .. n : d \in Range(S[i].items)
    BY <2>3
  <2> QED BY <1>1, <2>1, <2>4, <2>5
<1> QED BY <1>8, <1>9, <1>15, <1>16, <1>17

\* The entry begins a segment.
LEMMA AddedSegment ==
    ASSUME NEW blk \in Block, SortedBlock(blk), NEW e \in Written,
           AllBefore(BlockHolds(blk), {e}), ~Continues(blk, e)
    PROVE  LET new == AddToBlock(blk, e)
           IN  /\ new \in Block
               /\ SortedBlock(new)
               /\ new.segs # <<>>
               /\ BlockHolds(new) = BlockHolds(blk) \cup {e}
<1> DEFINE S == blk.segs
           n == Len(S)
           seg == [key |-> e.key, items |-> <<e>>]
           S2 == Append(S, seg)
           sp == blk.special
           sp2 == IF StartsInterval(n + 1) THEN Append(sp, n + 1) ELSE sp
           l == Len(sp)
           new == AddToBlock(blk, e)
<1>1. S \in Seq(Segment) /\ n \in Nat /\ DOMAIN S = 1 .. n
  <2>1. S \in Seq(Segment)
    BY DEF Block
  <2> QED BY <2>1, LenProperties
<1>2. seg \in Segment /\ seg.key = e.key /\ seg.items = <<e>> /\ Range(seg.items) = {e}
  BY DEF Segment, Written, Range
<1>3. /\ S2 \in Seq(Segment) /\ S2 # <<>> /\ DOMAIN S2 = 1 .. n + 1
      /\ (\A i \in 1 .. n : S2[i] = S[i]) /\ S2[n + 1] = seg
  BY <1>1, <1>2, Appended
<1>4. new.segs = S2 /\ new.special = sp2
      /\ new.bytes = blk.bytes + (IF n = 0 THEN 0 ELSE Ril) + HeadBytes(e.key) + ItemBytes(e)
  BY DEF AddToBlock
<1>5. sp \in Seq(Nat) /\ l \in Nat /\ DOMAIN sp = 1 .. l
  <2>1. sp \in Seq(Nat)
    BY DEF Block
  <2> QED BY <2>1, LenProperties
<1>6. sp2 \in Seq(Nat)
  BY <1>1, <1>5, Appended
<1>7. new \in Block
  <2>1. new = [segs |-> new.segs, special |-> new.special, bytes |-> new.bytes]
    BY DEF AddToBlock
  <2>2. e.value \in Value /\ e.key \in Key
    BY DEF Written
  <2>3. ValueBytes[e.value] \in Nat /\ KeyBytes[e.key] \in Nat
    BY <2>2, TableAssumption
  <2>4. ItemBytes(e) \in Nat /\ HeadBytes(e.key) \in Nat
    BY <2>3 DEF ItemBytes, HeadBytes, Ril
  <2>5. new.bytes \in Nat
    BY <1>4, <2>4 DEF Ril, Block
  <2> HIDE DEF new, S2, sp2
  <2> QED BY <1>3, <1>4, <1>6, <2>1, <2>5 DEF Block
<1>8. \A i \in 1 .. n + 1 : i \in 1 .. n \/ i = n + 1
  BY <1>1
<1>9. \A i \in 1 .. n : S[i].key < e.key
  <2>1. SUFFICES ASSUME n # 0 PROVE \A i \in 1 .. n : S[i].key < e.key
    BY <1>1
  <2>2. n \in 1 .. n /\ S # <<>>
    BY <1>1, <2>1
  <2>3. S[n].key # e.key
    BY <2>2 DEF Continues, Last
  <2>4. \A i \in 1 .. n : S[i] \in Segment /\ S[i].key \in Nat /\ e.key \in Nat
    <3>1. \A i \in 1 .. n : S[i] \in Segment
      BY <1>1, ElementOfSeq
    <3>2. \A x \in Segment : x.key \in Key
      BY DEF Segment
    <3>3. e.key \in Key
      BY DEF Written
    <3> QED BY <3>1, <3>2, <3>3, KeyAssumption
  <2>5. SortedItems(S[n])
    BY <1>1, <2>2 DEF SortedBlock
  <2>6. S[n].items \in Seq(Written) /\ 1 \in DOMAIN S[n].items
    <3>1. S[n].items \in Seq(Written) /\ S[n].items # <<>>
      BY <2>2, <2>4, <2>5 DEF Segment, SortedItems
    <3>2. Len(S[n].items) \in Nat \ {0} /\ DOMAIN S[n].items = 1 .. Len(S[n].items)
      BY <3>1, EmptySeq, LenProperties
    <3> QED BY <3>1, <3>2
  <2>7. S[n].items[1] \in BlockHolds(blk) /\ S[n].items[1].key = S[n].key
    BY <1>1, <2>2, <2>5, <2>6, HeldInBlock DEF SortedItems
  <2>8. Before(S[n].items[1], e)
    BY <2>7 DEF AllBefore
  <2>9. S[n].key < e.key
    BY <2>2, <2>3, <2>4, <2>7, <2>8 DEF Before
  <2>10. \A i \in 1 .. n : i # n => S[i].key < S[n].key
    BY <1>1, <2>2 DEF SortedBlock, SortedSegments
  <2> QED BY <1>1, <2>2, <2>4, <2>9, <2>10
<1>10. SortedSegments(S2)
  <2>1. SortedSegments(S)
    BY DEF SortedBlock
  <2>2. SUFFICES ASSUME NEW i \in 1 .. n + 1, NEW j \in 1 .. n + 1, i < j
                 PROVE  S2[i].key < S2[j].key
    BY <1>3 DEF SortedSegments
  <2>3. i \in 1 .. n
    BY <1>1, <2>2
  <2> HIDE DEF S2, S, n, seg
  <2> QED BY <1>1, <1>2, <1>3, <1>8, <1>9, <2>1, <2>2, <2>3 DEF SortedSegments
<1>11. \A i \in DOMAIN S2 : SortedItems(S2[i])
  <2>1. SortedItems(seg)
    BY <1>2 DEF SortedItems
  <2>2. \A i \in 1 .. n : SortedItems(S[i])
    BY <1>1 DEF SortedBlock
  <2> HIDE DEF S2, S, n, seg
  <2> QED BY <1>3, <1>8, <2>1, <2>2
<1>12. Intervals(new)
  <2>1. /\ \A i \in 1 .. l : sp[i] \in 1 .. n
        /\ \A i, j \in 1 .. l : i < j => sp[i] < sp[j]
        /\ S # <<>> => sp # <<>> /\ sp[1] = 1
    BY <1>1, <1>5 DEF SortedBlock, Intervals
  <2>2. n = 0 => sp = <<>> /\ l = 0
    <3>1. ASSUME n = 0 PROVE l = 0
      <4>1. \A i \in 1 .. l : FALSE
        BY <2>1, <3>1
      <4>2. l # 0 => 1 \in 1 .. l
        BY <1>5
      <4> QED BY <4>1, <4>2
    <3> QED BY <1>5, <3>1
  <2>3. CASE StartsInterval(n + 1)
    <3>1. /\ DOMAIN sp2 = 1 .. l + 1 /\ sp2 # <<>>
          /\ (\A i \in 1 .. l : sp2[i] = sp[i]) /\ sp2[l + 1] = n + 1
      <4> DEFINE x == n + 1
      <4>1. sp2 = Append(sp, x) /\ x \in Nat /\ sp \in Seq(Nat)
        BY <1>1, <1>5, <2>3
      <4> HIDE DEF x, sp, sp2
      <4>2. /\ DOMAIN sp2 = 1 .. l + 1 /\ sp2 # <<>>
            /\ (\A i \in 1 .. l : sp2[i] = sp[i]) /\ sp2[l + 1] = x
        BY <4>1, Appended
      <4> QED BY <4>2 DEF x
    <3>2. \A i \in 1 .. l + 1 : i \in 1 .. l \/ i = l + 1
      BY <1>5
    <3>3. sp2[1] = 1
      <4>1. CASE n = 0
        BY <2>2, <3>1, <4>1
      <4>2. CASE n # 0
        <5>1. S # <<>> /\ sp # <<>> /\ sp[1] = 1
          BY <1>1, <2>1, <4>2
        <5>2. 1 \in 1 .. l
          BY <1>5, <5>1
        <5> QED BY <3>1, <5>1, <5>2
      <4> QED BY <4>1, <4>2
    <3>4. \A i \in 1 .. l + 1 : sp2[i] \in 1 .. n + 1
      <4> HIDE DEF sp2, sp, S, l, n
      <4> QED BY <1>1, <1>5, <2>1, <3>1, <3>2
    <3>5. ASSUME NEW i \in 1 .. l + 1, NEW j \in 1 .. l + 1, i < j
          PROVE  sp2[i] < sp2[j]
      <4>1. i \in 1 .. l /\ sp[i] \in 1 .. n /\ sp2[i] = sp[i]
        <5>1. i \in 1 .. l
          BY <1>5, <3>5
        <5> QED BY <2>1, <3>1, <5>1
      <4> HIDE DEF sp2, sp, S, l, n
      <4>2. CASE j = l + 1
        BY <1>1, <3>1, <4>1, <4>2
      <4>3. CASE j \in 1 .. l
        <5>1. sp[i] < sp[j] /\ sp2[j] = sp[j]
          BY <2>1, <3>1, <3>5, <4>1, <4>3
        <5> QED BY <4>1, <5>1
      <4> QED BY <3>2, <4>2, <4>3
    <3> HIDE DEF sp2, S2
    <3> QED BY <1>3, <1>4, <3>1, <3>3, <3>4, <3>5 DEF Intervals
  <2>4. CASE ~StartsInterval(n + 1)
    <3>1. n # 0 /\ sp2 = sp /\ S # <<>>
      BY <1>1, <2>4 DEF StartsInterval
    <3>2. \A i \in 1 .. l : sp[i] \in 1 .. n + 1
      BY <1>1, <2>1
    <3> HIDE DEF sp2, sp, S2, S, n, l
    <3> QED BY <1>3, <1>4, <1>5, <2>1, <3>1, <3>2 DEF Intervals
  <2> QED BY <2>3, <2>4
<1>13. SortedBlock(new)
  BY <1>4, <1>10, <1>11, <1>12 DEF SortedBlock
<1>14. BlockHolds(new) = BlockHolds(blk) \cup {e}
  <2>1. \A d : d \in BlockHolds(new) <=> \E i \in 1 .. n + 1 : d \in Range(S2[i].items)
    BY <1>3, <1>4 DEF BlockHolds
  <2>2. \A d : d \in BlockHolds(blk) <=> \E i \in 1 .. n : d \in Range(S[i].items)
    BY <1>1 DEF BlockHolds
  <2>3. n + 1 \in 1 .. n + 1 /\ \A i \in 1 .. n : i \in 1 .. n + 1
    BY <1>1
  <2> HIDE DEF S, S2, new, n, seg
  <2> QED BY <1>2, <1>3, <1>8, <2>1, <2>2, <2>3
<1> QED BY <1>3, <1>4, <1>7, <1>13, <1>14

\* Either way.
LEMMA AddedToBlock ==
    ASSUME NEW blk \in Block, SortedBlock(blk), NEW e \in Written,
           AllBefore(BlockHolds(blk), {e})
    PROVE  LET new == AddToBlock(blk, e)
           IN  /\ new \in Block
               /\ SortedBlock(new)
               /\ new.segs # <<>>
               /\ BlockHolds(new) = BlockHolds(blk) \cup {e}
<1>1. CASE Continues(blk, e)
  BY <1>1, AddedToSegment
<1>2. CASE ~Continues(blk, e)
  BY <1>2, AddedSegment
<1> QED BY <1>1, <1>2

\* A block_builder begins with nothing to order.
LEMMA EmptyBlockIsSorted ==
    /\ EmptyBlock \in Block
    /\ SortedBlock(EmptyBlock)
    /\ BlockHolds(EmptyBlock) = {}
<1>1. EmptyBlock \in Block
  BY EmptySeq DEF EmptyBlock, Block, Btl
<1>2. SortedBlock(EmptyBlock)
  BY DEF EmptyBlock, SortedBlock, SortedSegments, Intervals
<1>3. BlockHolds(EmptyBlock) = {}
  BY DEF EmptyBlock, BlockHolds
<1> QED BY <1>1, <1>2, <1>3

\* So does an sstable_builder.
LEMMA NewBuilderIsGood ==
    GoodBuilder(NewBuilder) /\ Held(NewBuilder) = {}
<1> DEFINE b == NewBuilder
<1>1. /\ b.block = EmptyBlock /\ b.blocks = <<>> /\ b.flushed = 0
      /\ b.filter = {} /\ b.first = 0 /\ b.last = 0
  BY DEF NewBuilder
<1>2. b \in Builder
  BY EmptySeq, EmptyBlockIsSorted DEF NewBuilder, Builder
<1>3. Holds(b.blocks) = {} /\ SortedBlocks(b.blocks)
  BY <1>1 DEF Holds, SortedBlocks
<1>4. Held(b) = {}
  BY <1>1, <1>3, EmptyBlockIsSorted DEF Held
<1> QED BY <1>1, <1>2, <1>3, <1>4, EmptyBlockIsSorted DEF GoodBuilder, AllBefore

\* A builder to which an entry was added, after all others, is good.
LEMMA AddedToBuilder ==
    ASSUME NEW b, GoodBuilder(b), NEW e \in Written, AllBefore(Held(b), {e})
    PROVE  GoodBuilder(AddTo(b, e)) /\ Held(AddTo(b, e)) = Held(b) \cup {e}
<1> DEFINE blk == AddToBlock(b.block, e)
           new == AddTo(b, e)
<1>1. /\ b.block \in Block /\ b.blocks \in Seq(Block) /\ b.flushed \in Nat
      /\ b.filter \in SUBSET Key /\ b.first \in Nat /\ b.last \in Nat
      /\ SortedBlocks(b.blocks) /\ SortedBlock(b.block)
      /\ AllBefore(Holds(b.blocks), BlockHolds(b.block))
  BY DEF GoodBuilder, Builder
<1>2. e.key \in Key /\ e.key \in Nat /\ e \in Written
  BY KeyAssumption DEF Written
<1>3. /\ blk \in Block /\ SortedBlock(blk) /\ blk.segs # <<>>
      /\ BlockHolds(blk) = BlockHolds(b.block) \cup {e}
  <2>1. AllBefore(BlockHolds(b.block), {e})
    BY DEF AllBefore, Held
  <2> QED BY <1>1, <2>1, AddedToBlock
<1>4. AllBefore(Holds(b.blocks), BlockHolds(blk))
  BY <1>1, <1>3 DEF AllBefore, Held
<1> HIDE DEF blk
<1>5. /\ new.filter = b.filter \cup {e.key}
      /\ new.first = IF b.filter = {} THEN e.key ELSE b.first
      /\ new.last = e.key
  BY DEF AddTo, FilterWith, LastWith
<1>6. /\ new.block \in Block /\ new.blocks \in Seq(Block) /\ new.flushed \in Nat
      /\ new = [block |-> new.block, blocks |-> new.blocks, flushed |-> new.flushed,
                filter |-> new.filter, first |-> new.first, last |-> new.last]
      /\ SortedBlocks(new.blocks) /\ SortedBlock(new.block)
      /\ AllBefore(Holds(new.blocks), BlockHolds(new.block))
      /\ Held(new) = Held(b) \cup {e}
  <2>1. new = [block |-> new.block, blocks |-> new.blocks, flushed |-> new.flushed,
               filter |-> new.filter, first |-> new.first, last |-> new.last]
    BY DEF AddTo
  <2>2. CASE blk.bytes >= BlockSize
    <3>1. /\ new.block = EmptyBlock
          /\ new.blocks = Append(b.blocks, blk)
          /\ new.flushed = b.flushed + Btl
      BY <2>2 DEF AddTo, BlockAfterFlush, EmptyBlock, blk
    <3>2. new.blocks \in Seq(Block) /\ SortedBlocks(new.blocks)
      <4>1. Append(b.blocks, blk) \in Seq(Block)
        BY <1>1, <1>3, Appended
      <4>2. SortedBlocks(Append(b.blocks, blk))
        BY <1>1, <1>3, <1>4, SortedBlocksAppended
      <4> QED BY <3>1, <4>1, <4>2
    <3>3. Holds(new.blocks) = Holds(b.blocks) \cup BlockHolds(blk)
      BY <1>1, <1>3, <3>1, HoldsAppended
    <3>4. new.flushed \in Nat
      BY <1>1, <3>1 DEF Btl
    <3> QED BY <1>3, <2>1, <3>1, <3>2, <3>3, <3>4, EmptyBlockIsSorted DEF Held, AllBefore
  <2>3. CASE ~(blk.bytes >= BlockSize)
    <3>1. /\ new.block = blk
          /\ new.blocks = b.blocks
          /\ new.flushed = b.flushed
      BY <2>3 DEF AddTo, blk
    <3> QED BY <1>1, <1>3, <1>4, <2>1, <3>1 DEF Held
  <2> QED BY <2>2, <2>3
<1>7. new \in Builder
  BY <1>1, <1>2, <1>5, <1>6 DEF Builder
<1>8. b.filter = {d.key : d \in Held(b)}
  BY DEF GoodBuilder
<1> HIDE DEF new
<1>9. new.filter = {d.key : d \in Held(new)}
  BY <1>5, <1>6, <1>8
<1>10. Within(new.first, new.last, Held(new))
  <2>1. \A d \in Held(b) : d.key <= e.key
    <3>1. \A d \in Held(b) : Before(d, e)
      BY DEF AllBefore
    <3>2. \A d \in Held(b) : d.key \in Nat
      BY <1>1, <1>8, KeyAssumption
    <3> QED BY <1>2, <3>1, <3>2 DEF Before
  <2>2. CASE Held(b) = {}
    <3>1. b.filter = {}
      BY <1>8, <2>2
    <3> QED BY <1>2, <1>5, <1>6, <2>2, <3>1 DEF Within
  <2>3. CASE Held(b) # {}
    <3>1. b.filter # {} /\ Within(b.first, b.last, Held(b))
      BY <1>8, <2>3 DEF GoodBuilder
    <3>2. new.first = b.first /\ new.last = e.key
      BY <1>5, <3>1
    <3>3. b.first <= e.key
      BY <2>1, <3>1 DEF Within
    <3> QED BY <1>2, <1>6, <2>1, <3>1, <3>2, <3>3 DEF Within
  <2> QED BY <2>2, <2>3
<1>11. GoodBuilder(new)
  BY <1>6, <1>7, <1>9, <1>10 DEF GoodBuilder
<1> QED BY <1>6, <1>11 DEF new

\* What a builder that has entries makes is a good table.
LEMMA FinishedTable ==
    ASSUME NEW b, GoodBuilder(b), Held(b) # {}
    PROVE  GoodTable(FinishTable(b)) /\ Holds(FinishTable(b).blocks) = Held(b)
<1> DEFINE t == FinishTable(b)
<1>1. /\ b.block \in Block /\ b.blocks \in Seq(Block)
      /\ b.filter \in SUBSET Key /\ b.first \in Nat /\ b.last \in Nat
      /\ SortedBlocks(b.blocks) /\ SortedBlock(b.block)
      /\ AllBefore(Holds(b.blocks), BlockHolds(b.block))
      /\ Within(b.first, b.last, Held(b))
  BY DEF GoodBuilder, Builder
<1>2. /\ t = [blocks |-> t.blocks, filter |-> b.filter, first |-> b.first, last |-> b.last]
      /\ t.blocks = IF b.block.segs = <<>> THEN b.blocks ELSE Append(b.blocks, b.block)
  BY DEF FinishTable
<1> HIDE DEF t
<1>3. t.filter = b.filter /\ t.first = b.first /\ t.last = b.last
  BY <1>2
<1>4. t.blocks \in Seq(Block) /\ SortedBlocks(t.blocks) /\ Holds(t.blocks) = Held(b)
  <2>1. CASE b.block.segs = <<>>
    <3>1. BlockHolds(b.block) = {}
      BY <2>1 DEF BlockHolds
    <3> QED BY <1>1, <1>2, <2>1, <3>1 DEF Held
  <2>2. CASE b.block.segs # <<>>
    <3>1. t.blocks = Append(b.blocks, b.block)
      BY <1>2, <2>2
    <3>2. t.blocks \in Seq(Block) /\ SortedBlocks(t.blocks)
      BY <1>1, <2>2, <3>1, Appended, SortedBlocksAppended
    <3> QED BY <1>1, <3>1, <3>2, HoldsAppended DEF Held
  <2> QED BY <2>1, <2>2
<1>5. t \in Table
  <2>1. \A blocks \in Seq(Block) :
          [blocks |-> blocks, filter |-> b.filter, first |-> b.first, last |-> b.last] \in Table
    BY <1>1 DEF Table
  <2> QED BY <1>2, <1>4, <2>1
<1> QED BY <1>1, <1>3, <1>4, <1>5 DEF GoodTable, t

(***************************************************************************)
(* The invariant.                                                          *)
(***************************************************************************)
LEMMA InvInit == TablesInit => Inv
<1>1. SUFFICES ASSUME TablesInit PROVE Inv
  OBVIOUS
<1>2. builder = NewBuilder /\ tables = <<>> /\ given = <<>> /\ finished = FALSE
  BY <1>1 DEF TablesInit
<1>3. tables \in Seq(Table) /\ given \in Seq(Written) /\ DOMAIN tables = {}
  BY <1>2, EmptySeq
<1> QED BY <1>2, <1>3, NewBuilderIsGood DEF Inv, UpTo

\* Entries of blocks.
LEMMA HeldAreWritten ==
    /\ \A blk \in Block : BlockHolds(blk) \subseteq Written
    /\ \A blocks \in Seq(Block) : Holds(blocks) \subseteq Written
<1>1. ASSUME NEW blk \in Block, NEW d \in BlockHolds(blk)
      PROVE  d \in Written
  <2>1. PICK i \in DOMAIN blk.segs : d \in Range(blk.segs[i].items)
    BY <1>1 DEF BlockHolds
  <2>2. blk.segs \in Seq(Segment)
    BY DEF Block
  <2>3. blk.segs[i] \in Segment
    BY <2>2, LenProperties, ElementOfSeq
  <2>4. blk.segs[i].items \in Seq(Written)
    BY <2>3 DEF Segment
  <2>5. PICK j \in DOMAIN blk.segs[i].items : d = blk.segs[i].items[j]
    BY <2>1 DEF Range
  <2> QED BY <2>4, <2>5, LenProperties, ElementOfSeq
<1>2. ASSUME NEW blocks \in Seq(Block), NEW d \in Holds(blocks)
      PROVE  d \in Written
  <2>1. PICK i \in DOMAIN blocks : d \in BlockHolds(blocks[i])
    BY <1>2 DEF Holds
  <2>2. blocks[i] \in Block
    BY LenProperties, ElementOfSeq
  <2> QED BY <1>1, <2>1, <2>2
<1> QED BY <1>1, <1>2

\* Before is an order of entries.
LEMMA BeforeTransitive ==
    ASSUME NEW c \in Written, NEW d \in Written, NEW e \in Written,
           Before(c, d), Before(d, e)
    PROVE  Before(c, e)
<1>1. \A x \in {c, d, e} : x.key \in Nat /\ x.seq \in Nat
  BY KeyAssumption, TableAssumption DEF Written
<1> QED BY <1>1 DEF Before

\* A finished table joins the others.
LEMMA MoreTables ==
    ASSUME Inv, Held(builder) # {}
    PROVE  LET new == Append(tables, FinishTable(builder))
           IN  new \in Seq(Table) /\ \A i \in DOMAIN new : GoodTable(new[i])
<1> DEFINE t == FinishTable(builder)
           new == Append(tables, t)
<1>1. GoodTable(t) /\ t \in Table
  BY FinishedTable DEF Inv, GoodTable
<1>2. tables \in Seq(Table) /\ \A i \in DOMAIN tables : GoodTable(tables[i])
  BY DEF Inv
<1>3. /\ new \in Seq(Table) /\ Len(tables) \in Nat
      /\ DOMAIN tables = 1 .. Len(tables) /\ DOMAIN new = 1 .. Len(tables) + 1
      /\ \A i \in 1 .. Len(tables) : new[i] = tables[i]
      /\ new[Len(tables) + 1] = t
  BY <1>1, <1>2, Appended
<1>4. \A i \in 1 .. Len(tables) + 1 : i \in 1 .. Len(tables) \/ i = Len(tables) + 1
  BY <1>3
<1> HIDE DEF new, t
<1>5. \A i \in DOMAIN new : GoodTable(new[i])
  BY <1>1, <1>2, <1>3, <1>4
<1> QED BY <1>3, <1>5 DEF new, t

\* The list is sorted, so the next entry comes after all the builder holds.
LEMMA NextIsLast ==
    ASSUME Inv, NEW e \in Listed, Give(e)
    PROVE  /\ e \in Written
           /\ AllBefore(Held(builder), {e})
           /\ given' \in Seq(Written) /\ given' # <<>> /\ Last(given') = e
           /\ finished' \in BOOLEAN
<1>1. e \in Written
  BY TableAssumption DEF Written
<1>2. given' = Append(given, e) /\ given \in Seq(Written) /\ finished' \in BOOLEAN
  BY DEF Give, Inv
<1>3. given' \in Seq(Written) /\ given' # <<>> /\ Last(given') = e
  BY <1>1, <1>2, Appended
<1>4. ASSUME NEW d \in Held(builder)
      PROVE  Before(d, e)
  <2>1. given # <<>> /\ (d = Last(given) \/ Before(d, Last(given)))
    BY <1>4 DEF Inv, UpTo
  <2>2. Before(Last(given), e)
    BY <2>1 DEF Give
  <2>3. d \in Written
    <3>1. Held(builder) \subseteq Written
      BY HeldAreWritten DEF Inv, GoodBuilder, Builder, Held
    <3> QED BY <1>4, <3>1
  <2>4. Last(given) \in Written
    <3>1. Len(given) \in Nat \ {0}
      BY <1>2, <2>1, EmptySeq
    <3> QED BY <1>2, <3>1, ElementOfSeq DEF Last
  <2> QED BY <1>1, <2>1, <2>2, <2>3, <2>4, BeforeTransitive
<1> QED BY <1>1, <1>2, <1>3, <1>4 DEF AllBefore

\* Every step keeps the invariant.
LEMMA InvNext == Inv /\ [TablesNext]_tablesVars => Inv'
<1> SUFFICES ASSUME Inv, [TablesNext]_tablesVars PROVE Inv'
  OBVIOUS
<1>1. ASSUME NEW e \in Listed, Add(e)
      PROVE  Inv'
  <2>1. Give(e) /\ builder' = AddTo(builder, e) /\ tables' = tables
    BY <1>1 DEF Add
  <2>2. /\ e \in Written /\ AllBefore(Held(builder), {e})
        /\ given' \in Seq(Written) /\ given' # <<>> /\ Last(given') = e
        /\ finished' \in BOOLEAN
    BY <2>1, NextIsLast
  <2>3. GoodBuilder(builder') /\ Held(builder') = Held(builder) \cup {e}
    BY <2>1, <2>2, AddedToBuilder DEF Inv
  <2>4. UpTo(Held(builder'), given')
    BY <2>2, <2>3 DEF UpTo, AllBefore
  <2> QED BY <2>1, <2>2, <2>3, <2>4 DEF Inv
<1>2. ASSUME NEW e \in Listed, AddToNext(e)
      PROVE  Inv'
  <2>1. /\ Give(e) /\ ReachesTheSizeLimit(builder)
        /\ builder' = AddTo(NewBuilder, e)
        /\ tables' = Append(tables, FinishTable(builder))
    BY <1>2 DEF AddToNext
  <2>2. /\ e \in Written
        /\ given' \in Seq(Written) /\ given' # <<>> /\ Last(given') = e
        /\ finished' \in BOOLEAN
    BY <2>1, NextIsLast
  <2>3. GoodBuilder(builder') /\ Held(builder') = {e}
    <3> DEFINE b == NewBuilder
    <3>1. AllBefore(Held(b), {e}) /\ GoodBuilder(b) /\ Held(b) = {}
      BY NewBuilderIsGood DEF AllBefore
    <3>2. e \in Written /\ builder' = AddTo(b, e)
      BY <2>1, <2>2
    <3> HIDE DEF b
    <3>3. GoodBuilder(AddTo(b, e)) /\ Held(AddTo(b, e)) = Held(b) \cup {e}
      BY <3>1, <3>2, AddedToBuilder
    <3> QED BY <3>1, <3>2, <3>3
  <2>4. Held(builder) # {}
    <3>1. builder.flushed >= SizeLimit /\ SizeLimit \in Nat \ {0}
      BY <2>1, TableAssumption DEF ReachesTheSizeLimit
    <3>2. builder.flushed # 0
      BY <3>1
    <3> QED BY <3>2 DEF Inv, GoodBuilder
  <2>5. tables' \in Seq(Table) /\ \A i \in DOMAIN tables' : GoodTable(tables'[i])
    BY <2>1, <2>4, MoreTables
  <2>6. UpTo(Held(builder'), given')
    BY <2>2, <2>3 DEF UpTo
  <2> QED BY <2>2, <2>3, <2>5, <2>6 DEF Inv
<1>3. ASSUME Finish
      PROVE  Inv'
  <2>1. /\ ~finished /\ given # <<>> /\ given' = given /\ finished' = TRUE
        /\ builder' = NewBuilder
        /\ tables' = Append(tables, FinishTable(builder))
    BY <1>3 DEF Finish
  <2>2. Held(builder) # {}
    BY <2>1 DEF Inv
  <2>3. tables' \in Seq(Table) /\ \A i \in DOMAIN tables' : GoodTable(tables'[i])
    BY <2>1, <2>2, MoreTables
  <2> QED BY <2>1, <2>3, NewBuilderIsGood DEF Inv, UpTo
<1>4. CASE UNCHANGED tablesVars
  BY <1>4 DEF tablesVars, Inv, UpTo
<1> QED BY <1>1, <1>2, <1>3, <1>4 DEF TablesNext

\* Add and AddToNext (sstable_builder::add) and Finish keep blocks, segments,
\* items and intervals in order, in the builder and in the tables it made.
THEOREM Invariance == TablesSpec => []Inv
BY InvInit, InvNext, PTL DEF TablesSpec

\* Whatever the list and the sizes, sstable_builder and what it makes keep their
\* types: the filter has keys only, and blocks have entries that were given.
THEOREM TablesTypeCorrect == TablesSpec => []TablesTypeOK
<1>1. Inv => TablesTypeOK
  BY DEF Inv, TablesTypeOK, GoodBuilder
<1> QED BY <1>1, Invariance, PTL

(***************************************************************************)
(* Meta blocks.                                                            *)
(***************************************************************************)
\* sstable::disjoint concludes from the first and the last key of two tables
\* that their keys are all before or all after each other, and only if so.
THEOREM DisjointIsExact == TablesSpec => []DisjointExact
<1>1. ASSUME Inv, NEW i \in DOMAIN tables, NEW j \in DOMAIN tables
      PROVE  LET A == KeysOf(tables[i])
                 B == KeysOf(tables[j])
             IN  Disjoint(tables[i], tables[j])
                 <=> (\A a \in A, b \in B : a < b) \/ (\A a \in A, b \in B : b < a)
  <2> DEFINE t == tables[i]
             u == tables[j]
             A == KeysOf(t)
             B == KeysOf(u)
  <2>1. GoodTable(t) /\ GoodTable(u)
    BY <1>1 DEF Inv
  <2>2. /\ t.first \in A /\ t.last \in A /\ u.first \in B /\ u.last \in B
        /\ \A a \in A : t.first <= a /\ a <= t.last
        /\ \A b \in B : u.first <= b /\ b <= u.last
    BY <2>1 DEF GoodTable, Within, KeysOf
  <2>3. A \subseteq Nat /\ B \subseteq Nat
    <3>1. \A x \in Written : x.key \in Nat
      BY KeyAssumption DEF Written
    <3> QED BY <2>1, <3>1, HeldAreWritten DEF GoodTable, Table, KeysOf
  <2>4. Disjoint(t, u) <=> \/ t.first < u.first /\ t.last < u.first
                           \/ u.first < t.first /\ u.last < t.first
    BY DEF Disjoint
  <2> HIDE DEF A, B, t, u
  <2>5. (\A a \in A, b \in B : a < b) <=> t.first < u.first /\ t.last < u.first
    <3>1. ASSUME t.first < u.first /\ t.last < u.first, NEW a \in A, NEW b \in B
          PROVE  a < b
      <4>1. a \in Nat /\ b \in Nat /\ t.last \in Nat /\ u.first \in Nat
        BY <2>2, <2>3
      <4>2. a <= t.last /\ u.first <= b
        BY <2>2
      <4> QED BY <3>1, <4>1, <4>2
    <3>2. ASSUME \A a \in A, b \in B : a < b
          PROVE  t.first < u.first /\ t.last < u.first
      BY <2>2, <3>2
    <3> QED BY <3>1, <3>2
  <2>6. (\A a \in A, b \in B : b < a) <=> u.first < t.first /\ u.last < t.first
    <3>1. ASSUME u.first < t.first /\ u.last < t.first, NEW b \in B, NEW a \in A
          PROVE  b < a
      <4>1. b \in Nat /\ a \in Nat /\ u.last \in Nat /\ t.first \in Nat
        BY <2>2, <2>3
      <4>2. b <= u.last /\ t.first <= a
        BY <2>2
      <4> QED BY <3>1, <4>1, <4>2
    <3>2. ASSUME \A a \in A, b \in B : b < a
          PROVE  u.first < t.first /\ u.last < t.first
      BY <2>2, <3>2
    <3> QED BY <3>1, <3>2
  <2>7. Disjoint(t, u) <=> (\A a \in A, b \in B : a < b) \/ (\A a \in A, b \in B : b < a)
    BY <2>4, <2>5, <2>6
  <2> QED BY <2>7 DEF A, B, t, u
<1>2. Inv => DisjointExact
  BY <1>1 DEF DisjointExact
<1> QED BY <1>2, Invariance, PTL

(***************************************************************************)
(* Lookups.                                                                *)
(***************************************************************************)
\* The parts of a block, with their types.
LEMMA PartsOfBlock ==
    ASSUME NEW blk \in Block
    PROVE  /\ Len(blk.segs) \in Nat /\ DOMAIN blk.segs = 1 .. Len(blk.segs)
           /\ Len(blk.special) \in Nat /\ DOMAIN blk.special = 1 .. Len(blk.special)
           /\ \A i \in DOMAIN blk.segs :
                /\ blk.segs[i].key \in Key /\ blk.segs[i].key \in Nat
                /\ blk.segs[i].items \in Seq(Written)
                /\ Len(blk.segs[i].items) \in Nat
                /\ DOMAIN blk.segs[i].items = 1 .. Len(blk.segs[i].items)
<1>1. blk.segs \in Seq(Segment) /\ blk.special \in Seq(Nat)
  BY DEF Block
<1>2. /\ Len(blk.segs) \in Nat /\ DOMAIN blk.segs = 1 .. Len(blk.segs)
      /\ Len(blk.special) \in Nat /\ DOMAIN blk.special = 1 .. Len(blk.special)
  BY <1>1, LenProperties
<1>3. \A i \in DOMAIN blk.segs : blk.segs[i] \in Segment
  BY <1>1, <1>2, ElementOfSeq
<1>4. \A seg \in Segment : seg.key \in Key /\ seg.key \in Nat /\ seg.items \in Seq(Written)
  BY KeyAssumption DEF Segment
<1> QED BY <1>2, <1>3, <1>4, LenProperties

\* block::get searches one interval; the segment of the key is in it.
LEMMA GetFromBlockIs ==
    ASSUME NEW blk \in Block, SortedBlock(blk), NEW k \in Key
    PROVE  GetFromBlock(blk, k)
             = {blk.segs[j] : j \in {j \in DOMAIN blk.segs : blk.segs[j].key = k}}
<1> DEFINE S == blk.segs
           sp == blk.special
           n == Len(S)
           l == Len(sp)
           found == {S[j] : j \in {j \in DOMAIN S : S[j].key = k}}
           until(i) == IF i = l THEN n ELSE sp[i + 1] - 1
<1>1. n \in Nat /\ DOMAIN S = 1 .. n /\ l \in Nat /\ DOMAIN sp = 1 .. l
      /\ k \in Nat /\ \A j \in 1 .. n : S[j].key \in Nat
  BY PartsOfBlock, KeyAssumption
<1>2. /\ S # <<>> => sp # <<>> /\ sp[1] = 1
      /\ \A i \in 1 .. l : sp[i] \in 1 .. n
      /\ \A i, j \in 1 .. l : i < j => sp[i] < sp[j]
      /\ \A i, j \in 1 .. n : i < j => S[i].key < S[j].key
  BY <1>1 DEF SortedBlock, Intervals, SortedSegments
<1>3. \A i \in 1 .. l : i # l => i + 1 \in 1 .. l
  BY <1>1
<1>4. \A i \in 1 .. l : until(i) \in Nat /\ until(i) <= n
  BY <1>1, <1>2, <1>3
<1>5. \A i \in 1 .. l : \A j \in sp[i] .. until(i) : j \in 1 .. n
  BY <1>1, <1>2, <1>4
<1>6. \A i \in 1 .. l : SegmentsInInterval(blk, i) = {S[j] : j \in sp[i] .. until(i)}
  BY DEF SegmentsInInterval
<1>7. \A i \in 1 .. l : Searches(blk, i, k) <=>
        S[sp[i]].key <= k /\ (i < l => ~(S[sp[i + 1]].key <= k))
  BY DEF Searches, NotAfter
<1>8. \A seg : seg \in GetFromBlock(blk, k) <=>
        /\ seg.key = k
        /\ \E i \in 1 .. l : Searches(blk, i, k) /\ seg \in SegmentsInInterval(blk, i)
  BY <1>1 DEF GetFromBlock
<1> HIDE DEF S, sp, n, l, until
<1>9. GetFromBlock(blk, k) \subseteq found
  <2>1. SUFFICES ASSUME NEW seg \in GetFromBlock(blk, k) PROVE seg \in found
    OBVIOUS
  <2>2. PICK i \in 1 .. l : seg \in {S[j] : j \in sp[i] .. until(i)}
    BY <1>6, <1>8, <2>1
  <2>3. PICK j \in 1 .. n : seg = S[j]
    BY <1>5, <2>2
  <2> QED BY <1>1, <1>8, <2>1, <2>3
<1>10. found \subseteq GetFromBlock(blk, k)
  <2>1. SUFFICES ASSUME NEW j \in 1 .. n, S[j].key = k PROVE S[j] \in GetFromBlock(blk, k)
    BY <1>1
  <2> DEFINE I == {i \in 1 .. l : sp[i] <= j}
             m == Max(I)
  <2>2. S # <<>>
    BY <1>1, <2>1 DEF S, n
  <2>3. sp # <<>> /\ sp[1] = 1
    BY <1>2, <2>2
  <2>4. 1 \in I
    <3>1. l # 0
      <4>1. sp \in Seq(Nat)
        BY DEF sp, Block
      <4> QED BY <2>3, <4>1, EmptySeq DEF l
    <3> QED BY <1>1, <2>1, <2>3, <3>1
  <2>5. I \in SUBSET Nat /\ I # {} /\ \A i \in I : i <= l
    BY <1>1, <2>4
  <2> HIDE DEF I, m
  <2>6. m \in I /\ \A i \in I : i <= m
    BY <1>1, <2>5, MaxOfBounded DEF m
  <2>7. m \in 1 .. l /\ sp[m] <= j /\ sp[m] \in 1 .. n
    BY <1>2, <2>6 DEF I
  <2>8. m < l => m + 1 \in 1 .. l /\ sp[m + 1] \in 1 .. n /\ j < sp[m + 1]
    <3>1. SUFFICES ASSUME m < l PROVE m + 1 \in 1 .. l /\ sp[m + 1] \in 1 .. n /\ j < sp[m + 1]
      OBVIOUS
    <3>2. m + 1 \in 1 .. l
      BY <1>1, <2>7, <3>1
    <3>3. sp[m + 1] \in 1 .. n
      BY <1>2, <3>2
    <3>4. m + 1 \notin I
      BY <1>1, <2>6, <2>7
    <3>5. ~(sp[m + 1] <= j)
      BY <3>2, <3>4 DEF I
    <3> QED BY <1>1, <2>1, <3>2, <3>3, <3>5
  <2>9. S[sp[m]].key <= k
    <3>1. CASE sp[m] = j
      BY <1>1, <2>1, <3>1
    <3>2. CASE sp[m] # j
      <4>1. sp[m] < j
        BY <1>1, <2>1, <2>7, <3>2
      <4> QED BY <1>1, <1>2, <2>1, <2>7, <4>1
    <3> QED BY <3>1, <3>2
  <2>10. m < l => ~(S[sp[m + 1]].key <= k)
    BY <1>1, <1>2, <2>1, <2>8
  <2>11. Searches(blk, m, k)
    BY <1>7, <2>7, <2>9, <2>10
  <2>12. j \in sp[m] .. until(m)
    <3>1. CASE m = l
      BY <1>1, <2>1, <2>7, <3>1 DEF until
    <3>2. CASE m # l
      BY <1>1, <2>1, <2>7, <2>8, <3>2 DEF until
    <3> QED BY <3>1, <3>2
  <2>13. S[j] \in SegmentsInInterval(blk, m)
    BY <1>6, <2>7, <2>12
  <2> QED BY <1>8, <2>1, <2>7, <2>11, <2>13
<1> QED BY <1>9, <1>10 DEF S

\* The first key of a block is its smallest.
LEMMA FirstKeyIsLeast ==
    ASSUME NEW blk \in Block, SortedBlock(blk), blk.segs # <<>>
    PROVE  /\ blk.segs[1].key \in {d.key : d \in BlockHolds(blk)}
           /\ \A d \in BlockHolds(blk) : blk.segs[1].key <= d.key
<1> DEFINE S == blk.segs
           n == Len(S)
<1>1. n \in Nat /\ DOMAIN S = 1 .. n /\ n # 0
      /\ \A i \in 1 .. n : /\ S[i].key \in Nat
                           /\ S[i].items \in Seq(Written)
                           /\ Len(S[i].items) \in Nat
                           /\ DOMAIN S[i].items = 1 .. Len(S[i].items)
  <2>1. n # 0
    BY EmptySeq DEF Block
  <2> QED BY <2>1, PartsOfBlock
<1>2. 1 \in 1 .. n
  BY <1>1
<1>3. \A i \in 1 .. n : SortedItems(S[i])
  BY <1>1 DEF SortedBlock
<1>4. \A i, j \in 1 .. n : i < j => S[i].key < S[j].key
  BY <1>1 DEF SortedBlock, SortedSegments
<1>5. S[1].items # <<>> /\ 1 \in DOMAIN S[1].items
  <2>1. S[1].items # <<>>
    BY <1>2, <1>3 DEF SortedItems
  <2>2. Len(S[1].items) # 0
    BY <1>1, <1>2, <2>1, EmptySeq
  <2> QED BY <1>1, <1>2, <2>1, <2>2
<1>6. S[1].items[1].key = S[1].key
  BY <1>2, <1>3, <1>5 DEF SortedItems
<1>7. S[1].items[1] \in BlockHolds(blk)
  BY <1>1, <1>2, <1>5, HeldInBlock
<1>8. ASSUME NEW d \in BlockHolds(blk)
      PROVE  S[1].key <= d.key
  <2>1. PICK i \in 1 .. n : \E j \in DOMAIN S[i].items : d = S[i].items[j]
    BY <1>1, <1>8, HeldInBlock
  <2>2. d.key = S[i].key
    BY <1>3, <2>1 DEF SortedItems
  <2> HIDE DEF S, n
  <2>3. i = 1 \/ 1 < i
    BY <1>1, <2>1
  <2> QED BY <1>1, <1>2, <1>4, <2>2, <2>3
<1> QED BY <1>6, <1>7, <1>8

\* sstable::get_segment searches one block: the last one that has the key.
LEMMA GetSegmentIs ==
    ASSUME NEW t, GoodTable(t), NEW k \in Key,
           NEW c \in DOMAIN t.blocks,
           k \in {e.key : e \in BlockHolds(t.blocks[c])},
           \A i \in DOMAIN t.blocks :
               k \in {e.key : e \in BlockHolds(t.blocks[i])} => i <= c
    PROVE  GetSegment(t, k) = GetFromBlock(t.blocks[c], k)
<1> DEFINE b == t.blocks
           l == Len(b)
           first(i) == b[i].segs[1].key
           Has(i) == k \in {e.key : e \in BlockHolds(b[i])}
<1>1. /\ b \in Seq(Block) /\ l \in Nat /\ DOMAIN b = 1 .. l
      /\ SortedBlocks(b) /\ k \in Nat
  BY LenProperties, KeyAssumption DEF GoodTable, Table
<1>2. \A i \in 1 .. l : /\ b[i] \in Block /\ SortedBlock(b[i]) /\ b[i].segs # <<>>
                        /\ BlockHolds(b[i]) \subseteq Written
  BY <1>1, ElementOfSeq, HeldAreWritten DEF SortedBlocks
<1>3. \A e \in Written : e.key \in Nat
  BY KeyAssumption DEF Written
<1>4. \A i \in 1 .. l : /\ first(i) \in {d.key : d \in BlockHolds(b[i])}
                        /\ first(i) \in Nat
                        /\ \A d \in BlockHolds(b[i]) : first(i) <= d.key
  BY <1>2, <1>3, FirstKeyIsLeast
<1>5. \A i, j \in 1 .. l : i < j => \A d \in BlockHolds(b[i]) : d.key <= first(j)
  <2>1. SUFFICES ASSUME NEW i \in 1 .. l, NEW j \in 1 .. l, i < j,
                        NEW d \in BlockHolds(b[i])
                 PROVE  d.key <= first(j)
    OBVIOUS
  <2>2. PICK x \in BlockHolds(b[j]) : x.key = first(j)
    BY <1>4
  <2>3. Before(d, x)
    BY <1>1, <2>1 DEF SortedBlocks, AllBefore
  <2>4. d.key \in Nat /\ x.key \in Nat
    BY <1>2, <1>3, <2>1
  <2> HIDE DEF first
  <2> QED BY <2>2, <2>3, <2>4 DEF Before
<1>6. \A i, j \in 1 .. l : i < j => first(i) <= first(j)
  BY <1>4, <1>5
<1>7. \A i \in 1 .. l : SearchesBlock(t, i, k) <=>
        first(i) <= k /\ (i < l => ~(first(i + 1) <= k))
  BY DEF SearchesBlock, NotAfter
<1>8. \A i \in 1 .. l : Has(i) => i <= c
  BY <1>1
<1>9. c \in 1 .. l /\ Has(c)
  BY <1>1
<1>10. \A i \in 1 .. l : i < l => i + 1 \in 1 .. l
  BY <1>1
<1>11. \A i \in 1 .. l : first(i) = k => Has(i)
  BY <1>4
<1>12. first(c) <= k /\ \A j \in 1 .. l : c < j => k <= first(j)
  BY <1>4, <1>5, <1>9
<1> HIDE DEF first, Has, l
<1>13. SearchesBlock(t, c, k)
  <2>1. ASSUME c < l PROVE ~(first(c + 1) <= k)
    <3>1. c + 1 \in 1 .. l /\ c < c + 1 /\ ~(c + 1 <= c)
      BY <1>1, <1>9, <1>10, <2>1
    <3>2. first(c + 1) # k
      BY <1>8, <1>11, <3>1
    <3> QED BY <1>1, <1>4, <1>12, <3>1, <3>2
  <2> QED BY <1>7, <1>9, <1>12, <2>1
<1>14. ASSUME NEW i \in 1 .. l, SearchesBlock(t, i, k)
       PROVE  i = c
  <2>1. CASE i < c
    <3>1. i < l /\ i + 1 \in 1 .. l /\ (i + 1 = c \/ i + 1 < c)
      BY <1>1, <1>9, <1>10, <2>1
    <3>2. first(i + 1) <= first(c)
      BY <1>4, <1>6, <1>9, <3>1
    <3>3. ~(first(i + 1) <= k)
      BY <1>7, <1>14, <3>1
    <3> QED BY <1>1, <1>4, <1>9, <1>12, <3>1, <3>2, <3>3
  <2>2. CASE c < i
    <3>1. first(i) <= k /\ k <= first(i)
      BY <1>7, <1>12, <1>14, <2>2
    <3>2. Has(i)
      BY <1>1, <1>4, <1>11, <3>1
    <3> QED BY <1>1, <1>8, <1>9, <2>2, <3>2
  <2> QED BY <1>1, <1>9, <2>1, <2>2
<1>15. {i \in DOMAIN t.blocks : SearchesBlock(t, i, k)} = {c}
  BY <1>1, <1>9, <1>13, <1>14
<1> QED BY <1>15 DEF GetSegment

\* Parsing a value changes neither the key nor the number.
LEMMA ParsedKeeps ==
    \A e \in Written : Parsed(e).key = e.key /\ Parsed(e).seq = e.seq
BY DEF Parsed, Written

\* The entries of a key in a block are those of its one segment.
LEMMA SegmentOfKey ==
    ASSUME NEW blk \in Block, SortedBlock(blk), NEW k \in Key,
           k \in {e.key : e \in BlockHolds(blk)}
    PROVE  \E j \in DOMAIN blk.segs :
             /\ GetFromBlock(blk, k) = {blk.segs[j]}
             /\ \A e \in BlockHolds(blk) : e.key = k => e \in Range(blk.segs[j].items)
             /\ \A a \in DOMAIN blk.segs[j].items :
                  blk.segs[j].items[a] \in BlockHolds(blk) /\ blk.segs[j].items[a].key = k
<1> DEFINE S == blk.segs
           n == Len(S)
<1>1. n \in Nat /\ DOMAIN S = 1 .. n /\ \A i \in 1 .. n : S[i].key \in Nat
  BY PartsOfBlock
<1>2. \A i, j \in 1 .. n : i < j => S[i].key < S[j].key
  BY <1>1 DEF SortedBlock, SortedSegments
<1>3. \A i \in 1 .. n : \A a \in DOMAIN S[i].items :
        S[i].items[a].key = S[i].key /\ S[i].items[a] \in BlockHolds(blk)
  BY <1>1, HeldInBlock DEF SortedBlock, SortedItems
<1>4. \A e \in BlockHolds(blk) : \E i \in 1 .. n : e \in Range(S[i].items) /\ e.key = S[i].key
  <2>1. SUFFICES ASSUME NEW e \in BlockHolds(blk)
                 PROVE  \E i \in 1 .. n : e \in Range(S[i].items) /\ e.key = S[i].key
    OBVIOUS
  <2>2. PICK i \in 1 .. n : \E a \in DOMAIN S[i].items : e = S[i].items[a]
    BY <1>1, HeldInBlock
  <2> QED BY <1>3, <2>2 DEF Range
<1>5. PICK j \in 1 .. n : S[j].key = k
  BY <1>4
<1>6. \A i \in 1 .. n : S[i].key = k => i = j
  <2> HIDE DEF S, n
  <2>1. \A i \in 1 .. n : i < j \/ j < i \/ i = j
    BY <1>1
  <2>2. ASSUME NEW i \in 1 .. n, S[i].key = k, i < j \/ j < i PROVE FALSE
    <3>1. S[i].key < S[j].key \/ S[j].key < S[i].key
      BY <1>2, <1>5, <2>2
    <3>2. S[i].key = S[j].key /\ S[j].key \in Nat
      BY <1>1, <1>5, <2>2
    <3> QED BY <3>1, <3>2
  <2> QED BY <2>1, <2>2
<1>7. GetFromBlock(blk, k) = {S[j]}
  BY <1>1, <1>5, <1>6, GetFromBlockIs
<1>8. ASSUME NEW e \in BlockHolds(blk), e.key = k PROVE e \in Range(S[j].items)
  <2>1. PICK i \in 1 .. n : e \in Range(S[i].items) /\ e.key = S[i].key
    BY <1>4
  <2>2. i = j
    BY <1>6, <1>8, <2>1
  <2> QED BY <2>1, <2>2
<1>9. ASSUME NEW a \in DOMAIN S[j].items
      PROVE  S[j].items[a] \in BlockHolds(blk) /\ S[j].items[a].key = k
  BY <1>3, <1>5
<1>10. j \in DOMAIN S
  BY <1>1, <1>5
<1> HIDE DEF n
<1> QED BY <1>7, <1>8, <1>9, <1>10

\* What get_kv_entry finds in one table.
LEMMA LookupIsRight ==
    ASSUME NEW t, GoodTable(t), NEW k \in Key, NEW s \in Nat, Hashes > 30,
           ~Split(t, k) \/ \A e \in Holds(t.blocks) : e.key = k => e.seq <= s
    PROVE  GetKvEntry(t, k, s) = {NewestOf({Parsed(e) : e \in Holds(t.blocks)}, k, s)}
<1> DEFINE b == t.blocks
           E == {Parsed(e) : e \in Holds(b)}
           K == {e \in Holds(b) : e.key = k /\ e.seq <= s}
           upTo(seg) == {j \in DOMAIN seg.items : seg.items[j].seq <= s}
           found == {Parsed(seg.items[Max(upTo(seg))]) :
                       seg \in {seg \in GetSegment(t, k) : upTo(seg) # {}}}
           Has(i) == k \in {e.key : e \in BlockHolds(b[i])}
<1>1. GetKvEntry(t, k, s) = {found}
  <2>1. MayMatch(t, k) = {TRUE}
    BY DEF MayMatch
  <2>2. GetKvEntry(t, k, s) = {IF match THEN found ELSE {} : match \in {TRUE}}
    BY <2>1 DEF GetKvEntry
  <2> QED BY <2>2
<1>2. /\ b \in Seq(Block) /\ Len(b) \in Nat /\ DOMAIN b = 1 .. Len(b) /\ SortedBlocks(b)
      /\ Holds(b) \subseteq Written
  BY LenProperties, HeldAreWritten DEF GoodTable, Table
<1>3. \A i \in 1 .. Len(b) : b[i] \in Block /\ SortedBlock(b[i])
                              /\ BlockHolds(b[i]) \subseteq Holds(b)
  BY <1>2, ElementOfSeq DEF SortedBlocks, Holds
<1>4. \A e \in Holds(b) : \E i \in 1 .. Len(b) : e \in BlockHolds(b[i])
  BY <1>2 DEF Holds
<1>5. \A e \in Written : e.key \in Nat /\ e.seq \in Nat
  BY KeyAssumption, TableAssumption DEF Written
<1>6. OfKey(E, k, s) = {Parsed(e) : e \in K}
  <2>1. \A e \in Holds(b) : Parsed(e).key = e.key /\ Parsed(e).seq = e.seq
    BY <1>2, ParsedKeeps
  <2> QED BY <2>1 DEF OfKey
<1>7. CASE \A i \in 1 .. Len(b) : ~Has(i)
  <2>1. K = {}
    BY <1>4, <1>7
  <2>2. NewestOf(E, k, s) = {}
    BY <1>6, <2>1 DEF NewestOf
  <2>3. ASSUME NEW seg \in GetSegment(t, k), upTo(seg) # {} PROVE FALSE
    <3>1. PICK i \in 1 .. Len(b) : seg \in GetFromBlock(b[i], k)
      BY <1>2, <2>3 DEF GetSegment
    <3>2. PICK j \in DOMAIN b[i].segs : b[i].segs[j].key = k /\ seg = b[i].segs[j]
      BY <1>3, <3>1, GetFromBlockIs
    <3>3. PICK a \in DOMAIN seg.items : TRUE
      BY <2>3
    <3>4. seg.items[a].key = k
      BY <1>3, <3>2 DEF SortedBlock, SortedItems
    <3>5. seg.items[a] \in BlockHolds(b[i])
      BY <3>2, HeldInBlock
    <3> QED BY <1>7, <3>4, <3>5
  <2> HIDE DEF upTo
  <2>4. found = {}
    BY <2>3
  <2> QED BY <1>1, <2>2, <2>4
<1>8. CASE \E i \in 1 .. Len(b) : Has(i)
  <2> DEFINE C == {i \in 1 .. Len(b) : Has(i)}
             c == Max(C)
  <2>1. C \in SUBSET Nat /\ C # {} /\ \A i \in C : i <= Len(b)
    BY <1>2, <1>8
  <2>2. c \in C /\ \A i \in C : i <= c
    <3> HIDE DEF C
    <3> QED BY <1>2, <2>1, MaxOfBounded
  <2> HIDE DEF c
  <2>3. c \in 1 .. Len(b) /\ Has(c) /\ \A i \in 1 .. Len(b) : Has(i) => i <= c
    BY <2>2
  <2>4. GetSegment(t, k) = GetFromBlock(b[c], k)
    BY <1>2, <2>3, GetSegmentIs
  <2>5. PICK j \in DOMAIN b[c].segs :
          /\ GetFromBlock(b[c], k) = {b[c].segs[j]}
          /\ \A e \in BlockHolds(b[c]) : e.key = k => e \in Range(b[c].segs[j].items)
          /\ \A a \in DOMAIN b[c].segs[j].items :
               b[c].segs[j].items[a] \in BlockHolds(b[c]) /\ b[c].segs[j].items[a].key = k
    BY <1>3, <2>3, SegmentOfKey
  <2> DEFINE seg == b[c].segs[j]
             U == upTo(seg)
             n == Len(seg.items)
  <2>6. /\ n \in Nat /\ DOMAIN seg.items = 1 .. n /\ 1 \in 1 .. n
        /\ \A a1, a2 \in 1 .. n : a1 < a2 => seg.items[a1].seq < seg.items[a2].seq
        /\ \A a \in 1 .. n : /\ seg.items[a] \in BlockHolds(b[c])
                             /\ seg.items[a] \in Holds(b)
                             /\ seg.items[a].key = k
                             /\ seg.items[a].seq \in Nat
    <3>1. n \in Nat /\ DOMAIN seg.items = 1 .. n /\ seg.items \in Seq(Written)
      BY <1>3, <2>3, PartsOfBlock
    <3>2. SortedItems(seg)
      BY <1>3, <2>3 DEF SortedBlock
    <3>3. n # 0
      BY <3>1, <3>2, EmptySeq DEF SortedItems
    <3>4. \A a \in 1 .. n : /\ seg.items[a] \in BlockHolds(b[c])
                            /\ seg.items[a] \in Holds(b)
                            /\ seg.items[a].key = k
      BY <1>3, <2>3, <2>5, <3>1
    <3>5. \A a \in 1 .. n : seg.items[a].seq \in Nat
      BY <1>2, <1>5, <3>4
    <3>6. \A a1, a2 \in 1 .. n : a1 < a2 => seg.items[a1].seq < seg.items[a2].seq
      BY <3>1, <3>2 DEF SortedItems
    <3>7. 1 \in 1 .. n
      BY <3>1, <3>3
    <3> QED BY <3>1, <3>4, <3>5, <3>6, <3>7
  <2>7. \A e \in K : (\E a \in U : e = seg.items[a])
                     \/ (\E i \in 1 .. Len(b) : i < c /\ Has(i) /\ e \in BlockHolds(b[i]))
    <3>1. SUFFICES ASSUME NEW e \in K,
                          ~\E i \in 1 .. Len(b) : i < c /\ Has(i) /\ e \in BlockHolds(b[i])
                   PROVE  \E a \in U : e = seg.items[a]
      OBVIOUS
    <3>2. PICK i \in 1 .. Len(b) : e \in BlockHolds(b[i])
      BY <1>4
    <3>3. Has(i) /\ i <= c
      BY <2>3, <3>2
    <3>4. i = c
      BY <1>2, <2>3, <3>1, <3>2, <3>3
    <3>5. e \in Range(seg.items)
      BY <2>5, <3>2, <3>4
    <3> QED BY <3>5 DEF Range
  <2>8. found = IF U = {} THEN {} ELSE {Parsed(seg.items[Max(U)])}
    <3>1. GetSegment(t, k) = {seg}
      BY <2>4, <2>5
    <3> HIDE DEF seg
    <3> QED BY <3>1
  <2> HIDE DEF seg, n
  <2>9. U \in SUBSET Nat /\ U \subseteq 1 .. n /\ \A a \in U : a <= n
    BY <2>6
  <2>10. \A e \in K : e.seq \in Nat /\ e \in Written
    BY <1>2, <1>5
  <2>11. CASE U = {}
    <3>1. ASSUME NEW e \in K PROVE FALSE
      <4>1. PICK i \in 1 .. Len(b) : i < c /\ Has(i) /\ e \in BlockHolds(b[i])
        BY <2>7, <2>11
      <4>2. Split(t, k)
        <5>1. i \in DOMAIN t.blocks /\ c \in DOMAIN t.blocks /\ i # c
          BY <1>2, <2>3, <4>1
        <5> QED BY <2>3, <4>1, <5>1 DEF Split
      <4>3. seg.items[1].seq <= s
        BY <2>6, <4>2
      <4>4. 1 \in U
        BY <2>6, <4>3
      <4> QED BY <2>11, <4>4
    <3>2. NewestOf(E, k, s) = {}
      BY <1>6, <3>1 DEF NewestOf
    <3> QED BY <1>1, <2>8, <2>11, <3>2
  <2>12. CASE U # {}
    <3> DEFINE m == Max(U)
               x == seg.items[m]
    <3>1. m \in U /\ \A a \in U : a <= m
      <4> HIDE DEF U
      <4> QED BY <2>6, <2>9, <2>12, MaxOfBounded
    <3> HIDE DEF m
    <3>2. m \in 1 .. n /\ x.seq <= s /\ x \in BlockHolds(b[c]) /\ x \in K /\ x.seq \in Nat
      BY <2>6, <2>9, <3>1
    <3>3. ASSUME NEW e \in K PROVE e = x \/ e.seq < x.seq
      <4>1. CASE \E a \in U : e = seg.items[a]
        <5>1. PICK a \in U : e = seg.items[a]
          BY <4>1
        <5>2. a \in 1 .. n /\ (a = m \/ a < m)
          BY <2>6, <2>9, <3>1, <3>2
        <5> QED BY <2>6, <3>2, <5>1, <5>2
      <4>2. CASE \E i \in 1 .. Len(b) : i < c /\ Has(i) /\ e \in BlockHolds(b[i])
        <5>1. PICK i \in 1 .. Len(b) : i < c /\ e \in BlockHolds(b[i])
          BY <4>2
        <5>2. Before(e, x)
          BY <1>2, <2>3, <3>2, <5>1 DEF SortedBlocks, AllBefore
        <5>3. e.key = k /\ x.key = k /\ k \in Nat
          BY <3>2, KeyAssumption
        <5> HIDE DEF x
        <5> QED BY <5>2, <5>3 DEF Before
      <4> QED BY <2>7, <4>1, <4>2
    <3>4. x \in K /\ x.seq \in Nat
      BY <3>2
    <3> HIDE DEF x, K, E, U
    <3>5. \A e \in K : Parsed(e).seq = e.seq
      BY <2>10, ParsedKeeps
    <3>6. NewestOf(E, k, s) = {Parsed(x)}
      <4>1. \A e \in K : e.seq <= x.seq /\ (x.seq <= e.seq => e = x)
        BY <2>10, <3>3, <3>4
      <4>2. \A y \in {Parsed(e) : e \in K} :
              (\A d \in {Parsed(e) : e \in K} : d.seq <= y.seq) <=> y = Parsed(x)
        BY <3>4, <3>5, <4>1
      <4> QED BY <1>6, <3>4, <4>2 DEF NewestOf
    <3> QED BY <1>1, <2>8, <2>12, <3>6 DEF E, x, m, U
  <2> QED BY <2>11, <2>12
<1> QED BY <1>7, <1>8

\* get_kv_entry finds the newest entry of a key up to a number, with any sizes
\* of blocks and intervals, as long as the bloom filter has so many hashes that
\* may_match gives up.
THEOREM LookupsAreRight ==
    ASSUME Hashes > 30
    PROVE  TablesSpec => []LookupsFind
<1>1. ASSUME Inv, NEW i \in DOMAIN tables, NEW k \in Key, NEW s \in SeqNum,
             LET E == {Parsed(e) : e \in Holds(tables[i].blocks)}
             IN  ~Split(tables[i], k) \/ (\A e \in E : e.key = k => e.seq <= s)
      PROVE  GetKvEntry(tables[i], k, s)
               = {NewestOf({Parsed(e) : e \in Holds(tables[i].blocks)}, k, s)}
  <2> DEFINE t == tables[i]
  <2>1. GoodTable(t) /\ s \in Nat
    BY <1>1, TableAssumption DEF Inv
  <2>2. Holds(t.blocks) \subseteq Written
    BY <2>1, HeldAreWritten DEF GoodTable, Table
  <2>3. ~Split(t, k) \/ \A e \in Holds(t.blocks) : e.key = k => e.seq <= s
    BY <1>1, <2>2, ParsedKeeps
  <2> HIDE DEF t
  <2>4. GetKvEntry(t, k, s) = {NewestOf({Parsed(e) : e \in Holds(t.blocks)}, k, s)}
    BY <2>1, <2>3, LookupIsRight
  <2> QED BY <2>4 DEF t
<1>2. Inv => LookupsFind
  BY <1>1 DEF LookupsFind
<1> QED BY <1>2, Invariance, PTL
(***************************************************************************)
(* Reading back.                                                           *)
(***************************************************************************)
Listing(blocks) == FlattenSeq([i \in DOMAIN blocks |-> BlockEntries(blocks[i])])
ListingOf(ts) == FlattenSeq([i \in DOMAIN ts |-> TableEntries(ts[i])])
BuilderEntries(b) == Listing(b.blocks) \o BlockEntries(b.block)
Back(s) == [i \in DOMAIN s |-> Parsed(s[i])]

\* What was given is what the tables and the builder have.
BackInv ==
    /\ ListingOf(tables) \o BuilderEntries(builder) = Back(given)
    /\ finished => builder = NewBuilder

LEMMA ParsedType ==
    ASSUME NEW e \in Written PROVE Parsed(e) \in Written
BY TableAssumption DEF Parsed, Written

LEMMA SegmentEntriesType ==
    ASSUME NEW seg \in Segment
    PROVE  /\ SegmentEntries(seg) \in Seq(Written)
           /\ Len(SegmentEntries(seg)) = Len(seg.items)
<1>1. seg.items \in Seq(Written) /\ Len(seg.items) \in Nat /\ DOMAIN seg.items = 1 .. Len(seg.items)
      /\ \A j \in 1 .. Len(seg.items) : seg.items[j] \in Written
  BY DEF Segment
<1>2. SegmentEntries(seg) = [j \in 1 .. Len(seg.items) |-> Parsed(seg.items[j])]
  BY <1>1 DEF SegmentEntries
<1>3. \A j \in 1 .. Len(seg.items) : Parsed(seg.items[j]) \in Written
  BY <1>1, ParsedType
<1> QED BY <1>1, <1>2, <1>3

LEMMA BackAppended ==
    ASSUME NEW s \in Seq(Written), NEW e \in Written
    PROVE  Back(Append(s, e)) = Back(s) \o <<Parsed(e)>> /\ Back(s) \in Seq(Written)
<1> DEFINE k == Len(s)
           t == Append(s, e)
           a == [j \in 1 .. k |-> Parsed(s[j])]
           c == [j \in 1 .. k + 1 |-> Parsed(t[j])]
<1>1. k \in Nat /\ DOMAIN s = 1 .. k /\ \A j \in 1 .. k : s[j] \in Written
  OBVIOUS
<1>2. /\ DOMAIN t = 1 .. k + 1 /\ t[k + 1] = e /\ \A j \in 1 .. k : t[j] = s[j]
  BY Appended
<1>3. Back(s) = a
  BY <1>1 DEF Back
<1>4. Back(t) = c
  <2>1. Back(t) = [j \in DOMAIN t |-> Parsed(t[j])]
    BY DEF Back
  <2> HIDE DEF t, k
  <2> QED BY <1>2, <2>1
<1>5. (\A j \in 1 .. k : Parsed(s[j]) \in Written) /\ Parsed(e) \in Written
  BY <1>1, ParsedType
<1> HIDE DEF t, k
<1>6. a \in Seq(Written) /\ Len(a) = k /\ \A j \in 1 .. k : a[j] = Parsed(s[j])
  BY <1>1, <1>5
<1>7. /\ c[k + 1] = Parsed(e) /\ \A j \in 1 .. k : c[j] = Parsed(s[j])
  BY <1>1, <1>2
<1>8. c = [j \in 1 .. k + 1 |-> IF j <= k THEN a[j] ELSE Parsed(e)]
  <2>1. ASSUME NEW j \in 1 .. k + 1 PROVE c[j] = IF j <= k THEN a[j] ELSE Parsed(e)
    <3>1. CASE j <= k
      <4>1. j \in 1 .. k
        BY <1>1, <3>1
      <4> HIDE DEF a, c
      <4> QED BY <1>6, <1>7, <3>1, <4>1
    <3>2. CASE ~(j <= k)
      <4>1. j = k + 1
        BY <1>1, <3>2
      <4> HIDE DEF a, c
      <4> QED BY <1>7, <3>2, <4>1
    <3> QED BY <3>1, <3>2
  <2>2. c = [j \in 1 .. k + 1 |-> c[j]]
    OBVIOUS
  <2> HIDE DEF a, c
  <2> QED BY <2>1, <2>2
<1> HIDE DEF a, c
<1>9. c = a \o <<Parsed(e)>>
  BY <1>1, <1>5, <1>6, <1>8
<1> QED BY <1>3, <1>4, <1>6, <1>9 DEF t

Parts(blk) == [i \in DOMAIN blk.segs |-> SegmentEntries(blk.segs[i])]

LEMMA PartsAre ==
    ASSUME NEW blk \in Block
    PROVE  /\ Parts(blk) \in Seq(Seq(Written)) /\ Len(Parts(blk)) = Len(blk.segs)
           /\ Len(blk.segs) \in Nat
           /\ \A i \in 1 .. Len(blk.segs) : Parts(blk)[i] = SegmentEntries(blk.segs[i])
           /\ BlockEntries(blk) = FlattenSeq(Parts(blk)) /\ BlockEntries(blk) \in Seq(Written)
<1> DEFINE n == Len(blk.segs)
<1>1. n \in Nat /\ DOMAIN blk.segs = 1 .. n /\ \A i \in 1 .. n : blk.segs[i] \in Segment
  BY DEF Block
<1>2. Parts(blk) = [i \in 1 .. n |-> SegmentEntries(blk.segs[i])]
  BY <1>1 DEF Parts
<1>3. \A i \in 1 .. n : SegmentEntries(blk.segs[i]) \in Seq(Written)
  BY <1>1, SegmentEntriesType
<1>4. Parts(blk) \in Seq(Seq(Written)) /\ Len(Parts(blk)) = n
  <2> HIDE DEF n
  <2> QED BY <1>1, <1>2, <1>3
<1>5. BlockEntries(blk) = FlattenSeq(Parts(blk))
  BY DEF BlockEntries, Parts
<1>6. FlattenSeq(Parts(blk)) \in Seq(Written)
  BY <1>4, FlattenType
<1> QED BY <1>1, <1>2, <1>4, <1>5, <1>6

LEMMA EmptyBlockEntries ==
    ASSUME NEW blk, blk.segs = <<>> PROVE BlockEntries(blk) = <<>>
<1>1. [i \in DOMAIN blk.segs |-> SegmentEntries(blk.segs[i])] = <<>>
  OBVIOUS
<1> QED BY <1>1, FlattenNone DEF BlockEntries

\* An entry that is added to a block is the last that is read of it.
LEMMA BlockGives ==
    ASSUME NEW blk \in Block, NEW e \in Written, AddToBlock(blk, e) \in Block
    PROVE  BlockEntries(AddToBlock(blk, e)) = BlockEntries(blk) \o <<Parsed(e)>>
<1> DEFINE new == AddToBlock(blk, e)
           n == Len(blk.segs)
           ss == Parts(blk)
           tt == Parts(new)
<1>1. /\ n \in Nat /\ ss \in Seq(Seq(Written)) /\ Len(ss) = n
      /\ \A i \in 1 .. n : ss[i] = SegmentEntries(blk.segs[i])
      /\ BlockEntries(blk) = FlattenSeq(ss)
  BY PartsAre
<1>2. /\ Len(new.segs) \in Nat /\ tt \in Seq(Seq(Written)) /\ Len(tt) = Len(new.segs)
      /\ \A i \in 1 .. Len(new.segs) : tt[i] = SegmentEntries(new.segs[i])
      /\ BlockEntries(new) = FlattenSeq(tt)
  BY PartsAre
<1>3. /\ blk.segs \in Seq(Segment) /\ DOMAIN blk.segs = 1 .. n
      /\ \A i \in 1 .. n : blk.segs[i] \in Segment
  BY DEF Block
<1>4. Parsed(e) \in Written
  BY ParsedType
<1> HIDE DEF new
<1>5. CASE Continues(blk, e)
  <2> DEFINE seg == blk.segs[n]
             seg2 == new.segs[n]
  <2>1. n \in Nat \ {0} /\ n \in 1 .. n /\ seg \in Segment
    BY <1>1, <1>3, <1>5, EmptySeq DEF Continues
  <2>2. new.segs = [blk.segs EXCEPT ![n].items = Append(@, e)]
    <3>1. new = [blk EXCEPT !.segs[n].items = Append(@, e), !.bytes = @ + ItemBytes(e)]
      BY <1>5 DEF new, AddToBlock
    <3>2. blk = [segs |-> blk.segs, special |-> blk.special, bytes |-> blk.bytes]
      BY DEF Block
    <3> QED BY <3>1, <3>2
  <2>3. /\ Len(new.segs) = n /\ \A i \in 1 .. n - 1 : new.segs[i] = blk.segs[i]
        /\ seg2.items = Append(seg.items, e)
    <3>1. new.segs = [i \in 1 .. n |-> IF i = n THEN [seg EXCEPT !.items = Append(@, e)] ELSE blk.segs[i]]
      BY <1>3, <2>2
    <3>2. seg2 = [seg EXCEPT !.items = Append(@, e)]
      BY <2>1, <3>1
    <3>3. seg2.items = Append(seg.items, e)
      BY <2>1, <3>2 DEF Segment
    <3>4. Len(new.segs) = n
      BY <1>1, <3>1
    <3>5. \A i \in 1 .. n - 1 : new.segs[i] = blk.segs[i]
      <4>1. \A i \in 1 .. n - 1 : i \in 1 .. n /\ i # n
        BY <1>1
      <4> HIDE DEF n, seg
      <4> QED BY <3>1, <4>1
    <3> QED BY <3>3, <3>4, <3>5
  <2>4. SegmentEntries(seg2) = SegmentEntries(seg) \o <<Parsed(e)>>
    <3>1. seg.items \in Seq(Written)
      BY <2>1 DEF Segment
    <3>2. SegmentEntries(seg) = Back(seg.items) /\ SegmentEntries(seg2) = Back(Append(seg.items, e))
      BY <2>3 DEF SegmentEntries, Back
    <3> HIDE DEF seg, seg2
    <3> QED BY <3>1, <3>2, BackAppended
  <2>5. SegmentEntries(seg) = ss[n] /\ SegmentEntries(seg2) = tt[n]
    BY <1>1, <1>2, <2>1, <2>3
  <2>6. \A i \in 1 .. n - 1 : ss[i] = tt[i]
    <3>1. \A i \in 1 .. n - 1 : i \in 1 .. n
      BY <1>1
    <3> HIDE DEF n, ss, tt
    <3> QED BY <1>1, <1>2, <2>3, <3>1
  <2>7. PICK p \in Seq(Written) : FlattenSeq(ss) = p \o ss[n] /\ FlattenSeq(tt) = p \o tt[n]
    <3>1. /\ ss \in Seq(Seq(Written)) /\ tt \in Seq(Seq(Written)) /\ n \in Nat \ {0}
          /\ Len(ss) = n /\ Len(tt) = n /\ \A i \in 1 .. n - 1 : ss[i] = tt[i]
      BY <1>1, <1>2, <2>1, <2>3, <2>6
    <3> HIDE DEF n, ss, tt
    <3> QED BY <3>1, FlattenOther, ZenonT(120)
  <2> DEFINE x == <<Parsed(e)>>
             y == ss[n]
  <2>8. x \in Seq(Written) /\ y \in Seq(Written)
    <3>1. ss[n] \in Seq(Written)
      BY <1>1, <2>1
    <3> QED BY <1>4, <3>1
  <2>9. tt[n] = y \o x
    BY <2>4, <2>5
  <2> HIDE DEF ss, tt, n, x, y
  <2>10. p \o (y \o x) = (p \o y) \o x
    BY <2>8, ConcatAssociative
  <2>11. FlattenSeq(tt) = FlattenSeq(ss) \o x
    BY <2>7, <2>9, <2>10 DEF y
  <2> QED BY <1>1, <1>2, <2>11 DEF x, new
<1>6. CASE ~Continues(blk, e)
  <2> DEFINE seg == [key |-> e.key, items |-> <<e>>]
  <2>1. new.segs = Append(blk.segs, seg)
    BY <1>6 DEF new, AddToBlock
  <2>2. seg \in Segment
    <3>1. e.key \in Key /\ <<e>> \in Seq(Written)
      BY DEF Written
    <3> QED BY <3>1 DEF Segment
  <2>3. SegmentEntries(seg) = <<Parsed(e)>>
    <3>1. seg.items = <<e>> /\ DOMAIN <<e>> = 1 .. 1 /\ <<e>>[1] = e
      OBVIOUS
    <3>2. SegmentEntries(seg) = [j \in 1 .. 1 |-> Parsed(<<e>>[j])]
      BY <3>1 DEF SegmentEntries
    <3> QED BY <3>2
  <2> HIDE DEF seg
  <2>4. /\ Len(new.segs) = n + 1 /\ new.segs[n + 1] = seg
        /\ \A i \in 1 .. n : new.segs[i] = blk.segs[i]
    BY <1>3, <2>1, <2>2, Appended
  <2>5. tt[n + 1] = <<Parsed(e)>>
    <3>1. n + 1 \in 1 .. Len(new.segs)
      BY <1>1, <2>4
    <3> HIDE DEF n, tt
    <3> QED BY <1>2, <2>3, <2>4, <3>1
  <2>6. \A i \in 1 .. n : ss[i] = tt[i]
    <3>1. \A i \in 1 .. n : i \in 1 .. Len(new.segs)
      BY <1>1, <2>4
    <3> HIDE DEF n, ss, tt
    <3> QED BY <1>1, <1>2, <2>4, <3>1
  <2>7. FlattenSeq(tt) = FlattenSeq(ss) \o tt[n + 1]
    <3>1. Len(tt) = n + 1 /\ Len(ss) = n /\ ss \in Seq(Seq(Written)) /\ tt \in Seq(Seq(Written))
          /\ n \in Nat
      BY <1>1, <1>2, <2>4
    <3> HIDE DEF n, ss, tt
    <3> QED BY <2>6, <3>1, FlattenMore
  <2> HIDE DEF ss, tt, n
  <2> QED BY <1>1, <1>2, <2>5, <2>7 DEF new
<1> QED BY <1>5, <1>6

LEMMA ListingAre ==
    ASSUME NEW blocks \in Seq(Block)
    PROVE  /\ Listing(blocks) \in Seq(Written)
           /\ \A blk \in Block : Listing(Append(blocks, blk)) = Listing(blocks) \o BlockEntries(blk)
<1> DEFINE M(bs) == [i \in DOMAIN bs |-> BlockEntries(bs[i])]
<1>1. ASSUME NEW bs \in Seq(Block)
      PROVE  /\ M(bs) \in Seq(Seq(Written)) /\ Len(M(bs)) = Len(bs)
             /\ \A i \in 1 .. Len(bs) : M(bs)[i] = BlockEntries(bs[i])
  <2> DEFINE n == Len(bs)
  <2>1. n \in Nat /\ DOMAIN bs = 1 .. n /\ \A i \in 1 .. n : bs[i] \in Block
    OBVIOUS
  <2>2. M(bs) = [i \in 1 .. n |-> BlockEntries(bs[i])]
    BY <2>1
  <2>3. \A i \in 1 .. n : BlockEntries(bs[i]) \in Seq(Written)
    BY <2>1, PartsAre
  <2> HIDE DEF n, M
  <2>4. M(bs) \in Seq(Seq(Written)) /\ Len(M(bs)) = n
    BY <2>1, <2>2, <2>3
  <2> QED BY <2>2, <2>4 DEF n
<1>2. \A bs : Listing(bs) = FlattenSeq(M(bs))
  BY DEF Listing
<1> HIDE DEF M
<1>3. Listing(blocks) \in Seq(Written)
  BY <1>1, <1>2, FlattenType
<1>4. ASSUME NEW blk \in Block
      PROVE  Listing(Append(blocks, blk)) = Listing(blocks) \o BlockEntries(blk)
  <2> DEFINE bs == Append(blocks, blk)
             n == Len(blocks)
             ss == M(blocks)
             tt == M(bs)
  <2>1. /\ bs \in Seq(Block) /\ n \in Nat /\ Len(bs) = n + 1 /\ bs[n + 1] = blk
        /\ \A i \in 1 .. n : bs[i] = blocks[i]
    BY Appended
  <2> HIDE DEF bs
  <2>2. /\ ss \in Seq(Seq(Written)) /\ Len(ss) = n
        /\ \A i \in 1 .. n : ss[i] = BlockEntries(blocks[i])
    BY <1>1
  <2>3. /\ tt \in Seq(Seq(Written)) /\ Len(tt) = n + 1
        /\ \A i \in 1 .. n + 1 : tt[i] = BlockEntries(bs[i])
    BY <1>1, <2>1
  <2> HIDE DEF n, ss, tt
  <2>4. \A i \in 1 .. n : ss[i] = tt[i]
    <3>1. \A i \in 1 .. n : i \in 1 .. n + 1
      BY <2>1
    <3> QED BY <2>1, <2>2, <2>3, <3>1
  <2>5. tt[n + 1] = BlockEntries(blk)
    <3>1. n + 1 \in 1 .. n + 1
      BY <2>1
    <3> QED BY <2>1, <2>3, <3>1
  <2>6. Len(ss) = n /\ Len(tt) = n + 1 /\ ss \in Seq(Seq(Written)) /\ tt \in Seq(Seq(Written)) /\ n \in Nat
    BY <2>1, <2>2, <2>3
  <2>7. FlattenSeq(tt) = FlattenSeq(ss) \o tt[n + 1]
    BY <2>4, <2>6, FlattenMore
  <2> QED BY <1>2, <2>5, <2>7 DEF bs, ss, tt
<1> QED BY <1>3, <1>4

LEMMA TableEntriesIs ==
    ASSUME NEW t PROVE TableEntries(t) = Listing(t.blocks)
BY DEF TableEntries, Listing

LEMMA ListingOfAre ==
    ASSUME NEW ts \in Seq(Table)
    PROVE  /\ ListingOf(ts) \in Seq(Written)
           /\ \A t \in Table : ListingOf(Append(ts, t)) = ListingOf(ts) \o TableEntries(t)
<1> DEFINE M(bs) == [i \in DOMAIN bs |-> TableEntries(bs[i])]
<1>1. ASSUME NEW bs \in Seq(Table)
      PROVE  /\ M(bs) \in Seq(Seq(Written)) /\ Len(M(bs)) = Len(bs)
             /\ \A i \in 1 .. Len(bs) : M(bs)[i] = TableEntries(bs[i])
  <2> DEFINE n == Len(bs)
  <2>1. n \in Nat /\ DOMAIN bs = 1 .. n /\ \A i \in 1 .. n : bs[i] \in Table
    OBVIOUS
  <2>2. M(bs) = [i \in 1 .. n |-> TableEntries(bs[i])]
    BY <2>1
  <2>3. ASSUME NEW t \in Table PROVE TableEntries(t) \in Seq(Written)
    <3>1. t.blocks \in Seq(Block)
      BY DEF Table
    <3> QED BY <3>1, ListingAre, TableEntriesIs
  <2> HIDE DEF n, M
  <2>4. M(bs) \in Seq(Seq(Written)) /\ Len(M(bs)) = n
    BY <2>1, <2>2, <2>3
  <2> QED BY <2>2, <2>4 DEF n
<1>2. \A bs : ListingOf(bs) = FlattenSeq(M(bs))
  BY DEF ListingOf
<1> HIDE DEF M
<1>3. ListingOf(ts) \in Seq(Written)
  BY <1>1, <1>2, FlattenType
<1>4. ASSUME NEW t \in Table
      PROVE  ListingOf(Append(ts, t)) = ListingOf(ts) \o TableEntries(t)
  <2> DEFINE bs == Append(ts, t)
             n == Len(ts)
             ss == M(ts)
             tt == M(bs)
  <2>1. /\ bs \in Seq(Table) /\ n \in Nat /\ Len(bs) = n + 1 /\ bs[n + 1] = t
        /\ \A i \in 1 .. n : bs[i] = ts[i]
    BY Appended
  <2> HIDE DEF bs
  <2>2. /\ ss \in Seq(Seq(Written)) /\ Len(ss) = n
        /\ \A i \in 1 .. n : ss[i] = TableEntries(ts[i])
    BY <1>1
  <2>3. /\ tt \in Seq(Seq(Written)) /\ Len(tt) = n + 1
        /\ \A i \in 1 .. n + 1 : tt[i] = TableEntries(bs[i])
    BY <1>1, <2>1
  <2> HIDE DEF n, ss, tt
  <2>4. \A i \in 1 .. n : ss[i] = tt[i]
    <3>1. \A i \in 1 .. n : i \in 1 .. n + 1
      BY <2>1
    <3> QED BY <2>1, <2>2, <2>3, <3>1
  <2>5. tt[n + 1] = TableEntries(t)
    <3>1. n + 1 \in 1 .. n + 1
      BY <2>1
    <3> QED BY <2>1, <2>3, <3>1
  <2>6. Len(ss) = n /\ Len(tt) = n + 1 /\ ss \in Seq(Seq(Written)) /\ tt \in Seq(Seq(Written)) /\ n \in Nat
    BY <2>1, <2>2, <2>3
  <2>7. FlattenSeq(tt) = FlattenSeq(ss) \o tt[n + 1]
    BY <2>4, <2>6, FlattenMore
  <2> QED BY <1>2, <2>5, <2>7 DEF bs, ss, tt
<1> QED BY <1>3, <1>4

\* A builder gives what was added to it, in turn.
LEMMA BuilderGives ==
    ASSUME NEW b, GoodBuilder(b), NEW e \in Written, AllBefore(Held(b), {e})
    PROVE  /\ BuilderEntries(AddTo(b, e)) = BuilderEntries(b) \o <<Parsed(e)>>
           /\ BuilderEntries(b) \in Seq(Written)
<1> DEFINE blk == AddToBlock(b.block, e)
           new == AddTo(b, e)
           p == Listing(b.blocks)
           q == BlockEntries(b.block)
           x == <<Parsed(e)>>
<1>1. b.block \in Block /\ b.blocks \in Seq(Block) /\ SortedBlock(b.block)
  BY DEF GoodBuilder, Builder
<1>2. blk \in Block
  <2>1. AllBefore(BlockHolds(b.block), {e})
    BY DEF AllBefore, Held
  <2> QED BY <1>1, <2>1, AddedToBlock
<1>3. BlockEntries(blk) = q \o x
  BY <1>1, <1>2, BlockGives
<1>4. p \in Seq(Written) /\ q \in Seq(Written) /\ x \in Seq(Written)
  <2>1. Parsed(e) \in Written
    BY ParsedType
  <2>2. x \in Seq(Written)
    BY <2>1
  <2> QED BY <1>1, <2>2, ListingAre, PartsAre
<1>5. BuilderEntries(new) = p \o BlockEntries(blk)
  <2>1. CASE blk.bytes >= BlockSize
    <3>1. new.block = EmptyBlock /\ new.blocks = Append(b.blocks, blk)
      BY <2>1 DEF AddTo, BlockAfterFlush
    <3>2. Listing(new.blocks) = p \o BlockEntries(blk)
      BY <1>1, <1>2, <3>1, ListingAre
    <3>3. BlockEntries(new.block) = <<>>
      BY <3>1, EmptyBlockEntries DEF EmptyBlock
    <3>4. Listing(new.blocks) \in Seq(Written)
      BY <1>1, <1>2, <3>1, Appended, ListingAre
    <3>5. BuilderEntries(new) = Listing(new.blocks) \o <<>>
      BY <3>3 DEF BuilderEntries
    <3> HIDE DEF new, blk, p
    <3> QED BY <3>2, <3>4, <3>5, ConcatEmptySeq
  <2>2. CASE ~(blk.bytes >= BlockSize)
    <3>1. new.block = blk /\ new.blocks = b.blocks
      BY <2>2 DEF AddTo
    <3> QED BY <3>1 DEF BuilderEntries
  <2> QED BY <2>1, <2>2
<1>6. BuilderEntries(b) = p \o q
  BY DEF BuilderEntries
<1> HIDE DEF p, q, x, blk, new
<1>7. p \o (q \o x) = (p \o q) \o x /\ p \o q \in Seq(Written)
  <2>1. (p \o q) \o x = p \o (q \o x)
    BY <1>4, ConcatAssociative, SMTT(30)
  <2>2. p \o q \in Seq(Written)
    BY <1>4
  <2> QED BY <2>1, <2>2
<1> QED BY <1>3, <1>5, <1>6, <1>7 DEF x, new

\* A table that is finished has what its builder had.
LEMMA FinishedGives ==
    ASSUME NEW b \in Builder
    PROVE  /\ TableEntries(FinishTable(b)) = BuilderEntries(b)
           /\ BuilderEntries(b) \in Seq(Written)
<1>1. b.block \in Block /\ b.blocks \in Seq(Block)
  BY DEF Builder
<1>2. Listing(b.blocks) \in Seq(Written) /\ BlockEntries(b.block) \in Seq(Written)
  BY <1>1, ListingAre, PartsAre
<1>3. BuilderEntries(b) \in Seq(Written)
  BY <1>2, ConcatProperties DEF BuilderEntries
<1>4. CASE b.block.segs = <<>>
  <2>1. FinishTable(b).blocks = b.blocks
    BY <1>4 DEF FinishTable
  <2>2. BuilderEntries(b) = Listing(b.blocks) \o <<>>
    BY <1>4, EmptyBlockEntries DEF BuilderEntries
  <2> QED BY <1>2, <1>3, <2>1, <2>2, TableEntriesIs, ConcatEmptySeq
<1>5. CASE b.block.segs # <<>>
  <2>1. FinishTable(b).blocks = Append(b.blocks, b.block)
    BY <1>5 DEF FinishTable
  <2> QED BY <1>1, <1>3, <2>1, TableEntriesIs, ListingAre DEF BuilderEntries
<1> QED BY <1>4, <1>5

LEMMA NewBuilderEntries == BuilderEntries(NewBuilder) = <<>>
<1>1. NewBuilder.block = EmptyBlock /\ NewBuilder.blocks = <<>>
  BY DEF NewBuilder
<1>2. Listing(<<>>) = <<>>
  <2>1. [i \in DOMAIN <<>> |-> BlockEntries(<<>>[i])] = <<>>
    OBVIOUS
  <2> QED BY <2>1, FlattenNone DEF Listing
<1>3. BlockEntries(EmptyBlock) = <<>>
  BY EmptyBlockEntries DEF EmptyBlock
<1>4. <<>> \o <<>> = <<>>
  BY EmptySeq, ConcatEmptySeq
<1> QED BY <1>1, <1>2, <1>3, <1>4 DEF BuilderEntries

LEMMA BackInvInit == TablesInit => BackInv
<1> SUFFICES ASSUME TablesInit PROVE BackInv
  OBVIOUS
<1>1. builder = NewBuilder /\ tables = <<>> /\ given = <<>> /\ finished = FALSE
  BY DEF TablesInit
<1>2. ListingOf(<<>>) = <<>> /\ Back(<<>>) = <<>>
  <2>1. [i \in DOMAIN <<>> |-> TableEntries(<<>>[i])] = <<>>
    OBVIOUS
  <2>2. [i \in DOMAIN <<>> |-> Parsed(<<>>[i])] = <<>>
    OBVIOUS
  <2> QED BY <2>1, <2>2, FlattenNone DEF ListingOf, Back
<1>3. <<>> \o <<>> = <<>>
  BY EmptySeq, ConcatEmptySeq
<1> QED BY <1>1, <1>2, <1>3, NewBuilderEntries DEF BackInv

LEMMA BackInvNext == Inv /\ BackInv /\ [TablesNext]_tablesVars => BackInv'
<1> SUFFICES ASSUME Inv, BackInv, [TablesNext]_tablesVars PROVE BackInv'
  OBVIOUS
<1> DEFINE p == ListingOf(tables)
           q == BuilderEntries(builder)
<1>1. /\ tables \in Seq(Table) /\ builder \in Builder /\ GoodBuilder(builder)
      /\ given \in Seq(Written) /\ p \o q = Back(given)
      /\ \A e \in Written : /\ Back(Append(given, e)) = Back(given) \o <<Parsed(e)>>
                            /\ <<Parsed(e)>> \in Seq(Written)
  <2>1. \A e \in Written : <<Parsed(e)>> \in Seq(Written)
    <3>1. \A e \in Written : Parsed(e) \in Written
      BY ParsedType
    <3> QED BY <3>1
  <2> QED BY <2>1, BackAppended DEF Inv, GoodBuilder, BackInv
<1>2. p \in Seq(Written) /\ q \in Seq(Written)
  BY <1>1, ListingOfAre, FinishedGives
<1>3. ASSUME Held(builder) # {}
      PROVE  ListingOf(Append(tables, FinishTable(builder))) = p \o q
  <2>1. FinishTable(builder) \in Table
    BY <1>1, <1>3, FinishedTable DEF GoodTable
  <2> QED BY <1>1, <2>1, ListingOfAre, FinishedGives
<1> HIDE DEF p, q
<1>4. ASSUME NEW e \in Listed, Add(e)
      PROVE  BackInv'
  <2>1. Give(e) /\ builder' = AddTo(builder, e) /\ tables' = tables
    BY <1>4 DEF Add
  <2>2. e \in Written /\ AllBefore(Held(builder), {e})
    BY <2>1, NextIsLast
  <2>3. given' = Append(given, e) /\ ~finished'
    BY <2>1 DEF Give
  <2>4. BuilderEntries(builder') = q \o <<Parsed(e)>>
    BY <1>1, <2>1, <2>2, BuilderGives DEF q
  <2> DEFINE x == <<Parsed(e)>>
  <2>5. x \in Seq(Written) /\ Back(given') = (p \o q) \o x
    BY <1>1, <2>2, <2>3
  <2>6. ListingOf(tables') = p
    BY <2>1 DEF p
  <2> HIDE DEF x
  <2>7. p \o (q \o x) = (p \o q) \o x
    <3>1. x \in Seq(Written) /\ p \in Seq(Written) /\ q \in Seq(Written)
      BY <1>2, <2>5
    <3>2. (p \o q) \o x = p \o (q \o x)
      BY <3>1, ConcatAssociative, SMTT(30)
    <3> QED BY <3>2
  <2> QED BY <2>3, <2>4, <2>5, <2>6, <2>7 DEF BackInv, x
<1>5. ASSUME NEW e \in Listed, AddToNext(e)
      PROVE  BackInv'
  <2>1. /\ Give(e) /\ ReachesTheSizeLimit(builder)
        /\ builder' = AddTo(NewBuilder, e)
        /\ tables' = Append(tables, FinishTable(builder))
    BY <1>5 DEF AddToNext
  <2>2. e \in Written
    BY <2>1, NextIsLast
  <2>3. given' = Append(given, e) /\ ~finished'
    BY <2>1 DEF Give
  <2>4. Held(builder) # {}
    <3>1. builder.flushed >= SizeLimit /\ SizeLimit \in Nat \ {0}
      BY <2>1, TableAssumption DEF ReachesTheSizeLimit
    <3>2. builder.flushed # 0
      BY <3>1
    <3> QED BY <1>1, <3>2 DEF GoodBuilder
  <2>5. ListingOf(tables') = p \o q
    BY <1>3, <2>1, <2>4
  <2> DEFINE x == <<Parsed(e)>>
  <2>6. x \in Seq(Written) /\ Back(given') = (p \o q) \o x
    BY <1>1, <2>2, <2>3
  <2>7. BuilderEntries(builder') = x
    <3>1. AllBefore(Held(NewBuilder), {e})
      BY NewBuilderIsGood DEF AllBefore
    <3>2. BuilderEntries(builder') = <<>> \o x
      BY <2>1, <2>2, <3>1, NewBuilderIsGood, BuilderGives, NewBuilderEntries
    <3> HIDE DEF x
    <3> QED BY <2>6, <3>2, ConcatEmptySeq
  <2> HIDE DEF x
  <2> QED BY <2>3, <2>5, <2>6, <2>7 DEF BackInv
<1>6. ASSUME Finish
      PROVE  BackInv'
  <2>1. /\ ~finished /\ given # <<>> /\ given' = given /\ finished' = TRUE
        /\ builder' = NewBuilder
        /\ tables' = Append(tables, FinishTable(builder))
    BY <1>6 DEF Finish
  <2>2. Held(builder) # {}
    BY <2>1 DEF Inv
  <2>3. ListingOf(tables') = p \o q
    BY <1>3, <2>1, <2>2
  <2>4. BuilderEntries(builder') = <<>>
    BY <2>1, NewBuilderEntries
  <2>5. (p \o q) \o <<>> = p \o q
    <3>1. p \o q \in Seq(Written)
      BY <1>2, ConcatProperties
    <3> QED BY <3>1, ConcatEmptySeq
  <2>6. Back(given') = p \o q
    BY <1>1, <2>1
  <2> QED BY <2>1, <2>3, <2>4, <2>5, <2>6 DEF BackInv
<1>7. CASE UNCHANGED tablesVars
  BY <1>7 DEF tablesVars, BackInv
<1> QED BY <1>4, <1>5, <1>6, <1>7 DEF TablesNext

LEMMA BackInvSays == Inv /\ BackInv => ReadBack
<1> SUFFICES ASSUME Inv, BackInv, finished PROVE ListingOf(tables) = Back(given)
  BY DEF ReadBack, ListingOf, Back
<1>1. ListingOf(tables) \o <<>> = Back(given)
  BY NewBuilderEntries DEF BackInv
<1>2. ListingOf(tables) \in Seq(Written)
  BY ListingOfAre DEF Inv
<1> QED BY <1>1, <1>2, ConcatEmptySeq

\* Whatever sizes of blocks and tables cut the list, where intervals start, and
\* how long keys and values are, reading the tables one after the other gives
\* back the list they were built from.
THEOREM TablesReadBack == TablesSpec => []ReadBack
BY InvInit, InvNext, BackInvInit, BackInvNext, BackInvSays, PTL DEF TablesSpec

(***************************************************************************)
(* Bytes                                                                   *)
(***************************************************************************)
MetaName == {"last_uk", "first_uk", "bloom_filter"}
Datum == Nat \cup Value \cup MetaName \cup SUBSET Key
Field == {"ppl", "ril", "sbso", "nsbs",
          "uk", "seq", "len", "value", "name", "filter"}
Cell == Field \X Datum \X Nat

LEMMA FieldsAre ==
    /\ "ppl" \in Field /\ "ril" \in Field /\ "sbso" \in Field
    /\ "nsbs" \in Field /\ "uk" \in Field /\ "seq" \in Field
    /\ "len" \in Field /\ "value" \in Field /\ "name" \in Field /\ "filter" \in Field
BY DEF Field

LEMMA DataAre ==
    /\ \A n \in Nat : n \in Datum
    /\ \A v \in Value : v \in Datum
    /\ \A f \in SUBSET Key : f \in Datum
    /\ \A x \in MetaName : x \in Datum
BY Zenon DEF Datum

\* The cells of s behind q are those of t.
LiesAt(s, q, t) == \A i \in 1 .. Len(t) : s[q + i] = t[i]

LEMMA LiesParts ==
    ASSUME NEW S, NEW u \in Seq(S), NEW v \in Seq(S), NEW s, NEW q \in Nat, LiesAt(s, q, u \o v)
    PROVE  LiesAt(s, q, u) /\ LiesAt(s, q + Len(u), v)
<1> DEFINE w == u \o v
<1>1. Joined(w, u, v, S) /\ Len(u) \in Nat /\ Len(v) \in Nat
  BY ConcatIs
<1>2. \A i \in 1 .. Len(w) : s[q + i] = w[i]
  BY DEF LiesAt
<1> HIDE DEF w
<1>3. Len(w) = Len(u) + Len(v)
  BY <1>1 DEF Joined
<1>4. ASSUME NEW i \in 1 .. Len(u) PROVE s[q + i] = u[i]
  <2>1. i \in 1 .. Len(w)
    BY <1>1, <1>3
  <2> QED BY <1>1, <1>2, <2>1 DEF Joined
<1>5. ASSUME NEW i \in 1 .. Len(v) PROVE s[(q + Len(u)) + i] = v[i]
  <2>1. Len(u) + i \in 1 .. Len(w) /\ q + (Len(u) + i) = (q + Len(u)) + i
    BY <1>1, <1>3
  <2>2. s[q + (Len(u) + i)] = w[Len(u) + i]
    BY <1>2, <2>1
  <2>3. w[Len(u) + i] = v[i]
    BY <1>1 DEF Joined
  <2> QED BY <2>1, <2>2, <2>3
<1> QED BY <1>4, <1>5 DEF LiesAt

LEMMA LiesWithin ==
    ASSUME NEW s, NEW c, NEW t, NEW q \in Nat, NEW p \in Nat, Len(c) \in Nat, Len(t) \in Nat,
           LiesAt(s, q, c), LiesAt(c, p, t), p + Len(t) <= Len(c)
    PROVE  LiesAt(s, q + p, t)
<1>1. ASSUME NEW i \in 1 .. Len(t) PROVE s[(q + p) + i] = t[i]
  <2>1. p + i \in 1 .. Len(c) /\ q + (p + i) = (q + p) + i
    OBVIOUS
  <2>2. s[q + (p + i)] = c[p + i]
    BY <2>1 DEF LiesAt
  <2>3. c[p + i] = t[i]
    BY DEF LiesAt
  <2> QED BY <2>1, <2>2, <2>3
<1> QED BY <1>1 DEF LiesAt

LEMMA LiesFrom ==
    ASSUME NEW S, NEW t \in Seq(S), NEW s, NEW q \in Nat, LiesAt(s, q, t)
    PROVE  From(s, q, Len(t)) = t
<1> DEFINE n == Len(t)
           u == SubSeq(s, q + 1, q + n)
<1>1. n \in Nat /\ \A i \in 1 .. n : s[q + i] = t[i] /\ t[i] \in S
  BY DEF LiesAt
<1>2. \A i \in (q + 1) .. (q + n) : s[i] \in S
  <2>1. ASSUME NEW i \in (q + 1) .. (q + n) PROVE s[i] \in S
    <3>1. i - q \in 1 .. n /\ q + (i - q) = i
      BY <1>1
    <3> HIDE DEF n
    <3>2. s[q + (i - q)] \in S
      BY <1>1, <3>1
    <3> QED BY <3>1, <3>2
  <2> QED BY <2>1
<1> HIDE DEF n
<1>3. /\ u \in Seq(S) /\ Len(u) = IF q + 1 <= q + n THEN (q + n) - (q + 1) + 1 ELSE 0
      /\ \A i \in 1 .. (q + n) - (q + 1) + 1 : u[i] = s[(q + 1) + i - 1]
  <2>1. q + 1 \in Int /\ q + n \in Int
    BY <1>1
  <2> QED BY <1>2, <2>1, SubSeqProperties
<1> HIDE DEF u
<1>4. Len(u) = n
  BY <1>1, <1>3
<1>5. ASSUME NEW i \in 1 .. n PROVE u[i] = t[i]
  <2>1. (q + n) - (q + 1) + 1 = n /\ (q + 1) + i - 1 = q + i
    BY <1>1
  <2>2. u[i] = s[(q + 1) + i - 1]
    BY <1>3, <2>1
  <2> QED BY <1>1, <2>1, <2>2
<1>6. u = t
  BY <1>3, <1>4, <1>5, SeqEqual DEF n
<1> QED BY <1>6 DEF u, n, From

LEMMA ConcatLength ==
    ASSUME NEW S, NEW u \in Seq(S), NEW v \in Seq(S)
    PROVE  u \o v \in Seq(S) /\ Len(u \o v) = Len(u) + Len(v) /\ Len(u) \in Nat /\ Len(v) \in Nat
BY ConcatProperties

LEMMA IsSequence ==
    ASSUME NEW S, NEW n \in Nat, NEW f \in [1 .. n -> S]
    PROVE  f \in Seq(S) /\ Len(f) = n
OBVIOUS

LEMMA BytesAre ==
    ASSUME NEW f \in Field, NEW x \in Datum, NEW n \in Nat
    PROVE  Bytes(f, x, n) \in Seq(Cell) /\ Len(Bytes(f, x, n)) = n
<1>1. ASSUME NEW i \in 1 .. n PROVE <<f, x, i>> \in Cell
  <2>1. i \in Nat
    OBVIOUS
  <2> QED BY <2>1, Zenon DEF Cell
<1>2. Bytes(f, x, n) \in [1 .. n -> Cell]
  BY <1>1, Zenon DEF Bytes
<1> QED BY <1>2, IsSequence

LEMMA BytesLength ==
    ASSUME NEW f, NEW x, NEW n \in Nat
    PROVE  /\ Bytes(f, x, n) \in Seq({<<f, x, i>> : i \in 1 .. n})
           /\ Len(Bytes(f, x, n)) = n
           /\ n # 0 => Bytes(f, x, n)[1] = <<f, x, 1>>
<1>1. Bytes(f, x, n) \in [1 .. n -> {<<f, x, i>> : i \in 1 .. n}]
  BY DEF Bytes
<1>2. ASSUME n # 0 PROVE Bytes(f, x, n)[1] = <<f, x, 1>>
  <2>1. 1 \in 1 .. n
    BY <1>2
  <2> QED BY <2>1, Zenon DEF Bytes
<1> DEFINE T == {<<f, x, i>> : i \in 1 .. n}
<1>3. Bytes(f, x, n) \in Seq(T) /\ Len(Bytes(f, x, n)) = n
  <2> HIDE DEF T
  <2>1. Bytes(f, x, n) \in [1 .. n -> T]
    BY <1>1 DEF T
  <2> QED BY <2>1
<1> QED BY <1>2, <1>3

\* A field is read where it lies.
LEMMA BytesSay ==
    ASSUME NEW s, NEW q \in Nat, NEW f, NEW x, NEW n \in Nat \ {0}, LiesAt(s, q, Bytes(f, x, n))
    PROVE  ValueAt(s, q) = x /\ From(s, q, n) = Bytes(f, x, n)
<1>1. Len(Bytes(f, x, n)) = n /\ Bytes(f, x, n)[1] = <<f, x, 1>> /\ 1 \in 1 .. n
  <2>1. n \in Nat /\ n # 0 /\ 1 \in 1 .. n
    OBVIOUS
  <2> QED BY <2>1, BytesLength, Zenon
<1>2. s[q + 1] = <<f, x, 1>>
  BY <1>1 DEF LiesAt
<1>3. From(s, q, n) = Bytes(f, x, n)
  <2>1. Bytes(f, x, n) \in Seq({<<f, x, i>> : i \in 1 .. n})
    BY BytesLength
  <2>2. From(s, q, Len(Bytes(f, x, n))) = Bytes(f, x, n)
    BY <2>1, LiesFrom
  <2> QED BY <1>1, <2>2
<1> QED BY <1>2, <1>3 DEF ValueAt

\* What is cut into parts has each of them where the parts before it end.
LEMMA PartsLie ==
    ASSUME NEW S, NEW ss \in Seq(Seq(S))
    PROVE  \E o : /\ o \in [0 .. Len(ss) -> 0 .. Len(FlattenSeq(ss))]
                  /\ o[0] = 0 /\ o[Len(ss)] = Len(FlattenSeq(ss))
                  /\ \A i \in 1 .. Len(ss) :
                        o[i] = o[i - 1] + Len(ss[i]) /\ LiesAt(FlattenSeq(ss), o[i - 1], ss[i])
<1> DEFINE n == Len(ss)
           c == FlattenSeq(ss)
<1>1. PICK o : /\ Tiles(c, ss, o, S) /\ o[0] = 0 /\ o[n] = Len(c)
               /\ \A i \in 1 .. n : o[i] = o[i - 1] + Len(ss[i])
  BY FlattenTiles
<1>2. /\ c \in Seq(S) /\ o \in [0 .. n -> 0 .. Len(c)] /\ n \in Nat /\ Len(c) \in Nat
      /\ \A i \in 1 .. n : o[i - 1] <= o[i] /\ ss[i] = SubSeq(c, o[i - 1] + 1, o[i])
  BY <1>1 DEF Tiles
<1> HIDE DEF c, n
<1>3. ASSUME NEW i \in 1 .. n PROVE LiesAt(c, o[i - 1], ss[i])
  <2> DEFINE A == o[i - 1]
             B == o[i]
  <2>1. A \in 0 .. Len(c) /\ B \in 0 .. Len(c) /\ A <= B
    <3>1. i - 1 \in 0 .. n /\ i \in 0 .. n
      BY <1>2
    <3> QED BY <1>2, <3>1
  <2> HIDE DEF A, B
  <2>2. \A j \in 1 .. Len(SubSeq(c, A + 1, B)) : c[A + j] = SubSeq(c, A + 1, B)[j]
    BY <1>2, <2>1
  <2>3. ss[i] = SubSeq(c, A + 1, B)
    BY <1>2 DEF A, B
  <2> QED BY <2>2, <2>3 DEF LiesAt, A
<1> QED BY <1>1, <1>2, <1>3 DEF n, c

(***************************************************************************)
(* Parsing goes from one item to the next, and from segment to segment.    *)
(***************************************************************************)
\* What parsing adds at i to what it finds behind.
ItemThen(s, i, r) == [r EXCEPT !.items = <<From(s, i + Ril, ValueAt(s, i))>> \o @]
NoItem(s, i, N) == [items |-> <<>>, end |-> SegmentEnd(s, i, N)]

FindsItems(from, s, N) ==
    \A i \in 1 .. N :
        from[i] = IF ItemAt(s, i, N) THEN ItemThen(s, i, from[NextItem(s, i)]) ELSE NoItem(s, i, N)

LEMMA ItemsFromIs ==
    ASSUME NEW s, NEW N \in Nat
    PROVE  \E from : FindsItems(from, s, N) /\ \A i : ItemsFrom(s, i, N) = from[i]
<1> DEFINE T == {From(s, i + Ril, ValueAt(s, i)) : i \in 1 .. N}
           S == [items : Seq(T), end : Nat]
           next == [i \in 1 .. N |-> IF ItemAt(s, i, N) THEN NextItem(s, i) ELSE 0]
           base == [i \in 1 .. N |-> NoItem(s, i, N)]
           F == [p \in (1 .. N) \X S |-> ItemThen(s, p[1], p[2])]
           Def(f) == [j \in 1 .. N |->
                        IF ItemAt(s, j, N)
                        THEN [f[NextItem(s, j)] EXCEPT !.items =
                                 <<From(s, j + Ril, ValueAt(s, j))>> \o @]
                        ELSE [items |-> <<>>, end |-> SegmentEnd(s, j, N)]]
           from == CHOOSE f : f = Def(f)
<1>1. ASSUME NEW i \in 1 .. N PROVE ItemAt(s, i, N) <=> next[i] \in (i + 1) .. N
  <2>1. next[i] = IF ItemAt(s, i, N) THEN NextItem(s, i) ELSE 0
    OBVIOUS
  <2> HIDE DEF next
  <2>2. CASE ItemAt(s, i, N)
    BY <2>1, <2>2 DEF ItemAt
  <2>3. CASE ~ItemAt(s, i, N)
    BY <2>1, <2>3
  <2> QED BY <2>2, <2>3
<1>2. ASSUME NEW i \in 1 .. N, ItemAt(s, i, N)
      PROVE  next[i] = NextItem(s, i) /\ NextItem(s, i) \in 1 .. N
  <2>1. next[i] = NextItem(s, i)
    BY <1>2
  <2>2. NextItem(s, i) \in (i + 1) .. N
    BY <1>2 DEF ItemAt
  <2> QED BY <2>1, <2>2
<1>3. StepOn(F, N, S)
  <2>1. ASSUME NEW p \in (1 .. N) \X S PROVE ItemThen(s, p[1], p[2]) \in S
    <3>1. From(s, p[1] + Ril, ValueAt(s, p[1])) \in T
      OBVIOUS
    <3> DEFINE x == From(s, p[1] + Ril, ValueAt(s, p[1]))
    <3>2. p[2] \in S /\ p[2].items \in Seq(T)
      OBVIOUS
    <3> HIDE DEF T, x
    <3>3. <<x>> \o p[2].items \in Seq(T)
      <4>1. <<x>> \in Seq(T)
        BY <3>1 DEF x
      <4> QED BY <3>2, <4>1, ConcatProperties
    <3>4. [p[2] EXCEPT !.items = <<x>> \o p[2].items] \in S
      BY <3>2, <3>3
    <3> QED BY <3>4 DEF ItemThen, x
  <2> HIDE DEF S
  <2> QED BY <2>1 DEF StepOn
<1>4. base \in [1 .. N -> S]
  <2>1. ASSUME NEW i \in 1 .. N PROVE NoItem(s, i, N) \in S
    <3>1. <<>> \in Seq(T)
      BY EmptySeq
    <3>2. SegmentEnd(s, i, N) \in Nat
      BY DEF SegmentEnd, Ril
    <3> HIDE DEF T
    <3> QED BY <3>1, <3>2 DEF NoItem
  <2> HIDE DEF S
  <2> QED BY <2>1
<1>5. PICK f : Backward(f, N, S, next, base, F)
  <2> HIDE DEF S, next, base, F
  <2> QED BY <1>3, <1>4, BackwardRecursion
<1>6. f \in [1 .. N -> S]
      /\ \A i \in 1 .. N : f[i] = IF next[i] \in (i + 1) .. N THEN F[<<i, f[next[i]]>>] ELSE base[i]
  BY <1>5 DEF Backward
<1>7. ASSUME NEW i \in 1 .. N PROVE f[i] = Def(f)[i]
  <2>0. Def(f)[i] = IF ItemAt(s, i, N) THEN ItemThen(s, i, f[NextItem(s, i)]) ELSE NoItem(s, i, N)
    BY Zenon DEF ItemThen, NoItem
  <2> HIDE DEF Def
  <2>1. CASE ItemAt(s, i, N)
    <3>1. f[i] = F[<<i, f[NextItem(s, i)]>>]
      <4> HIDE DEF S, next, base, F
      <4> QED BY <1>1, <1>2, <1>6, <2>1
    <3>2. f[NextItem(s, i)] \in S
      <4> HIDE DEF S
      <4> QED BY <1>2, <1>6, <2>1
    <3>3. F[<<i, f[NextItem(s, i)]>>] = ItemThen(s, i, f[NextItem(s, i)])
      <4> HIDE DEF S
      <4> QED BY <3>2
    <3> QED BY <2>0, <2>1, <3>1, <3>3
  <2>2. CASE ~ItemAt(s, i, N)
    <3>1. f[i] = base[i]
      <4> HIDE DEF S, next, base, F
      <4> QED BY <1>1, <1>6, <2>2
    <3>2. base[i] = NoItem(s, i, N)
      OBVIOUS
    <3> QED BY <2>0, <2>2, <3>1, <3>2
  <2> QED BY <2>1, <2>2
<1>8. f = Def(f)
  <2>1. f = [i \in 1 .. N |-> f[i]]
    <3> HIDE DEF S
    <3> QED BY <1>6
  <2>2. Def(f) = [i \in 1 .. N |-> Def(f)[i]]
    OBVIOUS
  <2> HIDE DEF Def
  <2> QED BY <1>7, <2>1, <2>2
<1>9. from = Def(from)
  BY <1>8
<1>10. \A i : ItemsFrom(s, i, N) = from[i]
  BY Zenon DEF ItemsFrom
<1>11. ASSUME NEW g, g = Def(g) PROVE FindsItems(g, s, N)
  <2>1. ASSUME NEW i \in 1 .. N
        PROVE  g[i] = IF ItemAt(s, i, N) THEN ItemThen(s, i, g[NextItem(s, i)]) ELSE NoItem(s, i, N)
    <3>1. g[i] = Def(g)[i]
      BY <1>11, Zenon
    <3>2. Def(g)[i] = IF ItemAt(s, i, N) THEN ItemThen(s, i, g[NextItem(s, i)]) ELSE NoItem(s, i, N)
      BY Zenon DEF ItemThen, NoItem
    <3> QED BY <3>1, <3>2, Zenon
  <2> QED BY <2>1 DEF FindsItems
<1> HIDE DEF from, Def
<1> QED BY <1>9, <1>10, <1>11

\* The segment parsed at i, without its end.
SegmentOf(s, i, N) ==
    [prefix |-> SegmentAt(s, i, N).prefix, items |-> SegmentAt(s, i, N).items]

FindsSegments(from, s, N) ==
    \A i \in 1 .. N :
        from[i] = IF SegmentIn(s, i, N)
                  THEN <<SegmentOf(s, i, N)>> \o from[SegmentAt(s, i, N).end] ELSE <<>>

LEMMA SegmentsFromIs ==
    ASSUME NEW s, NEW N \in Nat
    PROVE  \E from : FindsSegments(from, s, N) /\ \A i : SegmentsFrom(s, i, N) = from[i]
<1> DEFINE T == {SegmentOf(s, i, N) : i \in 1 .. N}
           S == Seq(T)
           End(i) == SegmentAt(s, i, N).end
           next == [i \in 1 .. N |-> IF SegmentIn(s, i, N) THEN End(i) ELSE 0]
           base == [i \in 1 .. N |-> <<>>]
           F == [p \in (1 .. N) \X S |-> <<SegmentOf(s, p[1], N)>> \o p[2]]
           Def(f) == [i \in 1 .. N |->
                        IF SegmentIn(s, i, N)
                        THEN LET seg == SegmentAt(s, i, N)
                             IN  <<[prefix |-> seg.prefix, items |-> seg.items]>> \o f[seg.end]
                        ELSE <<>>]
           from == CHOOSE f : f = Def(f)
           Step(f, i) == IF SegmentIn(s, i, N) THEN <<SegmentOf(s, i, N)>> \o f[End(i)] ELSE <<>>
<1>1. ASSUME NEW i \in 1 .. N PROVE SegmentIn(s, i, N) <=> next[i] \in (i + 1) .. N
  <2>1. next[i] = IF SegmentIn(s, i, N) THEN End(i) ELSE 0
    OBVIOUS
  <2>2. SegmentIn(s, i, N) => End(i) \in (i + 1) .. N
    BY DEF SegmentIn
  <2> HIDE DEF next, End
  <2> QED BY <2>1, <2>2
<1>2. ASSUME NEW i \in 1 .. N, SegmentIn(s, i, N)
      PROVE  next[i] = End(i) /\ End(i) \in 1 .. N
  <2>1. next[i] = End(i)
    BY <1>2
  <2>2. End(i) \in (i + 1) .. N
    BY <1>2 DEF SegmentIn
  <2> HIDE DEF End
  <2> QED BY <2>1, <2>2
<1>3. StepOn(F, N, S)
  <2>1. ASSUME NEW p \in (1 .. N) \X S PROVE <<SegmentOf(s, p[1], N)>> \o p[2] \in S
    <3>1. SegmentOf(s, p[1], N) \in T
      OBVIOUS
    <3>2. <<SegmentOf(s, p[1], N)>> \in S /\ p[2] \in S
      <4> HIDE DEF T
      <4> QED BY <3>1
    <3> QED BY <3>2, ConcatProperties
  <2> HIDE DEF S
  <2> QED BY <2>1 DEF StepOn
<1>4. base \in [1 .. N -> S]
  <2>1. <<>> \in S
    BY EmptySeq
  <2> HIDE DEF S
  <2> QED BY <2>1
<1>5. PICK f : Backward(f, N, S, next, base, F)
  <2> HIDE DEF S, next, base, F
  <2> QED BY <1>3, <1>4, BackwardRecursion
<1>6. f \in [1 .. N -> S]
      /\ \A i \in 1 .. N : f[i] = IF next[i] \in (i + 1) .. N THEN F[<<i, f[next[i]]>>] ELSE base[i]
  BY <1>5 DEF Backward
<1>0. ASSUME NEW g, NEW i \in 1 .. N PROVE Def(g)[i] = Step(g, i)
  BY Zenon DEF SegmentOf
<1>7. ASSUME NEW i \in 1 .. N PROVE f[i] = Def(f)[i]
  <2>0. Def(f)[i] = Step(f, i)
    BY <1>0
  <2> HIDE DEF Def
  <2>1. CASE SegmentIn(s, i, N)
    <3>1. f[i] = F[<<i, f[End(i)]>>]
      <4> HIDE DEF S, next, base, F, End
      <4> QED BY <1>1, <1>2, <1>6, <2>1
    <3>2. f[End(i)] \in S
      <4> HIDE DEF S, End
      <4> QED BY <1>2, <1>6, <2>1
    <3>3. F[<<i, f[End(i)]>>] = <<SegmentOf(s, i, N)>> \o f[End(i)]
      <4> HIDE DEF S, End
      <4> QED BY <3>2
    <3> QED BY <2>0, <2>1, <3>1, <3>3
  <2>2. CASE ~SegmentIn(s, i, N)
    <3>1. f[i] = base[i]
      <4> HIDE DEF S, next, base, F
      <4> QED BY <1>1, <1>6, <2>2
    <3>2. base[i] = <<>>
      OBVIOUS
    <3> QED BY <2>0, <2>2, <3>1, <3>2
  <2> QED BY <2>1, <2>2
<1>8. f = Def(f)
  <2>1. f = [i \in 1 .. N |-> f[i]]
    <3> HIDE DEF S
    <3> QED BY <1>6
  <2>2. Def(f) = [i \in 1 .. N |-> Def(f)[i]]
    OBVIOUS
  <2> HIDE DEF Def
  <2> QED BY <1>7, <2>1, <2>2
<1>9. from = Def(from)
  BY <1>8
<1>10. \A i : SegmentsFrom(s, i, N) = from[i]
  BY Zenon DEF SegmentsFrom
<1>11. ASSUME NEW g, g = Def(g) PROVE FindsSegments(g, s, N)
  <2>1. ASSUME NEW i \in 1 .. N PROVE g[i] = Step(g, i)
    <3>1. g[i] = Def(g)[i]
      BY <1>11, Zenon
    <3> QED BY <1>0, <3>1, Zenon
  <2> QED BY <2>1 DEF FindsSegments
<1> HIDE DEF from, Def
<1> QED BY <1>9, <1>10, <1>11

\* Of one segment more, the offset is noted if it starts an interval.
LEMMA SpecialSegmentsAre ==
    /\ SpecialSegments(0) = <<>>
    /\ \A n \in Nat : SpecialSegments(n) \in Seq(Nat)
    /\ \A n \in Nat :
          SpecialSegments(n + 1) =
              IF StartsInterval(n + 1) THEN Append(SpecialSegments(n), n + 1)
              ELSE SpecialSegments(n)
<1> DEFINE Def(f, n) == [m \in 0 .. n |->
                IF m = 0 THEN <<>>
                ELSE IF StartsInterval(m) THEN Append(f[m - 1], m) ELSE f[m - 1]]
           special(n) == CHOOSE f : f = Def(f, n)
           Step(f, m) == IF m = 0 THEN <<>>
                ELSE IF StartsInterval(m) THEN Append(f[m - 1], m) ELSE f[m - 1]
           Special(f, n) == f \in [0 .. n -> Seq(Nat)] /\ \A m \in 0 .. n : f[m] = Step(f, m)
<1>1. ASSUME NEW n \in Nat PROVE Special(special(n), n) /\ SpecialSegments(n) = special(n)[n]
  <2> DEFINE F == [p \in (1 .. n) \X Seq(Nat) |->
                      IF StartsInterval(p[1]) THEN Append(p[2], p[1]) ELSE p[2]]
  <2>1. StepOn(F, n, Seq(Nat))
    <3>1. ASSUME NEW p \in (1 .. n) \X Seq(Nat)
          PROVE  (IF StartsInterval(p[1]) THEN Append(p[2], p[1]) ELSE p[2]) \in Seq(Nat)
      <4>1. p[1] \in Nat /\ p[2] \in Seq(Nat)
        OBVIOUS
      <4> QED BY <4>1, AppendProperties
    <3> QED BY <3>1 DEF StepOn
  <2>2. PICK f : Forward(f, n, Seq(Nat), <<>>, F)
    <3>1. <<>> \in Seq(Nat)
      BY EmptySeq
    <3> HIDE DEF F
    <3> QED BY <2>1, <3>1, ForwardRecursion
  <2>3. f \in [0 .. n -> Seq(Nat)] /\ \A m \in 0 .. n : f[m] = IF m = 0 THEN <<>> ELSE F[<<m, f[m - 1]>>]
    BY <2>2 DEF Forward
  <2>4. ASSUME NEW m \in 0 .. n PROVE f[m] = Step(f, m)
    <3>1. CASE m = 0
      BY <2>3, <3>1
    <3>2. CASE m # 0
      <4>1. m \in 1 .. n /\ m - 1 \in 0 .. n
        BY <3>2
      <4>2. f[m - 1] \in Seq(Nat) /\ f[m] = F[<<m, f[m - 1]>>]
        <5> HIDE DEF F
        <5> QED BY <2>3, <3>2, <4>1
      <4> QED BY <3>2, <4>1, <4>2
    <3> QED BY <3>1, <3>2
  <2>5. f = Def(f, n)
    <3>1. f = [m \in 0 .. n |-> f[m]]
      BY <2>3
    <3>2. [m \in 0 .. n |-> f[m]] = [m \in 0 .. n |-> Step(f, m)]
      <4> HIDE DEF Step
      <4> QED BY <2>4
    <3> QED BY <3>1, <3>2
  <2>6. special(n) = Def(special(n), n)
    BY <2>5
  <2>7. ASSUME NEW g, g = Def(g, n) PROVE Special(g, n)
    <3>1. ASSUME NEW m \in 0 .. n PROVE g[m] = Step(g, m)
      BY <2>7, Zenon
    <3> DEFINE T == {k \in Nat : k <= n => g[k] = f[k]}
    <3>2. 0 \in T
      BY <2>4, <3>1
    <3>3. ASSUME NEW k \in Nat, k \in T PROVE k + 1 \in T
      <4> SUFFICES ASSUME k + 1 <= n PROVE g[k + 1] = f[k + 1]
        OBVIOUS
      <4>1. k + 1 \in 0 .. n /\ k + 1 # 0 /\ (k + 1) - 1 = k /\ g[k] = f[k]
        BY <3>3
      <4> QED BY <2>4, <3>1, <4>1
    <3> HIDE DEF T
    <3>4. \A k \in Nat : k \in T
      BY <3>2, <3>3, SetInduction
    <3>5. \A k \in 0 .. n : g[k] = f[k]
      BY <3>4 DEF T
    <3>6. g \in [0 .. n -> Seq(Nat)]
      <4>1. DOMAIN g = 0 .. n /\ g = [k \in DOMAIN g |-> g[k]]
        BY <2>7, Zenon
      <4>2. \A k \in 0 .. n : g[k] \in Seq(Nat)
        BY <2>3, <3>5
      <4> QED BY <4>1, <4>2
    <3> HIDE DEF Step
    <3> QED BY <3>1, <3>6
  <2>8. SpecialSegments(n) = special(n)[n]
    BY Zenon DEF SpecialSegments
  <2> HIDE DEF special, Def, Special
  <2> QED BY <2>6, <2>7, <2>8
<1> HIDE DEF special
<1>2. ASSUME NEW n \in Nat, NEW f, Special(f, n), NEW g, Special(g, n + 1)
      PROVE  f[n] = g[n]
  <2> DEFINE T == {k \in Nat : k <= n => g[k] = f[k]}
  <2>1. 0 \in T
    <3>1. 0 \in 0 .. n /\ 0 \in 0 .. n + 1
      OBVIOUS
    <3> QED BY <1>2, <3>1
  <2>2. ASSUME NEW k \in Nat, k \in T PROVE k + 1 \in T
    <3> SUFFICES ASSUME k + 1 <= n PROVE g[k + 1] = f[k + 1]
      OBVIOUS
    <3>1. k + 1 \in 0 .. n /\ k + 1 \in 0 .. n + 1 /\ k + 1 # 0 /\ (k + 1) - 1 = k /\ g[k] = f[k]
      BY <2>2
    <3>2. f[k + 1] = Step(f, k + 1) /\ g[k + 1] = Step(g, k + 1)
      <4> HIDE DEF Step
      <4> QED BY <1>2, <3>1
    <3> QED BY <3>1, <3>2
  <2> HIDE DEF T
  <2>3. n \in T
    BY <2>1, <2>2, SetInduction
  <2> QED BY <2>3 DEF T
<1>3. SpecialSegments(0) = <<>>
  <2>1. 0 \in Nat /\ 0 \in 0 .. 0
    OBVIOUS
  <2> QED BY <1>1, <2>1
<1>4. ASSUME NEW n \in Nat PROVE SpecialSegments(n) \in Seq(Nat)
  <2>1. n \in 0 .. n
    OBVIOUS
  <2> HIDE DEF Step
  <2> QED BY <1>1, <2>1
<1>5. ASSUME NEW n \in Nat
      PROVE  SpecialSegments(n + 1) =
                IF StartsInterval(n + 1) THEN Append(SpecialSegments(n), n + 1)
                ELSE SpecialSegments(n)
  <2>1. n + 1 \in Nat /\ n + 1 \in 0 .. n + 1 /\ n + 1 # 0 /\ (n + 1) - 1 = n
    OBVIOUS
  <2>2. Special(special(n), n) /\ Special(special(n + 1), n + 1)
    <3> HIDE DEF Special
    <3> QED BY <1>1, <2>1
  <2>3. special(n)[n] = special(n + 1)[n]
    <3> HIDE DEF Special
    <3> QED BY <1>2, <2>2
  <2>4. special(n + 1)[n + 1] = Step(special(n + 1), n + 1)
    <3> HIDE DEF Step
    <3> QED BY <2>1, <2>2
  <2>5. SpecialSegments(n) = special(n)[n] /\ SpecialSegments(n + 1) = special(n + 1)[n + 1]
    <3> HIDE DEF Special
    <3> QED BY <1>1, <2>1
  <2> HIDE DEF Special
  <2> QED BY <2>1, <2>3, <2>4, <2>5
<1> QED BY <1>3, <1>4, <1>5

(***************************************************************************)
(* The bytes of segments                                                   *)
(***************************************************************************)
IsImage(g) ==
    /\ g = [prefix |-> g.prefix, items |-> g.items]
    /\ g.prefix \in Seq(Cell) /\ Len(g.prefix) \in 1 .. PrefixLimit - 1
    /\ g.items \in Seq(Seq(Cell))
    /\ \A j \in 1 .. Len(g.items) : Len(g.items[j]) # 0

ItemParts(g) ==
    [j \in DOMAIN g.items |-> Bytes("ril", Len(g.items[j]), Ril) \o g.items[j]]

ItemArea(g) == FlattenSeq(ItemParts(g))

Zero == Bytes("ril", 0, Ril)

LEMMA ItemPartIs ==
    ASSUME NEW t \in Seq(Cell)
    PROVE  /\ Bytes("ril", Len(t), Ril) \in Seq(Cell)
           /\ Len(Bytes("ril", Len(t), Ril)) = Ril
           /\ Bytes("ril", Len(t), Ril) \o t \in Seq(Cell)
           /\ Len(Bytes("ril", Len(t), Ril) \o t) = Ril + Len(t)
<1> DEFINE u == Bytes("ril", Len(t), Ril)
<1>1. u \in Seq(Cell) /\ Len(u) = Ril
  <2>1. Len(t) \in Nat /\ Ril \in Nat
    BY DEF Ril
  <2>2. Len(t) \in Datum /\ "ril" \in Field
    BY <2>1, DataAre, FieldsAre, Zenon
  <2> QED BY <2>1, <2>2, BytesAre
<1> HIDE DEF u
<1>2. u \o t \in Seq(Cell) /\ Len(u \o t) = Len(u) + Len(t)
  BY <1>1, ConcatProperties
<1> QED BY <1>1, <1>2 DEF u

LEMMA ItemPartsAre ==
    ASSUME NEW g, IsImage(g)
    PROVE  /\ ItemParts(g) \in Seq(Seq(Cell)) /\ Len(ItemParts(g)) = Len(g.items)
           /\ ItemArea(g) \in Seq(Cell)
           /\ \A j \in 1 .. Len(g.items) :
                /\ ItemParts(g)[j] = Bytes("ril", Len(g.items[j]), Ril) \o g.items[j]
                /\ Len(ItemParts(g)[j]) = Ril + Len(g.items[j])
<1> DEFINE Part(j) == Bytes("ril", Len(g.items[j]), Ril) \o g.items[j]
           n == Len(g.items)
<1>1. n \in Nat /\ DOMAIN g.items = 1 .. n /\ \A j \in 1 .. n : g.items[j] \in Seq(Cell)
  BY DEF IsImage
<1>2. ASSUME NEW j \in 1 .. n PROVE Part(j) \in Seq(Cell) /\ Len(Part(j)) = Ril + Len(g.items[j])
  BY <1>1, ItemPartIs
<1>3. ItemParts(g) = [j \in 1 .. n |-> Part(j)]
  BY <1>1 DEF ItemParts
<1> HIDE DEF Part, n
<1>4. [j \in 1 .. n |-> Part(j)] \in [1 .. n -> Seq(Cell)]
  BY <1>2
<1>5. [j \in 1 .. n |-> Part(j)] \in Seq(Seq(Cell)) /\ Len([j \in 1 .. n |-> Part(j)]) = n
  BY <1>1, <1>4, IsSequence
<1>6. ItemArea(g) \in Seq(Cell)
  BY <1>3, <1>5, FlattenType DEF ItemArea
<1>7. \A j \in 1 .. n : ItemParts(g)[j] = Part(j)
  BY <1>3
<1> QED BY <1>2, <1>3, <1>5, <1>6, <1>7 DEF Part, n

\* The fields of a segment, where they lie.
SegmentLies(s, q, g) ==
    /\ ValueAt(s, q) = Len(g.prefix)
    /\ From(s, q + 2, Len(g.prefix)) = g.prefix
    /\ LiesAt(s, q + 2 + Len(g.prefix), ItemArea(g))

LEMMA OpenSegmentIs ==
    ASSUME NEW g, IsImage(g)
    PROVE  /\ OpenSegment(g) \in Seq(Cell)
           /\ Len(OpenSegment(g)) = 2 + Len(g.prefix) + Len(ItemArea(g))
           /\ Len(ItemArea(g)) \in Nat /\ Len(g.prefix) \in Nat
           /\ \A s : \A q \in Nat : LiesAt(s, q, OpenSegment(g)) => SegmentLies(s, q, g)
<1> DEFINE p == g.prefix
           A == ItemArea(g)
           l == Bytes("ppl", Len(p) % PrefixLimit, 2)
           lp == l \o p
           lpa == lp \o A
<1>1. p \in Seq(Cell) /\ Len(p) \in Nat /\ A \in Seq(Cell) /\ Len(A) \in Nat /\ Ril = 4
  <2>1. p \in Seq(Cell) /\ A \in Seq(Cell)
    BY ItemPartsAre DEF IsImage
  <2> HIDE DEF p, A
  <2> QED BY <2>1 DEF Ril
<1>2. Len(p) % PrefixLimit = Len(p)
  <2>1. Len(p) \in 1 .. PrefixLimit - 1
    BY DEF IsImage
  <2> HIDE DEF p
  <2>2. Len(p) < PrefixLimit /\ PrefixLimit \in Nat
    BY <1>1, <2>1, BytesAssumption
  <2>3. \A m, n \in Nat : m < n => m % n = m
    OBVIOUS
  <2> QED BY <1>1, <2>2, <2>3
<1>3. l = Bytes("ppl", Len(p), 2) /\ l \in Seq(Cell) /\ Len(l) = 2
  <2>1. Len(p) \in Datum /\ "ppl" \in Field
    BY <1>1, DataAre, FieldsAre, Zenon
  <2>2. 2 \in Nat
    OBVIOUS
  <2> QED BY <1>2, <2>1, <2>2, BytesAre
<1>4. OpenSegment(g) = lpa
  BY DEF OpenSegment, ItemArea, ItemParts
<1> HIDE DEF p, A, l
<1>6. lp \in Seq(Cell) /\ Len(lp) = 2 + Len(p)
  <2>1. l \in Seq(Cell) /\ p \in Seq(Cell)
    BY <1>1, <1>3
  <2> QED BY <1>3, <2>1, ConcatLength
<1> HIDE DEF lp
<1>7. lpa \in Seq(Cell) /\ Len(lpa) = 2 + Len(p) + Len(A)
  BY <1>1, <1>6, ConcatLength
<1> HIDE DEF lpa
<1>8. ASSUME NEW s, NEW q \in Nat, LiesAt(s, q, lpa) PROVE SegmentLies(s, q, g)
  <2>2. LiesAt(s, q, lp) /\ LiesAt(s, q + Len(lp), A)
    BY <1>1, <1>6, <1>8, LiesParts DEF lpa
  <2>3. LiesAt(s, q, l) /\ LiesAt(s, q + Len(l), p)
    BY <1>1, <1>3, <2>2, LiesParts DEF lp
  <2>4. ValueAt(s, q) = Len(p)
    <3>1. 2 \in Nat \ {0}
      OBVIOUS
    <3>2. LiesAt(s, q, Bytes("ppl", Len(p), 2))
      BY <1>3, <2>3, Zenon
    <3>3. ASSUME NEW n \in Nat \ {0}, NEW f, NEW x, LiesAt(s, q, Bytes(f, x, n))
          PROVE  ValueAt(s, q) = x
      BY <3>3, BytesSay
    <3> QED BY <3>1, <3>2, <3>3, Zenon
  <2>5. From(s, q + 2, Len(p)) = p
    <3>1. q + 2 \in Nat
      OBVIOUS
    <3> QED BY <1>1, <1>3, <2>3, <3>1, LiesFrom
  <2>6. q + Len(lp) = q + 2 + Len(p)
    BY <1>1, <1>6
  <2>7. LiesAt(s, q + 2 + Len(p), A)
    BY <2>2, <2>6
  <2> QED BY <2>4, <2>5, <2>7 DEF SegmentLies, p, A
<1> QED BY <1>1, <1>4, <1>7, <1>8 DEF p, A

LEMMA SegmentBytesAre ==
    ASSUME NEW g, IsImage(g)
    PROVE  /\ SegmentBytes(g) \in Seq(Cell)
           /\ Len(SegmentBytes(g)) = 2 + Len(g.prefix) + Len(ItemArea(g)) + Ril
           /\ Len(ItemArea(g)) \in Nat /\ Len(g.prefix) \in Nat
           /\ \A s : \A q \in Nat :
                LiesAt(s, q, SegmentBytes(g)) =>
                    SegmentLies(s, q, g) /\ LiesAt(s, q + 2 + Len(g.prefix) + Len(ItemArea(g)), Zero)
<1> DEFINE u == OpenSegment(g)
           w == u \o Zero
           l == Len(g.prefix)
           a == Len(ItemArea(g))
<1>1. /\ u \in Seq(Cell) /\ Len(u) = 2 + l + a /\ a \in Nat /\ l \in Nat
      /\ \A s : \A q \in Nat : LiesAt(s, q, u) => SegmentLies(s, q, g)
  BY OpenSegmentIs
<1>2. Zero \in Seq(Cell) /\ Len(Zero) = Ril /\ Ril = 4
  <2>1. 0 \in Nat /\ Ril \in Nat /\ Ril = 4
    BY DEF Ril
  <2>2. 0 \in Datum /\ "ril" \in Field
    BY <2>1, DataAre, FieldsAre, Zenon
  <2> QED BY <2>1, <2>2, BytesAre DEF Zero
<1>3. SegmentBytes(g) = w
  BY DEF SegmentBytes, Zero
<1> HIDE DEF u, l, a
<1>4. w \in Seq(Cell) /\ Len(w) = 2 + l + a + Ril
  <2>1. w \in Seq(Cell) /\ Len(w) = Len(u) + Len(Zero)
    BY <1>1, <1>2, ConcatLength
  <2> HIDE DEF w
  <2> QED BY <1>1, <1>2, <2>1
<1>5. ASSUME NEW s, NEW q \in Nat, LiesAt(s, q, w)
      PROVE  SegmentLies(s, q, g) /\ LiesAt(s, q + 2 + l + a, Zero)
  <2>1. LiesAt(s, q, u) /\ LiesAt(s, q + Len(u), Zero)
    BY <1>1, <1>2, <1>5, LiesParts
  <2>2. q + Len(u) = q + 2 + l + a
    BY <1>1
  <2> QED BY <1>1, <2>1, <2>2
<1> HIDE DEF w
<1> QED BY <1>1, <1>3, <1>4, <1>5 DEF l, a

\* The items from the j-th on, parsed.
Rest(g, j, end) == [items |-> SubSeq(g.items, j + 1, Len(g.items)), end |-> end]

LEMMA OneItemFound ==
    ASSUME NEW s, NEW N \in Nat, NEW p \in Nat, NEW t \in Seq(Cell), Len(t) # 0,
           LiesAt(s, p, Bytes("ril", Len(t), Ril) \o t), p + Ril + Len(t) <= N
    PROVE  /\ ItemAt(s, p, N)
           /\ NextItem(s, p) = p + Ril + Len(t)
           /\ From(s, p + Ril, ValueAt(s, p)) = t
<1> DEFINE l == Bytes("ril", Len(t), Ril)
<1>1. Ril = 4 /\ Ril \in Nat \ {0} /\ Len(t) \in Nat
  BY DEF Ril
<1>2. l \in Seq(Cell) /\ Len(l) = Ril
  BY ItemPartIs
<1>3. LiesAt(s, p, l) /\ LiesAt(s, p + Len(l), t)
  <2> HIDE DEF l
  <2>1. LiesAt(s, p, l \o t)
    BY DEF l
  <2> QED BY <1>2, <2>1, LiesParts
<1>4. ValueAt(s, p) = Len(t) /\ From(s, p, Ril) = l
  <2>1. LiesAt(s, p, Bytes("ril", Len(t), Ril))
    BY <1>3
  <2> QED BY <1>1, <2>1, BytesSay
<1>5. From(s, p + Ril, Len(t)) = t
  <2>1. p + Ril \in Nat
    BY <1>1
  <2> QED BY <1>2, <1>3, <2>1, LiesFrom
<1>6. ~AtZero(s, p)
  BY <1>4 DEF AtZero
<1>7. NextItem(s, p) = p + Ril + Len(t)
  BY <1>4 DEF NextItem
<1>8. p < N /\ p + Ril + Len(t) \in (p + 1) .. N
  BY <1>1
<1> HIDE DEF l
<1> QED BY <1>4, <1>5, <1>6, <1>7, <1>8 DEF ItemAt

LEMMA NoMoreItems ==
    ASSUME NEW s, NEW p \in Nat, NEW N, LiesAt(s, p, Zero)
    PROVE  ~ItemAt(s, p, N) /\ SegmentEnd(s, p, N) = p + Ril
<1>1. Ril \in Nat \ {0}
  BY DEF Ril
<1>2. ValueAt(s, p) = 0
  <2>1. LiesAt(s, p, Bytes("ril", 0, Ril))
    BY DEF Zero
  <2> QED BY <1>1, <2>1, BytesSay
<1>3. AtZero(s, p)
  BY <1>2 DEF AtZero
<1> QED BY <1>3, Zenon DEF ItemAt, SegmentEnd

\* Behind p there are no more items of a segment, and parsing ends it at end.
EndsAt(s, p, N, end) == p <= N /\ ~ItemAt(s, p, N) /\ SegmentEnd(s, p, N) = end

\* A segment lies at q, and parsing ends it at end.
LiesTo(s, q, N, g, end) ==
    SegmentLies(s, q, g) /\ EndsAt(s, q + 2 + Len(g.prefix) + Len(ItemArea(g)), N, end)

\* Where a segment lies, its items are parsed.
LEMMA ItemsFound ==
    ASSUME NEW g, IsImage(g), NEW s, NEW q \in Nat, NEW N \in Nat, NEW end, LiesTo(s, q, N, g, end)
    PROVE  ItemsFrom(s, q + 2 + Len(g.prefix), N) = [items |-> g.items, end |-> end]
<1> DEFINE first == q + 2 + Len(g.prefix)
           A == ItemArea(g)
           ss == ItemParts(g)
           n == Len(g.items)
<1>0. Len(A) \in Nat /\ Len(g.prefix) \in Nat
  BY OpenSegmentIs
<1>1. /\ ss \in Seq(Seq(Cell)) /\ Len(ss) = n /\ A \in Seq(Cell) /\ n \in Nat
      /\ g.items \in Seq(Seq(Cell))
      /\ \A j \in 1 .. n :
           /\ ss[j] = Bytes("ril", Len(g.items[j]), Ril) \o g.items[j]
           /\ Len(ss[j]) = Ril + Len(g.items[j])
           /\ g.items[j] \in Seq(Cell) /\ Len(g.items[j]) \in Nat /\ Len(g.items[j]) # 0
  <2>1. /\ g.items \in Seq(Seq(Cell)) /\ n \in Nat
        /\ \A j \in 1 .. n :
             g.items[j] \in Seq(Cell) /\ Len(g.items[j]) \in Nat /\ Len(g.items[j]) # 0
    BY DEF IsImage
  <2> QED BY <2>1, ItemPartsAre
<1>2. PICK o : /\ o \in [0 .. n -> 0 .. Len(A)] /\ o[0] = 0 /\ o[n] = Len(A)
               /\ \A i \in 1 .. n : o[i] = o[i - 1] + Len(ss[i]) /\ LiesAt(A, o[i - 1], ss[i])
  <2>1. A = FlattenSeq(ss)
    BY DEF ItemArea
  <2> HIDE DEF A, ss, n
  <2> QED BY <1>1, <2>1, PartsLie
<1>3. /\ LiesAt(s, first, A) /\ EndsAt(s, first + Len(A), N, end)
      /\ first \in Nat /\ first + Len(A) <= N /\ Ril = 4 /\ first >= 1
  <2>1. /\ LiesAt(s, first, A) /\ EndsAt(s, first + Len(A), N, end)
        /\ q + 2 + Len(g.prefix) + Len(A) <= N
    BY Zenon DEF LiesTo, SegmentLies, EndsAt
  <2> DEFINE a == Len(A)
             l == Len(g.prefix)
  <2>2. a \in Nat /\ l \in Nat /\ Ril = 4 /\ q + 2 + l + a <= N
    BY <1>0, <2>1 DEF Ril
  <2> HIDE DEF a, l
  <2>3. q + 2 + l \in Nat /\ (q + 2 + l) + a <= N /\ Ril = 4 /\ q + 2 + l >= 1
    BY <2>2
  <2> QED BY <2>1, <2>3 DEF a, l
<1>4. PICK from : FindsItems(from, s, N) /\ ItemsFrom(s, first, N) = from[first]
  <2>1. PICK from : FindsItems(from, s, N) /\ \A i : ItemsFrom(s, i, N) = from[i]
    BY ItemsFromIs
  <2> QED BY <2>1, Zenon
<1> HIDE DEF first, A, ss, n
<1>5. ASSUME NEW i \in 0 .. n
      PROVE  first + o[i] \in Nat /\ o[i] \in 0 .. Len(A)
  <2> DEFINE a == Len(A)
             u == o[i]
  <2>1. u \in 0 .. a
    <3>1. o \in [0 .. n -> 0 .. a]
      BY <1>2
    <3> HIDE DEF a
    <3> QED BY <3>1
  <2>2. a \in Nat /\ first \in Nat
    BY <1>0, <1>3
  <2> HIDE DEF a, u
  <2>3. first + u \in Nat
    BY <2>1, <2>2
  <2> QED BY <2>1, <2>3 DEF a, u
<1>6. ASSUME NEW j \in 1 .. n
      PROVE  from[first + o[j - 1]] = ItemThen(s, first + o[j - 1], from[first + o[j]])
             /\ From(s, first + o[j - 1] + Ril, ValueAt(s, first + o[j - 1])) = g.items[j]
  <2> DEFINE p == first + o[j - 1]
             t == g.items[j]
  <2>1. j - 1 \in 0 .. n /\ j \in 0 .. n
    BY <1>1
  <2>2. /\ o[j] = o[j - 1] + Ril + Len(t) /\ o[j - 1] \in Nat /\ o[j] \in 0 .. Len(A)
        /\ Len(ss[j]) \in Nat /\ o[j - 1] + Len(ss[j]) = o[j]
    <3>1. o[j] = o[j - 1] + Len(ss[j]) /\ Len(ss[j]) = Ril + Len(t) /\ Len(t) \in Nat
      BY <1>1, <1>2
    <3>2. o[j - 1] \in 0 .. Len(A) /\ o[j] \in 0 .. Len(A)
      BY <1>5, <2>1
    <3> DEFINE l == Len(t)
               u == o[j - 1]
               v == o[j]
               w == Len(ss[j])
               a == Len(A)
    <3>3. v = u + w /\ w = Ril + l /\ l \in Nat /\ u \in 0 .. a /\ v \in 0 .. a /\ Ril = 4
      BY <1>3, <3>1, <3>2
    <3> HIDE DEF l, u, v, w, a
    <3>4. v = u + Ril + l /\ u \in Nat /\ w \in Nat /\ u + w = v /\ v \in 0 .. a
      BY <3>3
    <3> QED BY <3>4 DEF l, u, v, w, a
  <2>3. LiesAt(s, p, ss[j])
    <3>1. LiesAt(s, first, A) /\ LiesAt(A, o[j - 1], ss[j]) /\ o[j - 1] + Len(ss[j]) <= Len(A)
      BY <1>0, <1>2, <1>3, <2>2
    <3> QED BY <1>0, <1>3, <2>2, <3>1, LiesWithin
  <2>4. ss[j] = Bytes("ril", Len(t), Ril) \o t /\ t \in Seq(Cell) /\ Len(t) # 0
    BY <1>1
  <2>5. p \in Nat /\ p + Ril + Len(t) <= N /\ p + Ril + Len(t) = first + o[j] /\ p \in 1 .. N
    <3> DEFINE l == Len(t)
               u == o[j - 1]
               v == o[j]
               a == Len(A)
    <3>3. l \in Nat
      BY <1>1
    <3>4. u \in Nat /\ v = u + Ril + l /\ v \in 0 .. a
      BY <2>2
    <3>5. a \in Nat /\ first + a <= N /\ first \in Nat /\ first >= 1 /\ Ril = 4
      BY <1>0, <1>3
    <3> HIDE DEF l, u, v, a, p, t
    <3>1. /\ l \in Nat /\ u \in Nat /\ v = u + Ril + l /\ v <= a /\ a \in Nat /\ v \in Nat
          /\ first + a <= N /\ first \in Nat /\ first >= 1 /\ Ril = 4
      BY <3>3, <3>4, <3>5
    <3>2. /\ first + u \in Nat /\ first + u + Ril + l <= N
          /\ first + u + Ril + l = first + v /\ first + u \in 1 .. N
      BY <3>1
    <3> QED BY <3>2 DEF l, u, v, a, p, t
  <2>6. /\ ItemAt(s, p, N) /\ NextItem(s, p) = p + Ril + Len(t)
        /\ From(s, p + Ril, ValueAt(s, p)) = t
    <3>1. LiesAt(s, p, Bytes("ril", Len(t), Ril) \o t)
      BY <2>3, <2>4, Zenon
    <3> HIDE DEF p, t
    <3> QED BY <2>4, <2>5, <3>1, OneItemFound
  <2> HIDE DEF p, t
  <2>7. from[p] = ItemThen(s, p, from[first + o[j]])
    BY <1>4, <2>5, <2>6 DEF FindsItems
  <2> QED BY <2>6, <2>7 DEF p, t
<1>7. from[first + Len(A)] = [items |-> <<>>, end |-> end]
  <2> DEFINE p == first + Len(A)
  <2>1. p \in 1 .. N
    <3> DEFINE a == Len(A)
    <3>1. a \in Nat /\ first + a <= N /\ first \in Nat /\ first >= 1
      BY <1>0, <1>3
    <3> HIDE DEF a
    <3>2. first + a \in 1 .. N
      BY <3>1
    <3> QED BY <3>2 DEF a
  <2>2. ~ItemAt(s, p, N) /\ SegmentEnd(s, p, N) = end
    BY <1>3 DEF EndsAt
  <2> HIDE DEF p
  <2>3. from[p] = NoItem(s, p, N)
    BY <1>4, <2>1, <2>2 DEF FindsItems
  <2> QED BY <2>1, <2>2, <2>3 DEF NoItem, p
<1> DEFINE T == {k \in Nat : k <= n => from[first + o[n - k]] = Rest(g, n - k, end)}
<1>8. 0 \in T
  <2>1. n - 0 = n /\ o[n] = Len(A)
    BY <1>1, <1>2
  <2>2. SubSeq(g.items, n + 1, Len(g.items)) = <<>>
    BY <1>1, SliceNone DEF n
  <2> QED BY <1>7, <2>1, <2>2 DEF Rest
<1>9. ASSUME NEW k \in Nat, k \in T PROVE k + 1 \in T
  <2> SUFFICES ASSUME k + 1 <= n
               PROVE  from[first + o[n - (k + 1)]] = Rest(g, n - (k + 1), end)
    OBVIOUS
  <2> DEFINE j == n - k
  <2>1. j \in 1 .. n /\ j - 1 = n - (k + 1) /\ k <= n
    BY <1>1
  <2>2. from[first + o[j]] = Rest(g, j, end)
    BY <1>9, <2>1
  <2> HIDE DEF j, T
  <2>3. from[first + o[j - 1]] = ItemThen(s, first + o[j - 1], Rest(g, j, end))
        /\ From(s, first + o[j - 1] + Ril, ValueAt(s, first + o[j - 1])) = g.items[j]
    BY <1>6, <2>1, <2>2
  <2>4. SubSeq(g.items, j, n) = <<g.items[j]>> \o SubSeq(g.items, j + 1, n)
    <3>1. j \in 1 .. Len(g.items) /\ n \in j .. Len(g.items)
      BY <1>1, <2>1 DEF n
    <3> QED BY <1>1, <3>1, SubSeqRecursiveFirst
  <2>5. ItemThen(s, first + o[j - 1], Rest(g, j, end))
          = [items |-> <<g.items[j]>> \o SubSeq(g.items, j + 1, n), end |-> end]
    BY <2>3 DEF ItemThen, Rest, n
  <2>6. (j - 1) + 1 = j
    BY <1>1, <2>1
  <2>7. Rest(g, j - 1, end) = [items |-> SubSeq(g.items, j, n), end |-> end]
    BY <2>6 DEF Rest, n
  <2>8. from[first + o[j - 1]] = Rest(g, j - 1, end)
    BY <2>3, <2>4, <2>5, <2>7, Zenon
  <2> QED BY <2>1, <2>8
<1> HIDE DEF T
<1>10. n \in T
  BY <1>1, <1>8, <1>9, SetInduction
<1>11. from[first + o[n - n]] = Rest(g, n - n, end)
  BY <1>1, <1>10 DEF T
<1>12. n - n = 0 /\ first + o[0] = first /\ 0 + 1 = 1
  BY <1>1, <1>2, <1>3
<1>13. Rest(g, 0, end) = [items |-> g.items, end |-> end]
  <2>1. SubSeq(g.items, 1, n) = g.items
    BY <1>1, SubSeqFull DEF n
  <2> QED BY <1>12, <2>1 DEF Rest, n
<1>14. from[first] = [items |-> g.items, end |-> end]
  BY <1>11, <1>12, <1>13
<1> QED BY <1>4, <1>14 DEF first

\* Parsing finds the segment g at q, and goes on at end.
Found(s, q, N, g, end) ==
    /\ SegmentIn(s, q, N) /\ SegmentOf(s, q, N) = g
    /\ SegmentAt(s, q, N).end = end
    /\ SegmentAt(s, q, N).prefix = g.prefix

\* Where a segment lies, it is parsed.
LEMMA SegmentFound ==
    ASSUME NEW g, IsImage(g), NEW s, NEW q \in Nat, NEW N \in Nat,
           NEW end \in Nat, q < end, end <= N, LiesTo(s, q, N, g, end)
    PROVE  Found(s, q, N, g, end)
<1>1. Len(ItemArea(g)) \in Nat /\ Len(g.prefix) \in Nat /\ Len(g.prefix) # 0
  <2>1. Len(g.prefix) \in 1 .. PrefixLimit - 1
    BY DEF IsImage
  <2>2. Len(g.prefix) # 0
    BY <2>1
  <2> QED BY <2>2, OpenSegmentIs
<1>2. ItemsFrom(s, q + 2 + Len(g.prefix), N) = [items |-> g.items, end |-> end]
  BY ItemsFound
<1>3. ValueAt(s, q) = Len(g.prefix) /\ From(s, q + 2, Len(g.prefix)) = g.prefix
  BY DEF LiesTo, SegmentLies
<1>4. /\ end \in (q + 1) .. N
      /\ q < N /\ q + 2 + Len(g.prefix) \in (q + 1) .. N
  <2> DEFINE a == Len(ItemArea(g))
             l == Len(g.prefix)
  <2>1. a \in Nat /\ l \in Nat /\ q + 2 + l + a <= N
    BY <1>1 DEF LiesTo, EndsAt
  <2> HIDE DEF a, l
  <2>2. q + 2 + l \in (q + 1) .. N /\ end \in (q + 1) .. N /\ q < N
    BY <2>1
  <2> QED BY <2>2 DEF l
<1>5. SegmentAt(s, q, N) = [prefix |-> g.prefix, items |-> g.items, end |-> end]
  <2> DEFINE V(first, l) == [prefix |-> From(s, q + 2, l), items |-> ItemsFrom(s, first, N).items,
                             end |-> ItemsFrom(s, first, N).end]
  <2>1. SegmentAt(s, q, N) = V(q + 2 + ValueAt(s, q), ValueAt(s, q))
    BY Zenon DEF SegmentAt
  <2> DEFINE first == q + 2 + Len(g.prefix)
  <2>2. V(first, Len(g.prefix)) = [prefix |-> g.prefix, items |-> g.items, end |-> end]
    <3>1. ItemsFrom(s, first, N) = [items |-> g.items, end |-> end]
      BY <1>2
    <3> HIDE DEF first
    <3> QED BY <1>3, <3>1
  <2> HIDE DEF V
  <2> QED BY <1>3, <2>1, <2>2
<1>6. SegmentOf(s, q, N) = g
  BY <1>5 DEF SegmentOf, IsImage
<1>7. SegmentIn(s, q, N)
  <2>1. ValueAt(s, q) # 0
    BY <1>1, <1>3
  <2>2. SegmentAt(s, q, N).end = end
    BY <1>5
  <2> QED BY <1>3, <1>4, <2>1, <2>2, Zenon DEF SegmentIn
<1> QED BY <1>5, <1>6, <1>7 DEF Found

\* A segment that was ended is parsed with the length of zero behind it.
LEMMA EndedFound ==
    ASSUME NEW g, IsImage(g), NEW s, NEW q \in Nat, NEW N \in Nat,
           LiesAt(s, q, SegmentBytes(g)), q + Len(SegmentBytes(g)) <= N
    PROVE  Found(s, q, N, g, q + Len(SegmentBytes(g)))
<1> DEFINE a == Len(ItemArea(g))
           l == Len(g.prefix)
           m == Len(SegmentBytes(g))
           p == q + 2 + l + a
           end == q + m
<1>1. /\ m = 2 + l + a + Ril /\ a \in Nat /\ l \in Nat /\ Ril = 4 /\ q + m <= N
      /\ SegmentLies(s, q, g) /\ LiesAt(s, p, Zero)
  BY SegmentBytesAre DEF Ril
<1> HIDE DEF a, l, m
<1>2. /\ end \in Nat /\ q < end /\ end <= N /\ p <= N /\ p \in Nat /\ p + Ril = end
  BY <1>1
<1> HIDE DEF p, end
<1>3. EndsAt(s, p, N, end)
  BY <1>1, <1>2, NoMoreItems DEF EndsAt
<1>4. LiesTo(s, q, N, g, end)
  BY <1>1, <1>3 DEF LiesTo, p, l, a
<1>5. Found(s, q, N, g, end)
  BY <1>2, <1>4, SegmentFound
<1> QED BY <1>5 DEF end, m

\* One that was not ended is parsed, when it is the last and no zero comes behind it.
LEMMA OpenFound ==
    ASSUME NEW g, IsImage(g), NEW s, NEW q \in Nat, NEW N \in Nat,
           LiesAt(s, q, OpenSegment(g)), q + Len(OpenSegment(g)) = N, ValueAt(s, N) # 0
    PROVE  Found(s, q, N, g, N)
<1> DEFINE a == Len(ItemArea(g))
           l == Len(g.prefix)
           m == Len(OpenSegment(g))
           p == q + 2 + l + a
<1>1. m = 2 + l + a /\ a \in Nat /\ l \in Nat /\ q + m = N /\ SegmentLies(s, q, g)
  BY OpenSegmentIs
<1> HIDE DEF a, l, m
<1>2. p = N /\ q < N /\ N <= N
  BY <1>1
<1> HIDE DEF p
<1>3. EndsAt(s, p, N, N)
  <2>1. ~(N < N) /\ ~AtZero(s, N)
    BY DEF AtZero
  <2> QED BY <1>2, <2>1 DEF EndsAt, ItemAt, SegmentEnd
<1>4. LiesTo(s, q, N, g, N)
  BY <1>1, <1>3 DEF LiesTo, p, l, a
<1> QED BY <1>2, <1>4, SegmentFound

(***************************************************************************)
(* The segments of a block                                                 *)
(***************************************************************************)
Imaged == [prefix : Seq(Cell), items : Seq(Seq(Cell))]

AreImages(gs) == gs \in Seq(Imaged) /\ \A n \in 1 .. Len(gs) : IsImage(gs[n])

SegmentParts(gs) == [n \in DOMAIN gs |-> SegmentBytes(gs[n])]

LEMMA SegmentPartsAre ==
    ASSUME NEW gs, AreImages(gs)
    PROVE  /\ SegmentParts(gs) \in Seq(Seq(Cell)) /\ Len(SegmentParts(gs)) = Len(gs)
           /\ \A n \in 1 .. Len(gs) : SegmentParts(gs)[n] = SegmentBytes(gs[n])
           /\ DataArea(gs) = FlattenSeq(SegmentParts(gs))
           /\ DataArea(gs) \in Seq(Cell) /\ Len(DataArea(gs)) \in Nat
<1> DEFINE n == Len(gs)
<1>1. n \in Nat /\ DOMAIN gs = 1 .. n /\ \A i \in 1 .. n : IsImage(gs[i])
  BY DEF AreImages
<1>2. \A i \in 1 .. n : SegmentBytes(gs[i]) \in Seq(Cell)
  BY <1>1, SegmentBytesAre
<1> HIDE DEF n
<1>3. SegmentParts(gs) = [i \in 1 .. n |-> SegmentBytes(gs[i])]
  BY <1>1 DEF SegmentParts
<1>4. SegmentParts(gs) \in [1 .. n -> Seq(Cell)]
  BY <1>2, <1>3
<1>5. SegmentParts(gs) \in Seq(Seq(Cell)) /\ Len(SegmentParts(gs)) = n
  BY <1>1, <1>4, IsSequence
<1>6. \A i \in 1 .. n : SegmentParts(gs)[i] = SegmentBytes(gs[i])
  BY <1>3
<1>7. DataArea(gs) = FlattenSeq(SegmentParts(gs))
  BY DEF DataArea, SegmentParts
<1>8. DataArea(gs) \in Seq(Cell)
  BY <1>5, <1>7, FlattenType
<1>9. Len(DataArea(gs)) \in Nat
  BY <1>8
<1> QED BY <1>5, <1>6, <1>7, <1>8, <1>9 DEF n

\* The first parts of a sequence are as long as is noted of them.
LEMMA FirstPartsLength ==
    ASSUME NEW tt \in Seq(Seq(Cell)), NEW k \in Nat, Len(tt) = k, NEW o,
           o[0] = 0, \A i \in 1 .. k : o[i] = o[i - 1] + Len(tt[i])
    PROVE  Len(FlattenSeq(tt)) = o[k]
<1>1. PICK p : /\ p[0] = 0 /\ p[Len(tt)] = Len(FlattenSeq(tt))
               /\ \A i \in 1 .. Len(tt) : p[i] = p[i - 1] + Len(tt[i])
  BY PartsLie
<1> DEFINE T == {j \in Nat : j <= k => p[j] = o[j]}
<1>2. 0 \in T
  BY <1>1
<1>3. ASSUME NEW j \in Nat, j \in T PROVE j + 1 \in T
  <2> SUFFICES ASSUME j + 1 <= k PROVE p[j + 1] = o[j + 1]
    OBVIOUS
  <2>1. j + 1 \in 1 .. k /\ (j + 1) - 1 = j /\ p[j] = o[j]
    BY <1>3
  <2> HIDE DEF T
  <2>2. p[j + 1] = p[j] + Len(tt[j + 1]) /\ o[j + 1] = o[j] + Len(tt[j + 1])
    <3> DEFINE i == j + 1
    <3>1. i \in 1 .. k /\ i - 1 = j
      BY <2>1
    <3> HIDE DEF i
    <3>2. p[i] = p[i - 1] + Len(tt[i]) /\ o[i] = o[i - 1] + Len(tt[i])
      BY <1>1, <3>1
    <3> QED BY <3>1, <3>2 DEF i
  <2> QED BY <2>1, <2>2
<1> HIDE DEF T
<1>4. k \in T
  BY <1>2, <1>3, SetInduction
<1>5. p[k] = o[k]
  BY <1>4 DEF T
<1> QED BY <1>1, <1>5

\* Where the segments of a block are in its data area.
Offsets(o, gs) ==
    /\ o \in [0 .. Len(gs) -> 0 .. Len(DataArea(gs))]
    /\ o[0] = 0 /\ o[Len(gs)] = Len(DataArea(gs))
    /\ \A n \in 1 .. Len(gs) :
          /\ o[n] = o[n - 1] + Len(SegmentBytes(gs[n]))
          /\ LiesAt(DataArea(gs), o[n - 1], SegmentBytes(gs[n]))
          /\ SegmentOffset(gs, n) = Btl + o[n - 1]

LEMMA OffsetsAre ==
    ASSUME NEW gs, AreImages(gs)
    PROVE  \E o : Offsets(o, gs)
<1> DEFINE n == Len(gs)
           ss == SegmentParts(gs)
           D == DataArea(gs)
<1>1. /\ ss \in Seq(Seq(Cell)) /\ Len(ss) = n /\ \A i \in 1 .. n : ss[i] = SegmentBytes(gs[i])
      /\ D = FlattenSeq(ss)
  BY SegmentPartsAre
<1>2. n \in Nat /\ gs \in Seq(Imaged)
  BY DEF AreImages
<1> HIDE DEF ss, D, n
<1>3. PICK o : /\ o \in [0 .. n -> 0 .. Len(D)] /\ o[0] = 0 /\ o[n] = Len(D)
               /\ \A i \in 1 .. n : o[i] = o[i - 1] + Len(ss[i]) /\ LiesAt(D, o[i - 1], ss[i])
  BY <1>1, PartsLie
<1>4. ASSUME NEW i \in 1 .. n PROVE SegmentOffset(gs, i) = Btl + o[i - 1]
  <2> DEFINE k == i - 1
             hs == SubSeq(gs, 1, k)
  <2>1. k \in Nat /\ k <= n /\ k \in 0 .. n
    BY <1>2
  <2>2. hs \in Seq(Imaged) /\ Len(hs) = k /\ \A j \in 1 .. k : hs[j] = gs[j]
    <3> HIDE DEF k
    <3> QED BY <1>2, <2>1 DEF n
  <2> HIDE DEF hs, k
  <2>3. AreImages(hs)
    <3>1. ASSUME NEW j \in 1 .. Len(hs) PROVE IsImage(hs[j])
      <4>1. j \in 1 .. n /\ hs[j] = gs[j]
        BY <1>2, <2>1, <2>2
      <4> QED BY <4>1 DEF AreImages, n
    <3> QED BY <2>2, <3>1 DEF AreImages
  <2>4. /\ SegmentParts(hs) \in Seq(Seq(Cell)) /\ Len(SegmentParts(hs)) = k
        /\ \A j \in 1 .. k : SegmentParts(hs)[j] = SegmentBytes(hs[j])
        /\ DataArea(hs) = FlattenSeq(SegmentParts(hs))
    BY <2>2, <2>3, SegmentPartsAre
  <2>5. \A j \in 1 .. k : SegmentParts(hs)[j] = ss[j] /\ o[j] = o[j - 1] + Len(ss[j])
    <3>1. \A j \in 1 .. k : j \in 1 .. n
      BY <1>2, <2>1
    <3> QED BY <1>1, <1>3, <2>2, <2>4, <3>1
  <2>6. Len(FlattenSeq(SegmentParts(hs))) = o[k]
    <3> DEFINE tt == SegmentParts(hs)
    <3>1. tt \in Seq(Seq(Cell)) /\ Len(tt) = k /\ k \in Nat /\ o[0] = 0
      BY <1>3, <2>1, <2>4
    <3>2. ASSUME NEW j \in 1 .. k PROVE o[j] = o[j - 1] + Len(tt[j])
      <4>1. tt[j] = ss[j] /\ o[j] = o[j - 1] + Len(ss[j])
        BY <2>5
      <4> HIDE DEF tt
      <4> QED BY <4>1
    <3> HIDE DEF tt
    <3>3. \A x \in 1 .. k : o[x] = o[x - 1] + Len(tt[x])
      BY <3>2
    <3>4. Len(FlattenSeq(tt)) = o[k]
      BY <3>1, <3>3, FirstPartsLength
    <3> QED BY <3>4 DEF tt
  <2> QED BY <2>4, <2>6 DEF SegmentOffset, hs, k
<1>5. /\ o \in [0 .. n -> 0 .. Len(D)] /\ o[0] = 0 /\ o[n] = Len(D)
      /\ \A i \in 1 .. n :
            /\ o[i] = o[i - 1] + Len(SegmentBytes(gs[i]))
            /\ LiesAt(D, o[i - 1], SegmentBytes(gs[i]))
            /\ SegmentOffset(gs, i) = Btl + o[i - 1]
  BY <1>1, <1>3, <1>4
<1> QED BY <1>5 DEF Offsets, n, D

\* Where all segments of a data area were ended, each of them is parsed.
LEMMA EndedAreFound ==
    ASSUME NEW gs, AreImages(gs), NEW s, LiesAt(s, Btl, DataArea(gs)),
           NEW N \in Nat, Btl + Len(DataArea(gs)) <= N, NEW o, Offsets(o, gs)
    PROVE  \A i \in 1 .. Len(gs) :
              Btl + o[i - 1] \in 1 .. N /\ Found(s, Btl + o[i - 1], N, gs[i], Btl + o[i])
<1> DEFINE n == Len(gs)
           D == DataArea(gs)
<1>1. /\ n \in Nat /\ Len(D) \in Nat /\ D \in Seq(Cell) /\ Btl = 4 /\ Btl \in Nat
      /\ LiesAt(s, Btl, D) /\ Btl + Len(D) <= N
  BY SegmentPartsAre DEF AreImages, Btl
<1>2. /\ o \in [0 .. n -> 0 .. Len(D)]
      /\ \A i \in 1 .. n :
            o[i] = o[i - 1] + Len(SegmentBytes(gs[i])) /\ LiesAt(D, o[i - 1], SegmentBytes(gs[i]))
  BY DEF Offsets
<1> HIDE DEF n, D
<1> SUFFICES ASSUME NEW i \in 1 .. n
             PROVE  Btl + o[i - 1] \in 1 .. N /\ Found(s, Btl + o[i - 1], N, gs[i], Btl + o[i])
  BY DEF n
<1> DEFINE p == Btl + o[i - 1]
           t == SegmentBytes(gs[i])
<1>3. i - 1 \in 0 .. n /\ i \in 0 .. n
  BY <1>1
<1>4. t \in Seq(Cell) /\ IsImage(gs[i]) /\ Len(t) \in Nat
  <2>1. IsImage(gs[i])
    BY DEF AreImages, n
  <2>2. t \in Seq(Cell)
    BY <2>1, SegmentBytesAre
  <2> HIDE DEF t
  <2> QED BY <2>1, <2>2
<1>5. /\ o[i - 1] \in Nat /\ o[i - 1] + Len(t) <= Len(D)
      /\ p \in Nat /\ p # 0 /\ p + Len(t) = Btl + o[i] /\ p + Len(t) <= N
  <2> DEFINE u == o[i - 1]
             v == o[i]
             l == Len(t)
             d == Len(D)
  <2>1. u \in 0 .. d /\ v \in 0 .. d /\ v = u + l /\ d \in Nat /\ l \in Nat /\ Btl + d <= N /\ Btl = 4
    <3>1. u \in 0 .. d /\ v \in 0 .. d
      BY <1>2, <1>3
    <3>2. v = u + l
      BY <1>2
    <3> HIDE DEF t, u, v
    <3> QED BY <1>1, <1>4, <3>1, <3>2
  <2> HIDE DEF u, v, l, d
  <2>2. /\ u \in Nat /\ u + l <= d
        /\ Btl + u \in Nat /\ Btl + u # 0 /\ Btl + u + l = Btl + v /\ Btl + u + l <= N
    BY <2>1
  <2> QED BY <2>2 DEF u, v, l, d
<1>6. LiesAt(s, p, t)
  <2>1. LiesAt(D, o[i - 1], t)
    BY <1>2
  <2> HIDE DEF t
  <2> QED BY <1>1, <1>4, <1>5, <2>1, LiesWithin
<1>7. Found(s, p, N, gs[i], p + Len(t))
  <2> HIDE DEF p
  <2> QED BY <1>4, <1>5, <1>6, EndedFound
<1>8. p \in 1 .. N
  <2> HIDE DEF p, t
  <2> QED BY <1>4, <1>5
<1> HIDE DEF t
<1>9. Found(s, p, N, gs[i], Btl + o[i])
  <2> HIDE DEF p
  <2> QED BY <1>5, <1>7, Zenon
<1> QED BY <1>8, <1>9

\* Where each segment is found behind the one before, all of them are.
LEMMA ChainFound ==
    ASSUME NEW gs \in Seq(Imaged), NEW s, NEW N \in Nat, N # 0, NEW o, o[Len(gs)] = N,
           \A i \in 1 .. Len(gs) : o[i - 1] \in 1 .. N /\ Found(s, o[i - 1], N, gs[i], o[i])
    PROVE  SegmentsFrom(s, o[0], N) = gs
<1> DEFINE n == Len(gs)
<1>1. n \in Nat
  OBVIOUS
<1>2. PICK from : FindsSegments(from, s, N) /\ SegmentsFrom(s, o[0], N) = from[o[0]]
  <2>1. PICK from : FindsSegments(from, s, N) /\ \A i : SegmentsFrom(s, i, N) = from[i]
    BY SegmentsFromIs
  <2> QED BY <2>1, Zenon
<1>3. o[n] = N /\ \A i \in 1 .. n : o[i - 1] \in 1 .. N /\ Found(s, o[i - 1], N, gs[i], o[i])
  OBVIOUS
<1> HIDE DEF n
<1>4. ASSUME NEW i \in 1 .. n PROVE from[o[i - 1]] = <<gs[i]>> \o from[o[i]]
  <2> DEFINE p == o[i - 1]
  <2>1. p \in 1 .. N /\ Found(s, p, N, gs[i], o[i])
    BY <1>3
  <2> HIDE DEF p
  <2>2. SegmentIn(s, p, N) /\ SegmentOf(s, p, N) = gs[i] /\ SegmentAt(s, p, N).end = o[i]
    BY <2>1 DEF Found
  <2>3. from[p] = <<SegmentOf(s, p, N)>> \o from[SegmentAt(s, p, N).end]
    BY <1>2, <2>1, <2>2 DEF FindsSegments
  <2>4. from[p] = <<gs[i]>> \o from[o[i]]
    BY <2>2, <2>3, Zenon
  <2> QED BY <2>4 DEF p
<1>5. from[o[n]] = <<>>
  <2>1. N \in 1 .. N /\ ~SegmentIn(s, N, N)
    BY DEF SegmentIn
  <2> QED BY <1>2, <1>3, <2>1 DEF FindsSegments
<1> DEFINE T == {k \in Nat : k <= n => from[o[n - k]] = SubSeq(gs, n - k + 1, n)}
<1>6. 0 \in T
  <2>1. n - 0 = n
    BY <1>1
  <2>2. SubSeq(gs, n + 1, n) = <<>>
    BY <1>1, SliceNone
  <2> QED BY <1>5, <2>1, <2>2
<1>7. ASSUME NEW k \in Nat, k \in T PROVE k + 1 \in T
  <2> SUFFICES ASSUME k + 1 <= n
               PROVE  from[o[n - (k + 1)]] = SubSeq(gs, n - (k + 1) + 1, n)
    OBVIOUS
  <2> DEFINE j == n - k
  <2>1. j \in 1 .. n /\ j - 1 = n - (k + 1) /\ k <= n /\ (j - 1) + 1 = j
    BY <1>1
  <2>2. from[o[j]] = SubSeq(gs, j + 1, n)
    BY <1>7, <2>1
  <2> HIDE DEF j, T
  <2>3. from[o[j - 1]] = <<gs[j]>> \o SubSeq(gs, j + 1, n)
    BY <1>4, <2>1, <2>2
  <2>4. SubSeq(gs, j, n) = <<gs[j]>> \o SubSeq(gs, j + 1, n)
    <3>1. j \in 1 .. Len(gs) /\ n \in j .. Len(gs)
      BY <1>1, <2>1 DEF n
    <3> QED BY <1>1, <3>1, SubSeqRecursiveFirst
  <2> QED BY <2>1, <2>3, <2>4
<1> HIDE DEF T
<1>8. n \in T
  BY <1>1, <1>6, <1>7, SetInduction
<1>9. from[o[n - n]] = SubSeq(gs, n - n + 1, n)
  BY <1>1, <1>8 DEF T
<1>10. n - n = 0 /\ n - n + 1 = 1
  BY <1>1
<1>11. SubSeq(gs, 1, n) = gs
  BY <1>1, SubSeqFull DEF n
<1>12. from[o[0]] = gs
  BY <1>9, <1>10, <1>11
<1> QED BY <1>2, <1>12

\* Where the segments of a block lie, each of them is parsed, and all of them.
LEMMA SegmentsFound ==
    ASSUME NEW gs, AreImages(gs), NEW s, LiesAt(s, Btl, DataArea(gs)),
           NEW N \in Nat, N = Btl + Len(DataArea(gs))
    PROVE  /\ SegmentsFrom(s, Btl, N) = gs
           /\ \A n \in 1 .. Len(gs) :
                SegmentOffset(gs, n) \in Nat
                /\ SegmentAt(s, SegmentOffset(gs, n), N).prefix = gs[n].prefix
<1> DEFINE n == Len(gs)
<1>1. /\ n \in Nat /\ gs \in Seq(Imaged) /\ Len(DataArea(gs)) \in Nat /\ Btl = 4
      /\ Btl + Len(DataArea(gs)) <= N /\ N # 0
  <2>1. Len(DataArea(gs)) \in Nat /\ gs \in Seq(Imaged) /\ n \in Nat
    BY SegmentPartsAre DEF AreImages
  <2> QED BY <2>1 DEF Btl
<1>2. PICK o : Offsets(o, gs)
  BY OffsetsAre
<1>3. \A i \in 1 .. n : Btl + o[i - 1] \in 1 .. N /\ Found(s, Btl + o[i - 1], N, gs[i], Btl + o[i])
  BY <1>1, <1>2, EndedAreFound
<1>4. /\ o[0] = 0 /\ o[n] = Len(DataArea(gs))
      /\ \A i \in 1 .. n : SegmentOffset(gs, i) = Btl + o[i - 1]
  BY <1>2 DEF Offsets
<1> DEFINE b == [i \in 0 .. n |-> Btl + o[i]]
<1>5. \A i \in 0 .. n : b[i] = Btl + o[i]
  OBVIOUS
<1> HIDE DEF b
<1>6. b[0] = Btl /\ b[n] = N
  <2>1. 0 \in 0 .. n /\ n \in 0 .. n
    BY <1>1
  <2> QED BY <1>1, <1>4, <1>5, <2>1
<1>7. \A i \in 1 .. n : b[i - 1] \in 1 .. N /\ Found(s, b[i - 1], N, gs[i], b[i])
  <2> SUFFICES ASSUME NEW i \in 1 .. n
               PROVE  b[i - 1] \in 1 .. N /\ Found(s, b[i - 1], N, gs[i], b[i])
    OBVIOUS
  <2>1. i - 1 \in 0 .. n /\ i \in 0 .. n
    BY <1>1
  <2>2. b[i - 1] = Btl + o[i - 1] /\ b[i] = Btl + o[i]
    BY <1>5, <2>1
  <2> QED BY <1>3, <2>2
<1>8. SegmentsFrom(s, b[0], N) = gs
  BY <1>1, <1>6, <1>7, ChainFound
<1>9. ASSUME NEW i \in 1 .. n
      PROVE  SegmentOffset(gs, i) \in Nat /\ SegmentAt(s, SegmentOffset(gs, i), N).prefix = gs[i].prefix
  <2> DEFINE p == SegmentOffset(gs, i)
  <2>1. p = Btl + o[i - 1]
    BY <1>4
  <2>2. p \in 1 .. N /\ Found(s, p, N, gs[i], Btl + o[i])
    <3> HIDE DEF p
    <3> QED BY <1>3, <2>1
  <2> HIDE DEF p
  <2>3. p \in Nat /\ SegmentAt(s, p, N).prefix = gs[i].prefix
    BY <2>2 DEF Found
  <2> QED BY <2>3 DEF p
<1> QED BY <1>6, <1>8, <1>9

\* A data area whose last segment was not ended.
OpenArea(gs) == DataArea(Front(gs)) \o OpenSegment(Last(gs))

LEMMA OpenAreaIs ==
    ASSUME NEW gs, AreImages(gs), Len(gs) # 0
    PROVE  /\ AreImages(Front(gs)) /\ IsImage(Last(gs)) /\ Last(gs) = gs[Len(gs)]
           /\ Len(Front(gs)) = Len(gs) - 1
           /\ \A i \in 1 .. Len(gs) - 1 : Front(gs)[i] = gs[i]
           /\ DataArea(Front(gs)) \in Seq(Cell) /\ OpenSegment(Last(gs)) \in Seq(Cell)
           /\ OpenArea(gs) \in Seq(Cell)
           /\ Len(OpenArea(gs)) = Len(DataArea(Front(gs))) + Len(OpenSegment(Last(gs)))
<1> DEFINE n == Len(gs)
           hs == SubSeq(gs, 1, n - 1)
<1>1. n \in Nat /\ gs \in Seq(Imaged) /\ n - 1 \in Nat /\ n \in 1 .. n
  BY DEF AreImages
<1>2. Front(gs) = hs /\ Last(gs) = gs[n]
  BY DEF Front, Last
<1>3. hs \in Seq(Imaged) /\ Len(hs) = n - 1 /\ \A i \in 1 .. n - 1 : hs[i] = gs[i]
  <2> DEFINE k == n - 1
             us == SubSeq(gs, 1, k)
  <2>1. k \in Nat /\ k <= n
    BY <1>1
  <2> HIDE DEF k
  <2>2. us \in Seq(Imaged) /\ Len(us) = k /\ \A i \in 1 .. k : us[i] = gs[i]
    BY <1>1, <2>1
  <2> QED BY <2>2 DEF k
<1> HIDE DEF hs
<1>4. AreImages(hs) /\ IsImage(gs[n])
  <2>1. ASSUME NEW i \in 1 .. Len(hs) PROVE IsImage(hs[i])
    <3>1. i \in 1 .. n /\ hs[i] = gs[i]
      BY <1>1, <1>3
    <3> QED BY <3>1 DEF AreImages
  <2> QED BY <1>1, <1>3, <2>1 DEF AreImages
<1>5. DataArea(hs) \in Seq(Cell) /\ OpenSegment(gs[n]) \in Seq(Cell)
  BY <1>4, SegmentPartsAre, OpenSegmentIs
<1> HIDE DEF n
<1>6. /\ DataArea(hs) \o OpenSegment(gs[n]) \in Seq(Cell)
      /\ Len(DataArea(hs) \o OpenSegment(gs[n])) = Len(DataArea(hs)) + Len(OpenSegment(gs[n]))
  BY <1>5, ConcatLength
<1> QED BY <1>2, <1>3, <1>4, <1>5, <1>6 DEF OpenArea, n

\* It is parsed as if it was, unless what comes behind it is zero.
LEMMA OpenAreFound ==
    ASSUME NEW gs, AreImages(gs), Len(gs) # 0, NEW s, LiesAt(s, Btl, OpenArea(gs)),
           NEW N \in Nat, N = Btl + Len(OpenArea(gs)), ValueAt(s, N) # 0
    PROVE  SegmentsFrom(s, Btl, N) = gs
<1> DEFINE n == Len(gs)
           hs == Front(gs)
           g == Last(gs)
           D == DataArea(hs)
           t == OpenSegment(g)
           d == Len(D)
           q == Btl + d
<1>1. /\ AreImages(hs) /\ IsImage(g) /\ g = gs[n] /\ Len(hs) = n - 1
      /\ \A i \in 1 .. n - 1 : hs[i] = gs[i]
      /\ D \in Seq(Cell) /\ t \in Seq(Cell) /\ Len(OpenArea(gs)) = d + Len(t)
      /\ OpenArea(gs) = D \o t
  BY OpenAreaIs DEF OpenArea
<1>2. n \in Nat \ {0} /\ gs \in Seq(Imaged) /\ Btl = 4 /\ Btl \in Nat
  BY DEF AreImages, Btl
<1>3. d \in Nat /\ Len(t) \in Nat
  <2> HIDE DEF D, t
  <2> QED BY <1>1
<1>4. LiesAt(s, Btl, D) /\ LiesAt(s, q, t)
  <2>1. LiesAt(s, Btl, D \o t)
    BY <1>1
  <2> HIDE DEF D, t
  <2> QED BY <1>1, <1>2, <2>1, LiesParts
<1>5. q \in Nat /\ q + Len(t) = N /\ q <= N /\ N # 0 /\ q # 0
  <2>1. N = Btl + (d + Len(t))
    BY <1>1
  <2> DEFINE l == Len(t)
  <2> HIDE DEF d, l
  <2> QED BY <1>2, <1>3, <2>1 DEF l
<1>6. PICK o : Offsets(o, hs)
  BY <1>1, OffsetsAre
<1>7. o[0] = 0 /\ o[n - 1] = d
  BY <1>1, <1>6 DEF Offsets
<1>8. \A i \in 1 .. n - 1 :
         Btl + o[i - 1] \in 1 .. N /\ Found(s, Btl + o[i - 1], N, gs[i], Btl + o[i])
  <2>1. AreImages(hs) /\ LiesAt(s, Btl, DataArea(hs)) /\ Btl + Len(DataArea(hs)) <= N
    BY <1>1, <1>4, <1>5
  <2>2. \A i \in 1 .. Len(hs) :
           Btl + o[i - 1] \in 1 .. N /\ Found(s, Btl + o[i - 1], N, hs[i], Btl + o[i])
    <3> HIDE DEF hs
    <3> QED BY <1>6, <2>1, EndedAreFound
  <2> HIDE DEF hs
  <2> QED BY <1>1, <2>2
<1>9. q \in 1 .. N /\ Found(s, q, N, g, N)
  <2>1. q \in 1 .. N
    <3> HIDE DEF q
    <3> QED BY <1>5
  <2> HIDE DEF q, g
  <2> QED BY <1>1, <1>4, <1>5, <2>1, OpenFound DEF t
<1> HIDE DEF n, hs, g, D, t, d, q
<1> DEFINE b == [i \in 0 .. n |-> IF i = n THEN N ELSE Btl + o[i]]
<1>10. b[n] = N /\ b[0] = Btl /\ b[n - 1] = q /\ \A i \in 0 .. n - 1 : b[i] = Btl + o[i]
  <2>1. n \in 0 .. n /\ \A i \in 0 .. n - 1 : i \in 0 .. n /\ i # n
    BY <1>2
  <2>2. 0 \in 0 .. n - 1 /\ n - 1 \in 0 .. n - 1
    BY <1>2
  <2>3. b[n] = N /\ \A i \in 0 .. n - 1 : b[i] = Btl + o[i]
    BY <2>1
  <2> HIDE DEF b
  <2>4. b[n - 1] = Btl + o[n - 1]
    BY <2>2, <2>3
  <2>5. b[0] = Btl + o[0] /\ o[0] = 0
    BY <1>7, <2>2, <2>3
  <2> QED BY <1>2, <1>7, <2>3, <2>4, <2>5 DEF q
<1> HIDE DEF b
<1>11. \A i \in 1 .. n : b[i - 1] \in 1 .. N /\ Found(s, b[i - 1], N, gs[i], b[i])
  <2> SUFFICES ASSUME NEW i \in 1 .. n
               PROVE  b[i - 1] \in 1 .. N /\ Found(s, b[i - 1], N, gs[i], b[i])
    OBVIOUS
  <2>1. CASE i = n
    BY <1>1, <1>9, <1>10, <2>1
  <2>2. CASE i # n
    <3>1. i \in 1 .. n - 1 /\ i - 1 \in 0 .. n - 1 /\ i \in 0 .. n - 1
      BY <1>2, <2>2
    <3>2. b[i - 1] = Btl + o[i - 1] /\ b[i] = Btl + o[i]
      BY <1>10, <3>1
    <3> QED BY <1>8, <3>1, <3>2
  <2> QED BY <2>1, <2>2
<1>12. SegmentsFrom(s, b[0], N) = gs
  <2>1. b[Len(gs)] = N /\ N # 0
        /\ \A i \in 1 .. Len(gs) : b[i - 1] \in 1 .. N /\ Found(s, b[i - 1], N, gs[i], b[i])
    BY <1>5, <1>10, <1>11 DEF n
  <2> QED BY <1>2, <2>1, ChainFound
<1> QED BY <1>10, <1>12

(***************************************************************************)
(* Blocks                                                                  *)
(***************************************************************************)
\* The segments that start an interval are some of them, from the first on.
LEMMA SpecialAre ==
    \A n \in Nat :
        /\ SpecialSegments(n) \in Seq(Nat)
        /\ \A i \in 1 .. Len(SpecialSegments(n)) : SpecialSegments(n)[i] \in 1 .. n
        /\ n # 0 => Len(SpecialSegments(n)) # 0 /\ SpecialSegments(n)[1] = 1
<1> DEFINE Good(n, c) == /\ c \in Seq(Nat)
                         /\ \A i \in 1 .. Len(c) : c[i] \in 1 .. n
                         /\ n # 0 => Len(c) # 0 /\ c[1] = 1
           T == {n \in Nat : Good(n, SpecialSegments(n))}
<1>1. 0 \in T
  <2> DEFINE c == SpecialSegments(0)
  <2>1. c = <<>>
    BY SpecialSegmentsAre
  <2> HIDE DEF c
  <2>2. c \in Seq(Nat) /\ Len(c) = 0
    BY <2>1
  <2>3. Good(0, c)
    BY <2>2
  <2> QED BY <2>3 DEF c
<1>2. ASSUME NEW n \in Nat, n \in T PROVE n + 1 \in T
  <2> DEFINE c == SpecialSegments(n)
             m == n + 1
             d == SpecialSegments(m)
  <2>1. d = IF StartsInterval(m) THEN Append(c, m) ELSE c
    BY SpecialSegmentsAre
  <2>2. Good(n, c)
    BY <1>2
  <2>3. m \in Nat /\ m = n + 1
    OBVIOUS
  <2> HIDE DEF c, d, m
  <2>4. Good(m, d)
    <3>1. CASE StartsInterval(m)
      <4>1. d = Append(c, m)
        BY <2>1, <3>1
      <4>2. /\ d \in Seq(Nat) /\ Len(d) = Len(c) + 1 /\ Len(c) \in Nat
            /\ \A i \in 1 .. Len(c) : d[i] = c[i]
            /\ d[Len(c) + 1] = m
        BY <2>2, <2>3, <4>1, AppendProperties
      <4>3. ASSUME NEW i \in 1 .. Len(d) PROVE d[i] \in 1 .. m
        <5>1. CASE i = Len(c) + 1
          BY <2>3, <4>2, <5>1
        <5>2. CASE i # Len(c) + 1
          <6>1. i \in 1 .. Len(c)
            BY <4>2, <5>2
          <6>2. d[i] = c[i] /\ c[i] \in 1 .. n
            BY <2>2, <4>2, <6>1
          <6> QED BY <2>3, <6>2
        <5> QED BY <5>1, <5>2
      <4>4. Len(d) # 0 /\ d[1] = 1
        <5>1. CASE n = 0
          <6>1. Len(c) = 0
            <7>1. ASSUME Len(c) # 0 PROVE FALSE
              <8>1. 1 \in 1 .. Len(c)
                BY <4>2, <7>1
              <8>2. c[1] \in 1 .. n
                BY <2>2, <8>1
              <8> QED BY <5>1, <8>2
            <7> QED BY <7>1
          <6> QED BY <2>3, <4>2, <5>1, <6>1
        <5>2. CASE n # 0
          <6>1. 1 \in 1 .. Len(c) /\ c[1] = 1
            BY <2>2, <4>2, <5>2
          <6> QED BY <4>2, <6>1
        <5> QED BY <5>1, <5>2
      <4> QED BY <4>2, <4>3, <4>4
    <3>2. CASE ~StartsInterval(m)
      <4>1. d = c
        BY <2>1, <3>2
      <4>2. n # 0
        <5>1. m # 1
          BY <3>2 DEF StartsInterval
        <5> QED BY <2>3, <5>1
      <4>3. \A i \in 1 .. Len(d) : d[i] \in 1 .. m
        BY <2>2, <2>3, <4>1
      <4> QED BY <2>2, <4>1, <4>2, <4>3
    <3> QED BY <3>1, <3>2
  <2> QED BY <2>3, <2>4 DEF m, d
<1> HIDE DEF T
<1>3. \A n \in Nat : n \in T
  BY <1>1, <1>2, SetInduction
<1> QED BY <1>3 DEF T

\* The bytes of a block behind its data area, where they lie.
SpecialLies(s, q, gs) ==
    LET special == SpecialSegments(Len(gs))
    IN  /\ ValueAt(s, q + 4 * Len(special)) = Len(special)
        /\ \A i \in 1 .. Len(special) :
              ValueAt(s, q + 4 * (i - 1)) = SegmentOffset(gs, special[i])

LEMMA SpecialBytesAre ==
    ASSUME NEW gs, AreImages(gs)
    PROVE  /\ SpecialBytes(gs) \in Seq(Cell)
           /\ Len(SpecialSegments(Len(gs))) \in Nat
           /\ Len(SpecialBytes(gs)) = 4 * Len(SpecialSegments(Len(gs))) + 2
           /\ \A s : \A q \in Nat : LiesAt(s, q, SpecialBytes(gs)) => SpecialLies(s, q, gs)
<1> DEFINE special == SpecialSegments(Len(gs))
           m == Len(special)
           Part(i) == Bytes("sbso", SegmentOffset(gs, special[i]), 4)
           ss == [i \in 1 .. m |-> Part(i)]
           A == FlattenSeq(ss)
           z == Bytes("nsbs", m, 2)
<1>1. /\ special \in Seq(Nat) /\ m \in Nat /\ DOMAIN special = 1 .. m
      /\ \A i \in 1 .. m : special[i] \in 1 .. Len(gs)
  <2>1. Len(gs) \in Nat
    BY DEF AreImages
  <2>2. special \in Seq(Nat) /\ \A i \in 1 .. m : special[i] \in 1 .. Len(gs)
    BY <2>1, SpecialAre
  <2> HIDE DEF special
  <2> QED BY <2>2
<1>2. SpecialBytes(gs) = A \o z
  <2> DEFINE V(c) == FlattenSeq([i \in DOMAIN c |-> Bytes("sbso", SegmentOffset(gs, c[i]), 4)])
                        \o Bytes("nsbs", Len(c), 2)
  <2>1. SpecialBytes(gs) = V(special)
    BY Zenon DEF SpecialBytes
  <2> HIDE DEF special
  <2> QED BY <1>1, <2>1
<1> HIDE DEF special
<1>3. ASSUME NEW i \in 1 .. m PROVE Part(i) \in Seq(Cell) /\ Len(Part(i)) = 4
  <2>1. PICK o : Offsets(o, gs)
    BY OffsetsAre
  <2> DEFINE k == special[i]
  <2>2. k \in 1 .. Len(gs) /\ Len(gs) \in Nat
    BY <1>1 DEF AreImages
  <2> HIDE DEF k
  <2>3. SegmentOffset(gs, k) = Btl + o[k - 1] /\ o[k - 1] \in Nat
    <3> DEFINE n == Len(gs)
               a == Len(DataArea(gs))
               j == k - 1
    <3>1. /\ o \in [0 .. n -> 0 .. a]
          /\ \A x \in 1 .. n : SegmentOffset(gs, x) = Btl + o[x - 1]
      BY <2>1 DEF Offsets
    <3>2. n \in Nat /\ a \in Nat /\ k \in 1 .. n
      BY <2>2, SegmentPartsAre
    <3> HIDE DEF n, a, m, Part, ss, A, z
    <3>3. j \in 0 .. n
      BY <3>2
    <3>4. o[j] \in Nat
      <4> HIDE DEF j
      <4>1. o[j] \in 0 .. a
        BY <3>1, <3>3
      <4> QED BY <3>2, <4>1
    <3>5. SegmentOffset(gs, k) = Btl + o[j]
      BY <3>1, <3>2
    <3> QED BY <3>4, <3>5
  <2>4. SegmentOffset(gs, k) \in Nat /\ 4 \in Nat
    BY <2>3 DEF Btl
  <2>5. SegmentOffset(gs, k) \in Datum /\ "sbso" \in Field
    BY <2>4, DataAre, FieldsAre, Zenon
  <2>6. Bytes("sbso", SegmentOffset(gs, k), 4) \in Seq(Cell) /\ Len(Bytes("sbso", SegmentOffset(gs, k), 4)) = 4
    BY <2>4, <2>5, BytesAre
  <2> QED BY <2>6 DEF k
<1>4. z \in Seq(Cell) /\ Len(z) = 2
  <2>1. m \in Datum /\ "nsbs" \in Field
    BY <1>1, DataAre, FieldsAre, Zenon
  <2>2. 2 \in Nat
    OBVIOUS
  <2> HIDE DEF m
  <2> QED BY <2>1, <2>2, BytesAre
<1> HIDE DEF Part, z
<1>5. /\ ss \in Seq(Seq(Cell)) /\ Len(ss) = m /\ \A i \in 1 .. m : ss[i] = Part(i)
  <2>1. ss \in [1 .. m -> Seq(Cell)]
    BY <1>3
  <2> HIDE DEF m
  <2>2. ss \in Seq(Seq(Cell)) /\ Len(ss) = m
    BY <1>1, <2>1, IsSequence
  <2> QED BY <2>2
<1> HIDE DEF ss, m
<1>6. PICK o : /\ o[0] = 0 /\ o[m] = Len(A)
               /\ \A i \in 1 .. m : o[i] = o[i - 1] + 4 /\ LiesAt(A, o[i - 1], Part(i))
  <2>1. PICK o : /\ o[0] = 0 /\ o[Len(ss)] = Len(FlattenSeq(ss))
                 /\ \A i \in 1 .. Len(ss) :
                      o[i] = o[i - 1] + Len(ss[i]) /\ LiesAt(FlattenSeq(ss), o[i - 1], ss[i])
    BY <1>5, PartsLie
  <2>2. A = FlattenSeq(ss)
    OBVIOUS
  <2> HIDE DEF A
  <2>3. \A i \in 1 .. m : ss[i] = Part(i) /\ Len(ss[i]) = 4
    BY <1>3, <1>5
  <2>4. ASSUME NEW i \in 1 .. m PROVE o[i] = o[i - 1] + 4 /\ LiesAt(A, o[i - 1], Part(i))
    <3>1. i \in 1 .. Len(ss)
      BY <1>5
    <3> QED BY <2>1, <2>2, <2>3, <3>1
  <2> QED BY <1>5, <2>1, <2>2, <2>4
<1> DEFINE T == {k \in Nat : k <= m => o[k] = 4 * k}
<1>7. 0 \in T
  BY <1>6
<1>8. ASSUME NEW k \in Nat, k \in T PROVE k + 1 \in T
  <2> SUFFICES ASSUME k + 1 <= m PROVE o[k + 1] = 4 * (k + 1)
    OBVIOUS
  <2> DEFINE i == k + 1
  <2>1. i \in 1 .. m /\ i - 1 = k /\ o[k] = 4 * k
    BY <1>1, <1>8
  <2> HIDE DEF i, T, A
  <2>2. o[i] = 4 * k + 4
    BY <1>6, <2>1
  <2> QED BY <2>2 DEF i
<1> HIDE DEF T
<1>9. \A k \in 0 .. m : o[k] = 4 * k
  <2>1. \A k \in Nat : k \in T
    BY <1>7, <1>8, SetInduction
  <2> QED BY <1>1, <2>1 DEF T
<1>10. A \in Seq(Cell) /\ Len(A) = 4 * m
  <2>1. A \in Seq(Cell)
    BY <1>5, FlattenType
  <2>2. m \in 0 .. m
    BY <1>1
  <2> QED BY <1>6, <1>9, <2>1, <2>2
<1> HIDE DEF A
<1>11. A \o z \in Seq(Cell) /\ Len(A \o z) = 4 * m + 2
  BY <1>4, <1>10, ConcatLength
<1>12. ASSUME NEW s, NEW q \in Nat, LiesAt(s, q, A \o z) PROVE SpecialLies(s, q, gs)
  <2>1. LiesAt(s, q, A) /\ LiesAt(s, q + Len(A), z)
    BY <1>4, <1>10, <1>12, LiesParts
  <2>2. ValueAt(s, q + 4 * m) = m
    <3>1. q + Len(A) \in Nat /\ q + Len(A) = q + 4 * m /\ 2 \in Nat \ {0}
      BY <1>1, <1>10
    <3>2. LiesAt(s, q + Len(A), Bytes("nsbs", m, 2))
      BY <2>1 DEF z
    <3>3. ValueAt(s, q + Len(A)) = m
      BY <3>1, <3>2, BytesSay
    <3> QED BY <3>1, <3>3
  <2>3. ASSUME NEW i \in 1 .. m
        PROVE  ValueAt(s, q + 4 * (i - 1)) = SegmentOffset(gs, special[i])
    <3> DEFINE u == 4 * (i - 1)
    <3>1. u \in Nat /\ u + 4 <= Len(A) /\ Len(A) \in Nat
      BY <1>1, <1>10
    <3>2. LiesAt(A, u, Part(i)) /\ Len(Part(i)) = 4
      <4>1. i - 1 \in 0 .. m
        BY <1>1
      <4> QED BY <1>3, <1>6, <1>9, <4>1
    <3> HIDE DEF u
    <3>3. LiesAt(s, q + u, Part(i))
      <4> DEFINE t == Part(i)
      <4>1. /\ q \in Nat /\ u \in Nat /\ Len(A) \in Nat /\ Len(t) \in Nat
            /\ LiesAt(s, q, A) /\ LiesAt(A, u, t) /\ u + Len(t) <= Len(A)
        BY <2>1, <3>1, <3>2
      <4> HIDE DEF t
      <4>2. LiesAt(s, q + u, t)
        BY <4>1, LiesWithin
      <4> QED BY <4>2 DEF t
    <3>4. LiesAt(s, q + u, Bytes("sbso", SegmentOffset(gs, special[i]), 4)) /\ q + u \in Nat
      BY <3>1, <3>3 DEF Part
    <3>5. 4 \in Nat \ {0}
      OBVIOUS
    <3>6. ValueAt(s, q + u) = SegmentOffset(gs, special[i])
      BY <3>4, <3>5, BytesSay
    <3> QED BY <3>6 DEF u
  <2> QED BY <2>2, <2>3 DEF SpecialLies, m, special
<1> QED BY <1>1, <1>2, <1>11, <1>12 DEF m, special

\* s begins as a block of this content does that is not compressed.
Framed(s, content) ==
    LiesAt(s, Btl, content) /\ BtlValue(s) = Btl + Len(content) + 5

LEMMA ContentIs ==
    ASSUME NEW gs, AreImages(gs)
    PROVE  /\ Content(gs) = DataArea(gs) \o SpecialBytes(gs)
           /\ Content(gs) \in Seq(Cell)
           /\ Len(Content(gs)) = Len(DataArea(gs)) + 4 * Len(SpecialSegments(Len(gs))) + 2
           /\ Len(DataArea(gs)) \in Nat /\ Len(SpecialSegments(Len(gs))) \in Nat
<1> DEFINE D == DataArea(gs)
           S == SpecialBytes(gs)
           m == Len(SpecialSegments(Len(gs)))
<1>1. D \in Seq(Cell) /\ Len(D) \in Nat /\ S \in Seq(Cell) /\ m \in Nat /\ Len(S) = 4 * m + 2
  BY SegmentPartsAre, SpecialBytesAre
<1> HIDE DEF D, S, m
<1>2. D \o S \in Seq(Cell) /\ Len(D \o S) = Len(D) + 4 * m + 2
  BY <1>1, ConcatLength
<1> QED BY <1>1, <1>2 DEF D, S, m, Content

\* The offsets are found behind the data area, and the first of them is there.
LEMMA FramedOffsets ==
    ASSUME NEW gs, AreImages(gs), Len(gs) # 0, NEW D \in Seq(Cell), NEW s,
           Framed(s, D \o SpecialBytes(gs))
    PROVE  LET special == SpecialSegments(Len(gs))
           IN  /\ MetaDataBeg(s) = Btl + Len(D)
               /\ SpecialOffsets(s) = [i \in 1 .. Len(special) |-> SegmentOffset(gs, special[i])]
               /\ Len(SpecialOffsets(s)) = Len(special)
               /\ SpecialOffsets(s)[1] = Btl
               /\ ValueAt(s, MetaDataBeg(s)) = Btl
               /\ LiesAt(s, Btl, D) /\ Len(D) \in Nat
<1> DEFINE special == SpecialSegments(Len(gs))
           m == Len(special)
           a == Len(D)
           q == Btl + a
           At(i) == SegmentOffset(gs, special[i])
<1>1. Btl = 4 /\ a \in Nat /\ m \in Nat /\ q \in Nat /\ q # 0 /\ Btl \in Nat
  <2>1. a \in Nat /\ m \in Nat
    BY SpecialBytesAre
  <2> HIDE DEF a, m
  <2> QED BY <2>1 DEF Btl
<1>2. LiesAt(s, Btl, D) /\ SpecialLies(s, q, gs)
  <2>1. SpecialBytes(gs) \in Seq(Cell)
    BY SpecialBytesAre
  <2>2. LiesAt(s, Btl, D \o SpecialBytes(gs))
    BY DEF Framed
  <2>3. LiesAt(s, Btl, D) /\ LiesAt(s, q, SpecialBytes(gs))
    BY <1>1, <2>1, <2>2, LiesParts
  <2> HIDE DEF q
  <2> QED BY <1>1, <2>3, SpecialBytesAre
<1>3. BtlValue(s) = Btl + (a + 4 * m + 2) + 5
  <2> DEFINE S == SpecialBytes(gs)
             c == D \o S
  <2>1. S \in Seq(Cell) /\ Len(S) = 4 * m + 2
    BY SpecialBytesAre
  <2> HIDE DEF S
  <2>2. Len(c) = a + Len(S) /\ BtlValue(s) = Btl + Len(c) + 5
    BY <2>1, ConcatLength DEF Framed, S
  <2> HIDE DEF a, m, c
  <2> QED BY <1>1, <2>1, <2>2
<1>4. ValueAt(s, q + 4 * m) = m /\ \A i \in 1 .. m : ValueAt(s, q + 4 * (i - 1)) = At(i)
  <2> HIDE DEF q
  <2> QED BY <1>2 DEF SpecialLies
<1>5. special \in Seq(Nat) /\ special[1] = 1 /\ m # 0 /\ \A i \in 1 .. m : special[i] \in 1 .. Len(gs)
  <2>1. Len(gs) \in Nat
    BY DEF AreImages
  <2> QED BY <2>1, SpecialAre
<1> HIDE DEF special, m, a, At
<1>6. NsbsBeg(s) = q + 4 * m
  BY <1>1, <1>3 DEF NsbsBeg, WcBeg, CrcBeg
<1>7. MetaDataBeg(s) = q
  <2>1. ValueAt(s, NsbsBeg(s)) = m
    BY <1>4, <1>6
  <2> HIDE DEF q
  <2> QED BY <1>1, <1>6, <2>1 DEF MetaDataBeg
<1> HIDE DEF q
<1>8. SpecialOffsets(s) = [i \in 1 .. m |-> At(i)]
  <2>1. ValueAt(s, NsbsBeg(s)) = m
    BY <1>4, <1>6
  <2>2. SpecialOffsets(s) = [i \in 1 .. m |-> ValueAt(s, q + 4 * (i - 1))]
    BY <1>7, <2>1, Zenon DEF SpecialOffsets
  <2> QED BY <1>4, <2>2
<1>10. At(1) = Btl
  <2>1. PICK o : Offsets(o, gs)
    BY OffsetsAre
  <2>2. 1 \in 1 .. Len(gs) /\ 1 - 1 = 0
    BY <1>1, <1>5 DEF m
  <2>3. SegmentOffset(gs, 1) = Btl + o[0] /\ o[0] = 0
    <3> DEFINE k == 1
    <3>1. k \in 1 .. Len(gs) /\ k - 1 = 0
      BY <2>2
    <3> HIDE DEF k
    <3>2. SegmentOffset(gs, k) = Btl + o[k - 1] /\ o[0] = 0
      BY <2>1, <3>1 DEF Offsets
    <3> QED BY <3>1, <3>2 DEF k
  <2> QED BY <1>1, <1>5, <2>3 DEF At
<1>11. 1 \in 1 .. m
  BY <1>1, <1>5
<1>12. SpecialOffsets(s)[1] = Btl /\ Len(SpecialOffsets(s)) = m
  <2>1. SpecialOffsets(s)[1] = At(1)
    BY <1>8, <1>11
  <2>2. Len(SpecialOffsets(s)) = m
    BY <1>1, <1>8
  <2> QED BY <1>10, <2>1, <2>2
<1>13. ValueAt(s, MetaDataBeg(s)) = Btl
  <2>1. q + 4 * (1 - 1) = q
    BY <1>1
  <2>2. ValueAt(s, q + 4 * (1 - 1)) = At(1)
    BY <1>4, <1>11
  <2> QED BY <1>7, <1>10, <2>1, <2>2
<1> QED BY <1>1, <1>2, <1>7, <1>8, <1>12, <1>13 DEF q, a, m, special, At

\* What is parsed of a block is what it was built of.
LEMMA FramedParses ==
    ASSUME NEW gs, AreImages(gs), Len(gs) # 0, NEW s, Framed(s, Content(gs))
    PROVE  LET special == SpecialSegments(Len(gs))
           IN  /\ MetaDataBeg(s) = Btl + Len(DataArea(gs))
               /\ SpecialOffsets(s) = [i \in 1 .. Len(special) |-> SegmentOffset(gs, special[i])]
               /\ AllSegments(s) = gs
               /\ \A n \in 1 .. Len(gs) :
                    SegmentAt(s, SegmentOffset(gs, n), MetaDataBeg(s)).prefix = gs[n].prefix
<1> DEFINE special == SpecialSegments(Len(gs))
           D == DataArea(gs)
           N == MetaDataBeg(s)
<1>1. D \in Seq(Cell) /\ Framed(s, D \o SpecialBytes(gs))
  BY SegmentPartsAre DEF Content
<1>2. /\ N = Btl + Len(D) /\ LiesAt(s, Btl, D) /\ Len(D) \in Nat
      /\ SpecialOffsets(s) = [i \in 1 .. Len(special) |-> SegmentOffset(gs, special[i])]
      /\ SpecialOffsets(s)[1] = Btl
  <2> HIDE DEF D
  <2> QED BY <1>1, FramedOffsets
<1> HIDE DEF N
<1>3. /\ SegmentsFrom(s, Btl, N) = gs
      /\ \A n \in 1 .. Len(gs) : SegmentAt(s, SegmentOffset(gs, n), N).prefix = gs[n].prefix
  <2>1. N \in Nat
    BY <1>2 DEF Btl
  <2> QED BY <1>2, <2>1, SegmentsFound
<1>4. AllSegments(s) = gs
  BY <1>2, <1>3 DEF AllSegments, N
<1> QED BY <1>2, <1>3, <1>4 DEF N

\* So it is of a meta block, as the first offset, behind the last segment, is not zero.
LEMMA MetaParses ==
    ASSUME NEW gs, AreImages(gs), Len(gs) # 0, NEW s, Framed(s, MetaContent(gs))
    PROVE  AllSegments(s) = gs /\ Len(SpecialOffsets(s)) = Len(SpecialSegments(Len(gs)))
<1> DEFINE D == OpenArea(gs)
           N == MetaDataBeg(s)
<1>1. D \in Seq(Cell) /\ Framed(s, D \o SpecialBytes(gs))
  BY OpenAreaIs DEF MetaContent, OpenArea
<1>2. /\ N = Btl + Len(D) /\ LiesAt(s, Btl, D) /\ Len(D) \in Nat /\ ValueAt(s, N) = Btl
      /\ Len(SpecialOffsets(s)) = Len(SpecialSegments(Len(gs)))
      /\ SpecialOffsets(s)[1] = Btl
  <2> HIDE DEF D
  <2> QED BY <1>1, FramedOffsets
<1> HIDE DEF N
<1>3. SegmentsFrom(s, Btl, N) = gs
  <2>1. N \in Nat /\ ValueAt(s, N) # 0
    BY <1>2 DEF Btl
  <2> QED BY <1>2, <2>1, OpenAreFound
<1>4. AllSegments(s) = gs
  BY <1>2, <1>3 DEF AllSegments, N
<1> QED BY <1>2, <1>4

(***************************************************************************)
(* Finished blocks                                                         *)
(***************************************************************************)
\* The four parts of a block.
LEMMA ShellLies ==
    ASSUME NEW S, NEW h \in Seq(S), NEW c \in Seq(S), NEW w \in Seq(S), NEW e \in Seq(S),
           Len(h) = 4, Len(w) = 1
    PROVE  LET b == h \o c \o w \o e
           IN  /\ LiesAt(b, 0, h) /\ LiesAt(b, 4, c)
               /\ LiesAt(b, 4 + Len(c), w) /\ LiesAt(b, 5 + Len(c), e)
<1> DEFINE u == h \o c
           v == u \o w
           b == v \o e
           n == Len(c)
<1>1. n \in Nat
  OBVIOUS
<1>2. u \in Seq(S) /\ Len(u) = 4 + n
  BY ConcatLength
<1> HIDE DEF n
<1>3. v \in Seq(S) /\ Len(v) = 5 + n
  <2> HIDE DEF u
  <2>1. v \in Seq(S) /\ Len(v) = Len(u) + 1
    BY <1>2, ConcatLength
  <2> QED BY <1>1, <1>2, <2>1
<1>4. LiesAt(b, 0, b) /\ 0 \in Nat
  BY DEF LiesAt
<1>5. LiesAt(b, 0, v) /\ LiesAt(b, 0 + Len(v), e)
  <2> HIDE DEF v
  <2> QED BY <1>3, <1>4, LiesParts
<1>6. LiesAt(b, 0, u) /\ LiesAt(b, 0 + Len(u), w)
  <2> HIDE DEF u, b
  <2> QED BY <1>2, <1>4, <1>5, LiesParts
<1>7. LiesAt(b, 0, h) /\ LiesAt(b, 0 + Len(h), c)
  <2> HIDE DEF b
  <2> QED BY <1>4, <1>6, LiesParts
<1>8. 0 + Len(v) = 5 + n /\ 0 + Len(u) = 4 + n /\ 0 + Len(h) = 4
  BY <1>1, <1>2, <1>3
<1> QED BY <1>5, <1>6, <1>7, <1>8 DEF n

Shell(body, compress, summed) ==
    Bytes("btl", TotalLength(body), Btl) \o body
        \o Bytes("wc", compress, 1) \o Bytes("crc", summed, 4)

LEMMA ShellSays ==
    ASSUME NEW body, NEW T, body \in Seq(T), NEW compress, NEW summed, NEW b,
           b = Shell(body, compress, summed)
    PROVE  /\ BtlValue(b) = Btl + Len(body) + 5
           /\ LiesAt(b, Btl, body)
           /\ ValueAt(b, WcBeg(b)) = compress
           /\ BodyOf(b) = body
           /\ ValueAt(b, CrcBeg(b)) = summed
<1> DEFINE n == Len(body)
           t == TotalLength(body)
           X == {<<"btl", t, i>> : i \in Nat}
           Y == {<<"wc", compress, i>> : i \in Nat}
           Z == {<<"crc", summed, i>> : i \in Nat}
           S == T \cup X \cup Y \cup Z
           h == Bytes("btl", t, 4)
           w == Bytes("wc", compress, 1)
           e == Bytes("crc", summed, 4)
<1>1. n \in Nat /\ t = 4 + n + 1 + 4 /\ Btl = 4
  BY DEF Btl, TotalLength
<1>2. /\ \A i \in 1 .. 4 : <<"btl", t, i>> \in S
      /\ \A i \in 1 .. 1 : <<"wc", compress, i>> \in S
      /\ \A i \in 1 .. 4 : <<"crc", summed, i>> \in S
  <2> HIDE DEF t
  <2>1. \A i \in 1 .. 4 : i \in Nat
    OBVIOUS
  <2>2. \A i \in 1 .. 1 : i \in Nat
    OBVIOUS
  <2> QED BY <2>1, <2>2, Zenon
<1>3. body \in Seq(S)
  <2>1. body \in [1 .. n -> T]
    OBVIOUS
  <2>2. T \subseteq S
    BY Zenon
  <2> HIDE DEF S
  <2>3. body \in [1 .. n -> S]
    BY <2>1, <2>2
  <2> HIDE DEF n
  <2> QED BY <1>1, <2>3, IsSequence
<1> HIDE DEF S, t
<1>4. h \in Seq(S) /\ Len(h) = 4 /\ w \in Seq(S) /\ Len(w) = 1 /\ e \in Seq(S) /\ Len(e) = 4
  <2> DEFINE j == 4
             l == 1
  <2>1. j \in Nat /\ l \in Nat
    OBVIOUS
  <2>2. /\ \A i \in 1 .. j : <<"btl", t, i>> \in S
        /\ \A i \in 1 .. l : <<"wc", compress, i>> \in S
        /\ \A i \in 1 .. j : <<"crc", summed, i>> \in S
    BY <1>2
  <2> HIDE DEF j, l
  <2> HIDE DEF h, w, e, n
  <2>3. Bytes("btl", t, j) \in Seq(S) /\ Len(Bytes("btl", t, j)) = j
    <3>1. Bytes("btl", t, j) \in [1 .. j -> S]
      BY <2>2, Zenon DEF Bytes
    <3> QED BY <2>1, <3>1, IsSequence
  <2>4. Bytes("wc", compress, l) \in Seq(S) /\ Len(Bytes("wc", compress, l)) = l
    <3>1. Bytes("wc", compress, l) \in [1 .. l -> S]
      BY <2>2, Zenon DEF Bytes
    <3> QED BY <2>1, <3>1, IsSequence
  <2>5. Bytes("crc", summed, j) \in Seq(S) /\ Len(Bytes("crc", summed, j)) = j
    <3>1. Bytes("crc", summed, j) \in [1 .. j -> S]
      BY <2>2, Zenon DEF Bytes
    <3> QED BY <2>1, <3>1, IsSequence
  <2> QED BY <2>3, <2>4, <2>5 DEF j, l, h, w, e
<1>5. b = h \o body \o w \o e
  BY <1>1 DEF Shell, t
<1> HIDE DEF h, w, e
<1>6. LiesAt(b, 0, h) /\ LiesAt(b, 4, body) /\ LiesAt(b, 4 + n, w) /\ LiesAt(b, 5 + n, e)
  BY <1>3, <1>4, <1>5, ShellLies
<1>7. BtlValue(b) = t
  <2>1. 0 \in Nat /\ 4 \in Nat \ {0}
    OBVIOUS
  <2>2. LiesAt(b, 0, Bytes("btl", t, 4))
    BY <1>6 DEF h
  <2>3. ValueAt(b, 0) = t
    BY <2>1, <2>2, BytesSay
  <2> QED BY <2>3 DEF BtlValue
<1> HIDE DEF n
<1>8. CrcBeg(b) = 5 + n /\ WcBeg(b) = 4 + n /\ WcBeg(b) - Btl = n
  <2>1. CrcBeg(b) = 5 + n
    BY <1>1, <1>7 DEF CrcBeg
  <2> QED BY <1>1, <2>1 DEF WcBeg
<1>9. ValueAt(b, 4 + n) = compress /\ ValueAt(b, 5 + n) = summed
  <2>1. 4 + n \in Nat /\ 5 + n \in Nat /\ 1 \in Nat \ {0} /\ 4 \in Nat \ {0}
    BY <1>1
  <2>2. LiesAt(b, 4 + n, Bytes("wc", compress, 1)) /\ LiesAt(b, 5 + n, Bytes("crc", summed, 4))
    BY <1>6 DEF w, e
  <2> QED BY <2>1, <2>2, BytesSay
<1>10. BodyOf(b) = body
  <2>1. 4 \in Nat
    OBVIOUS
  <2>2. From(b, 4, Len(body)) = body
    BY <1>6, <2>1, LiesFrom
  <2> QED BY <1>1, <1>8, <2>2 DEF BodyOf, n
<1>11. BtlValue(b) = Btl + n + 5
  BY <1>1, <1>7
<1> QED BY <1>1, <1>6, <1>8, <1>9, <1>10, <1>11 DEF n

\* A finished block, decompressed, is framed; and it is intact, or its string was full.
LEMMA FinishedIsFramed ==
    ASSUME NEW content \in Seq(Cell), NEW compress \in BOOLEAN,
           NEW b \in FinishedBlocks(content, compress)
    PROVE  /\ Framed(Decompressed(b), content)
           /\ Intact(b) \/ Btl + Len(content) \in FullAt
           /\ ~compress => Decompressed(b) = b
<1> DEFINE n == Len(content)
           body == IF compress THEN Compressed(content) ELSE content
<1>1. content \in Seq(Cell) /\ n \in Nat
  OBVIOUS
<1>2. PICK summed \in Summed(body, compress, Btl + n) : b = Shell(body, compress, summed)
  BY Zenon DEF FinishedBlocks, Shell
<1>3. PICK T : body \in Seq(T)
  <2>1. CASE ~compress
    BY <1>1, <2>1
  <2>2. CASE compress
    <3>1. 1 \in Nat
      OBVIOUS
    <3>2. Bytes("compressed", content, 1) \in Seq({<<"compressed", content, i>> : i \in 1 .. 1})
      BY <3>1, BytesLength
    <3>3. body = Bytes("compressed", content, 1)
      BY <2>2 DEF Compressed
    <3> HIDE DEF body
    <3> QED BY <3>2, <3>3
  <2> QED BY <2>1, <2>2
<1> HIDE DEF n
<1>4. Intact(b) \/ Btl + n \in FullAt
  <2>1. BodyOf(b) = body /\ ValueAt(b, CrcBeg(b)) = summed
    <3> HIDE DEF body
    <3> QED BY <1>2, <1>3, ShellSays
  <2>2. summed = body \/ Btl + n \in FullAt
    <3> HIDE DEF body
    <3> QED BY <1>2 DEF Summed
  <2> HIDE DEF body
  <2> QED BY <2>1, <2>2 DEF Intact
<1>5. /\ BtlValue(b) = Btl + Len(body) + 5 /\ LiesAt(b, Btl, body)
      /\ ValueAt(b, WcBeg(b)) = compress
  <2> HIDE DEF body
  <2> QED BY <1>2, <1>3, ShellSays
<1>6. CASE ~compress
  <2>1. Decompressed(b) = b
    <3>1. ~ValueAt(b, WcBeg(b))
      BY <1>5, <1>6
    <3> QED BY <3>1, Zenon DEF Decompressed
  <2>2. body = content
    BY <1>6
  <2> QED BY <1>4, <1>5, <2>1, <2>2 DEF Framed, n
<1>7. CASE compress
  <2> DEFINE h == Bytes("btl", TotalLength(content), Btl)
             z == Bytes("unset", 0, 5)
             X == {<<"btl", TotalLength(content), i>> : i \in Nat}
             Y == {<<"unset", 0, i>> : i \in Nat}
             S == Cell \cup X \cup Y
  <2>1. ValueAt(b, Btl) = content
    <3>1. body = Bytes("compressed", content, 1)
      BY <1>7 DEF Compressed
    <3>2. LiesAt(b, Btl, Bytes("compressed", content, 1)) /\ Btl \in Nat /\ 1 \in Nat \ {0}
      BY <1>5, <3>1 DEF Btl
    <3> QED BY <3>2, BytesSay
  <2>2. Decompressed(b) = h \o content \o z
    <3>1. ValueAt(b, WcBeg(b))
      BY <1>5, <1>7
    <3> HIDE DEF body
    <3> QED BY <2>1, <3>1, Zenon DEF Decompressed
  <2>3. TotalLength(content) = 4 + n + 1 + 4 /\ Btl = 4 /\ n \in Nat
    BY <1>1 DEF n, TotalLength, Btl
  <2>4. h \in Seq(S) /\ Len(h) = 4 /\ z \in Seq(S)
    <3>1. /\ \A i \in 1 .. 4 : <<"btl", TotalLength(content), i>> \in S
          /\ \A i \in 1 .. 5 : <<"unset", 0, i>> \in S
      <4>1. \A i \in 1 .. 4 : i \in Nat
        OBVIOUS
      <4>2. \A i \in 1 .. 5 : i \in Nat
        OBVIOUS
      <4> QED BY <4>1, <4>2, Zenon
    <3> DEFINE j == 4
               l == 5
    <3>2. j \in Nat /\ l \in Nat
      OBVIOUS
    <3>3. /\ \A i \in 1 .. j : <<"btl", TotalLength(content), i>> \in S
          /\ \A i \in 1 .. l : <<"unset", 0, i>> \in S
      BY <3>1
    <3> HIDE DEF S, j, l
    <3>4. /\ Bytes("btl", TotalLength(content), j) \in Seq(S)
          /\ Len(Bytes("btl", TotalLength(content), j)) = j
      <4>1. Bytes("btl", TotalLength(content), j) \in [1 .. j -> S]
        BY <3>3, Zenon DEF Bytes
      <4> QED BY <3>2, <4>1, IsSequence
    <3>5. Bytes("unset", 0, l) \in Seq(S)
      <4>1. Bytes("unset", 0, l) \in [1 .. l -> S]
        BY <3>3, Zenon DEF Bytes
      <4> QED BY <3>2, <4>1, IsSequence
    <3> QED BY <2>3, <3>4, <3>5 DEF j, l
  <2>5. content \in Seq(S)
    <3>1. content \in [1 .. n -> Cell]
      BY <1>1 DEF n
    <3>2. Cell \subseteq S
      BY Zenon
    <3> HIDE DEF S
    <3>3. content \in [1 .. n -> S]
      BY <3>1, <3>2
    <3> QED BY <2>3, <3>3, IsSequence
  <2> HIDE DEF S, h, z, body
  <2> DEFINE d == (h \o content) \o z
             k == h \o content
  <2>6. k \in Seq(S) /\ LiesAt(d, 0, d) /\ 0 \in Nat /\ 0 + Len(h) = 4
    <3>1. k \in Seq(S)
      BY <2>4, <2>5, ConcatLength
    <3>2. LiesAt(d, 0, d)
      BY DEF LiesAt
    <3> QED BY <2>4, <3>1, <3>2
  <2>7. LiesAt(d, 0, k)
    <3>1. d = k \o z
      OBVIOUS
    <3> HIDE DEF d, k
    <3>2. LiesAt(d, 0, k \o z)
      BY <2>6, <3>1
    <3> QED BY <2>4, <2>6, <3>2, LiesParts
  <2>8. LiesAt(d, 0, h) /\ LiesAt(d, 4, content)
    <3> HIDE DEF d
    <3>1. LiesAt(d, 0, h \o content)
      BY <2>7
    <3>2. LiesAt(d, 0, h) /\ LiesAt(d, 0 + Len(h), content)
      BY <2>4, <2>5, <2>6, <3>1, LiesParts
    <3> QED BY <2>6, <3>2
  <2>9. BtlValue(d) = 4 + n + 1 + 4
    <3>1. LiesAt(d, 0, Bytes("btl", TotalLength(content), 4)) /\ 4 \in Nat \ {0}
      BY <2>3, <2>8 DEF h
    <3> HIDE DEF d
    <3>2. ValueAt(d, 0) = TotalLength(content)
      BY <2>6, <3>1, BytesSay
    <3> QED BY <2>3, <3>2 DEF BtlValue
  <2>10. BtlValue(d) = Btl + n + 5 /\ Decompressed(b) = d
    BY <2>2, <2>3, <2>9
  <2> HIDE DEF d
  <2> QED BY <1>4, <1>7, <2>3, <2>8, <2>10 DEF Framed, n
<1> QED BY <1>6, <1>7

(***************************************************************************)
(* The bytes of keys and of entries                                        *)
(***************************************************************************)
LEMMA UserKeyIs ==
    ASSUME NEW k \in Key
    PROVE  /\ UserKey(k) \in Seq(Cell)
           /\ Len(UserKey(k)) = 2 + KeyBytes[k] /\ KeyBytes[k] \in Nat
           /\ Len(UserKey(k)) \in 1 .. PrefixLimit - 1
           /\ UserKey(k)[1] = <<"uk", k, 1>>
<1> DEFINE n == KeyBytes[k]
           m == 2 + n
<1>1. n \in Nat /\ n + 2 < PrefixLimit /\ PrefixLimit \in Nat /\ k \in Nat
  BY TableAssumption, BytesAssumption, KeyAssumption
<1> HIDE DEF n
<1>2. m \in Nat /\ m # 0 /\ m \in 1 .. PrefixLimit - 1
  BY <1>1
<1>3. k \in Datum /\ "uk" \in Field
  BY <1>1, DataAre, FieldsAre, Zenon
<1>4. UserKey(k) = Bytes("uk", k, m)
  BY Zenon DEF UserKey, n
<1>0. m = 2 + n
  OBVIOUS
<1> HIDE DEF m
<1>5. Bytes("uk", k, m) \in Seq(Cell) /\ Len(Bytes("uk", k, m)) = m
  BY <1>2, <1>3, BytesAre
<1>6. Bytes("uk", k, m)[1] = <<"uk", k, 1>>
  BY <1>2, BytesLength
<1> QED BY <1>0, <1>1, <1>2, <1>4, <1>5, <1>6 DEF n

LEMMA SameUserKey ==
    ASSUME NEW k \in Key, NEW c \in Key, UserKey(c) = UserKey(k)
    PROVE  c = k
<1>1. <<"uk", c, 1>> = <<"uk", k, 1>>
  BY UserKeyIs
<1> QED BY <1>1

\* The key of a segment is read back.
LEMMA KeyIsRead ==
    ASSUME NEW k \in Key, NEW g, g.prefix = UserKey(k)
    PROVE  KeyOf(g) = k
<1>1. \A c \in Key : UserKey(c) = g.prefix => c = k
  BY SameUserKey
<1> QED BY <1>1 DEF KeyOf

ItemLength(e) == 8 + ValueBytes[e.value]

\* So are the number and the value of an entry; an empty value is a tombstone.
LEMMA ItemOfIs ==
    ASSUME NEW e \in Written
    PROVE  /\ ItemOf(e) \in Seq(Cell) /\ Len(ItemOf(e)) = ItemLength(e)
           /\ ValueBytes[e.value] \in Nat
           /\ Parsed(e) = [key |-> e.key, seq |-> ValueAt(ItemOf(e), 0), value |-> ValueOfItem(ItemOf(e))]
<1> DEFINE x == e.value
           n == ValueBytes[x]
           a == Bytes("seq", e.seq, 4)
           b == Bytes("len", n, 4)
           c == Bytes("value", x, n)
           u == a \o b
           t == u \o c
<1>1. /\ e.seq \in Nat /\ x \in Value /\ n \in Nat /\ (n = 0 <=> x \in {Tomb, Empty})
      /\ Tomb \in Value /\ e = [key |-> e.key, seq |-> e.seq, value |-> x]
  BY TableAssumption DEF Written
<1>2. ItemOf(e) = t
  BY Zenon DEF ItemOf
<1> HIDE DEF x, n
<1>3. a \in Seq(Cell) /\ Len(a) = 4 /\ b \in Seq(Cell) /\ Len(b) = 4 /\ c \in Seq(Cell) /\ Len(c) = n
  <2>1. e.seq \in Datum /\ n \in Datum /\ x \in Datum
    BY <1>1, DataAre, Zenon
  <2>2. "seq" \in Field /\ "len" \in Field /\ "value" \in Field
    BY FieldsAre, Zenon
  <2>3. 4 \in Nat
    OBVIOUS
  <2>4. a \in Seq(Cell) /\ Len(a) = 4
    BY <2>1, <2>2, <2>3, BytesAre
  <2>5. b \in Seq(Cell) /\ Len(b) = 4
    BY <2>1, <2>2, <2>3, BytesAre
  <2>6. c \in Seq(Cell) /\ Len(c) = n
    BY <1>1, <2>1, <2>2, BytesAre
  <2> QED BY <2>4, <2>5, <2>6
<1> HIDE DEF a, b, c
<1>4. u \in Seq(Cell) /\ Len(u) = 8
  <2>1. u \in Seq(Cell) /\ Len(u) = Len(a) + Len(b)
    BY <1>3, ConcatLength
  <2> HIDE DEF u
  <2> QED BY <1>3, <2>1
<1>5. LiesAt(t, 0, u) /\ LiesAt(t, 8, c) /\ t \in Seq(Cell) /\ Len(t) = 8 + n
  <2> HIDE DEF u
  <2>1. LiesAt(t, 0, u \o c) /\ 0 \in Nat
    BY DEF LiesAt
  <2> HIDE DEF t
  <2>2. LiesAt(t, 0, u) /\ LiesAt(t, 0 + Len(u), c)
    BY <1>3, <1>4, <2>1, LiesParts
  <2>3. u \o c \in Seq(Cell) /\ Len(u \o c) = Len(u) + Len(c)
    BY <1>3, <1>4, ConcatLength
  <2> QED BY <1>3, <1>4, <2>2, <2>3 DEF t
<1>6. LiesAt(t, 0, a) /\ LiesAt(t, 4, b)
  <2>1. LiesAt(t, 0, a \o b) /\ 0 \in Nat
    BY <1>5
  <2> HIDE DEF t
  <2>2. LiesAt(t, 0, a) /\ LiesAt(t, 0 + Len(a), b)
    BY <1>3, <2>1, LiesParts
  <2> QED BY <1>3, <2>2
<1> HIDE DEF t, u
<1>7. ValueAt(t, 0) = e.seq /\ ValueAt(t, 4) = n
  <2>1. 0 \in Nat /\ 4 \in Nat \ {0}
    OBVIOUS
  <2>2. LiesAt(t, 0, Bytes("seq", e.seq, 4)) /\ LiesAt(t, 4, Bytes("len", n, 4))
    BY <1>6 DEF a, b
  <2>3. ValueAt(t, 0) = e.seq
    BY <2>1, <2>2, BytesSay
  <2>4. ValueAt(t, 4) = n
    <3>1. 4 \in Nat
      OBVIOUS
    <3> QED BY <2>1, <2>2, <3>1, BytesSay
  <2> QED BY <2>3, <2>4
<1>8. ValueOfItem(t) = Parsed(e).value
  <2>1. CASE n = 0
    <3>1. Parsed(e).value = Tomb
      BY <1>1, <2>1 DEF Parsed, x
    <3>2. ValueOfItem(t) = Tomb
      BY <1>7, <2>1 DEF ValueOfItem
    <3> QED BY <3>1, <3>2
  <2>2. CASE n # 0
    <3>1. Parsed(e).value = x
      BY <1>1, <2>2 DEF Parsed, x
    <3>2. From(t, 8, n) = c
      <4>1. 8 \in Nat
        OBVIOUS
      <4> QED BY <1>3, <1>5, <4>1, LiesFrom
    <3>3. ASSUME NEW v \in Value, Bytes("value", v, ValueBytes[v]) = c PROVE v = x
      <4> DEFINE m == ValueBytes[v]
      <4>1. m \in Nat
        BY TableAssumption
      <4> HIDE DEF m
      <4>2. Len(Bytes("value", v, m)) = m /\ (m # 0 => Bytes("value", v, m)[1] = <<"value", v, 1>>)
        BY <4>1, BytesLength
      <4>3. c[1] = <<"value", x, 1>>
        BY <1>1, <2>2, BytesLength DEF c
      <4>4. m = n
        BY <1>3, <3>3, <4>2 DEF m
      <4>5. <<"value", v, 1>> = <<"value", x, 1>>
        BY <2>2, <3>3, <4>2, <4>3, <4>4 DEF m
      <4> QED BY <4>5
    <3>4. x \in Value /\ Bytes("value", x, ValueBytes[x]) = c
      BY <1>1 DEF c, n
    <3>5. (CHOOSE v \in Value : Bytes("value", v, ValueBytes[v]) = c) = x
      BY <3>3, <3>4
    <3>6. ValueOfItem(t) = x
      BY <1>7, <2>2, <3>2, <3>5 DEF ValueOfItem
    <3> QED BY <3>1, <3>6
  <2> QED BY <2>1, <2>2
<1>9. Parsed(e) = [key |-> e.key, seq |-> e.seq, value |-> Parsed(e).value]
  BY <1>1 DEF Parsed
<1> QED BY <1>1, <1>2, <1>5, <1>7, <1>8, <1>9 DEF ItemLength, n, x

(***************************************************************************)
(* The bytes of the segments of Tables                                     *)
(***************************************************************************)
LEMMA ImageIs ==
    ASSUME NEW seg \in Segment
    PROVE  LET g == Image(seg)
           IN  /\ IsImage(g) /\ g \in Imaged
               /\ g.prefix = UserKey(seg.key)
               /\ Len(g.items) = Len(seg.items)
               /\ \A j \in 1 .. Len(seg.items) : g.items[j] = ItemOf(seg.items[j])
               /\ SortedItems(seg) => EntriesOf(g) = SegmentEntries(seg)
<1> DEFINE n == Len(seg.items)
           f == [j \in 1 .. n |-> ItemOf(seg.items[j])]
           p == UserKey(seg.key)
           g == [prefix |-> p, items |-> f]
<1>1. /\ n \in Nat /\ DOMAIN seg.items = 1 .. n /\ seg.key \in Key
      /\ \A j \in 1 .. n : seg.items[j] \in Written
  BY DEF Segment
<1>2. Image(seg) = g
  BY <1>1, Zenon DEF Image
<1>3. \A j \in 1 .. n :
        /\ f[j] = ItemOf(seg.items[j]) /\ f[j] \in Seq(Cell) /\ Len(f[j]) # 0
        /\ Parsed(seg.items[j])
              = [key |-> seg.items[j].key, seq |-> ValueAt(f[j], 0), value |-> ValueOfItem(f[j])]
  <2> HIDE DEF n
  <2> TAKE j \in 1 .. n
  <2> DEFINE e == seg.items[j]
             t == ItemOf(e)
  <2>1. e \in Written
    BY <1>1
  <2>2. f[j] = t
    OBVIOUS
  <2> HIDE DEF e, f
  <2>3. /\ t \in Seq(Cell) /\ Len(t) = 8 + ValueBytes[e.value] /\ ValueBytes[e.value] \in Nat
        /\ Parsed(e) = [key |-> e.key, seq |-> ValueAt(t, 0), value |-> ValueOfItem(t)]
    BY <2>1, ItemOfIs DEF ItemLength
  <2> HIDE DEF t
  <2>4. Len(t) # 0
    BY <2>3
  <2> QED BY <2>2, <2>3, <2>4 DEF e, t
<1>4. p \in Seq(Cell) /\ Len(p) \in 1 .. PrefixLimit - 1
  BY <1>1, UserKeyIs
<1> HIDE DEF n, p
<1>5. f \in Seq(Seq(Cell)) /\ Len(f) = n /\ DOMAIN f = 1 .. n
  <2>1. f \in [1 .. n -> Seq(Cell)]
    BY <1>3
  <2> QED BY <1>1, <2>1, IsSequence
<1> HIDE DEF f
<1>6. g.prefix = p /\ g.items = f /\ g = [prefix |-> g.prefix, items |-> g.items] /\ g \in Imaged
  BY <1>4, <1>5 DEF Imaged
<1> HIDE DEF g
<1>7. IsImage(g)
  BY <1>3, <1>4, <1>5, <1>6 DEF IsImage
<1>8. KeyOf(g) = seg.key
  BY <1>1, <1>6, KeyIsRead DEF p
<1>9. ASSUME SortedItems(seg) PROVE EntriesOf(g) = SegmentEntries(seg)
  <2>1. EntriesOf(g) = [j \in 1 .. n |-> [key |-> seg.key, seq |-> ValueAt(f[j], 0),
                                         value |-> ValueOfItem(f[j])]]
    <3>1. DOMAIN g.items = 1 .. n /\ g.items = f
      BY <1>5, <1>6
    <3> QED BY <1>8, <3>1, Zenon DEF EntriesOf
  <2>2. SegmentEntries(seg) = [j \in 1 .. n |-> Parsed(seg.items[j])]
    BY <1>1, Zenon DEF SegmentEntries
  <2>3. \A j \in 1 .. n :
          Parsed(seg.items[j])
            = [key |-> seg.key, seq |-> ValueAt(f[j], 0), value |-> ValueOfItem(f[j])]
    <3>1. \A j \in 1 .. n : seg.items[j].key = seg.key
      BY <1>1, <1>9 DEF SortedItems
    <3> QED BY <1>3, <3>1
  <2> QED BY <2>1, <2>2, <2>3, Zenon
<1> QED BY <1>2, <1>3, <1>5, <1>6, <1>7, <1>9 DEF n, p

LEMMA ImagesAre ==
    ASSUME NEW blk \in Block
    PROVE  /\ AreImages(Images(blk))
           /\ Len(Images(blk)) = Len(blk.segs) /\ DOMAIN Images(blk) = 1 .. Len(blk.segs)
           /\ \A n \in 1 .. Len(blk.segs) : Images(blk)[n] = Image(blk.segs[n])
<1> DEFINE n == Len(blk.segs)
           gs == [i \in 1 .. n |-> Image(blk.segs[i])]
<1>1. n \in Nat /\ DOMAIN blk.segs = 1 .. n /\ \A i \in 1 .. n : blk.segs[i] \in Segment
  BY DEF Block
<1>2. Images(blk) = gs
  BY <1>1, Zenon DEF Images
<1>3. \A i \in 1 .. n : gs[i] = Image(blk.segs[i]) /\ IsImage(gs[i]) /\ gs[i] \in Imaged
  BY <1>1, ImageIs
<1> HIDE DEF n
<1>4. gs \in [1 .. n -> Imaged]
  BY <1>3
<1>5. gs \in Seq(Imaged) /\ Len(gs) = n /\ DOMAIN gs = 1 .. n
  BY <1>1, <1>4, IsSequence
<1> HIDE DEF gs
<1> QED BY <1>2, <1>3, <1>5 DEF AreImages, n

(***************************************************************************)
(* The lengths that block_builder::add counts                              *)
(***************************************************************************)
LEMMA ItemAreaMore ==
    ASSUME NEW g, IsImage(g), NEW h, IsImage(h), NEW n \in Nat,
           Len(g.items) = n, Len(h.items) = n + 1, \A j \in 1 .. n : h.items[j] = g.items[j]
    PROVE  Len(ItemArea(h)) = Len(ItemArea(g)) + Ril + Len(h.items[n + 1])
<1> DEFINE ss == ItemParts(g)
           tt == ItemParts(h)
           k == n + 1
<1>1. /\ ss \in Seq(Seq(Cell)) /\ Len(ss) = n /\ ItemArea(g) \in Seq(Cell)
      /\ \A j \in 1 .. n : ss[j] = Bytes("ril", Len(g.items[j]), Ril) \o g.items[j]
  BY ItemPartsAre
<1>2. /\ tt \in Seq(Seq(Cell)) /\ Len(tt) = k
      /\ \A j \in 1 .. k : /\ tt[j] = Bytes("ril", Len(h.items[j]), Ril) \o h.items[j]
                           /\ Len(tt[j]) = Ril + Len(h.items[j])
  BY ItemPartsAre
<1>3. \A j \in 1 .. n : ss[j] = tt[j]
  <2>1. \A j \in 1 .. n : j \in 1 .. k
    OBVIOUS
  <2> HIDE DEF ss, tt, k
  <2> QED BY <1>1, <1>2, <2>1
<1>4. k \in 1 .. k
  OBVIOUS
<1> HIDE DEF ss, tt
<1>5. FlattenSeq(tt) = FlattenSeq(ss) \o tt[n + 1]
  <2>1. /\ ss \in Seq(Seq(Cell)) /\ tt \in Seq(Seq(Cell)) /\ n \in Nat
        /\ Len(ss) = n /\ Len(tt) = n + 1 /\ \A i \in 1 .. n : ss[i] = tt[i]
    BY <1>1, <1>2, <1>3
  <2> QED BY <2>1, FlattenMore, ZenonT(60)
<1> HIDE DEF k
<1>6. tt[k] \in Seq(Cell) /\ Len(tt[k]) = Ril + Len(h.items[k])
  <2>1. tt[k] \in Seq(Cell)
    BY <1>2, <1>4, ElementOfSeq
  <2>2. Len(tt[k]) = Ril + Len(h.items[k])
    BY <1>2, <1>4, Zenon
  <2> QED BY <2>1, <2>2
<1>7. ItemArea(h) = ItemArea(g) \o tt[k]
  BY <1>5 DEF ItemArea, k, ss, tt
<1>8. Len(ItemArea(h)) = Len(ItemArea(g)) + Len(tt[k])
  BY <1>1, <1>6, <1>7, ConcatLength
<1> DEFINE a == Len(ItemArea(g))
           b == Len(h.items[k])
<1>9. a \in Nat /\ Ril = 4 /\ b \in Nat
  <2>1. h.items[k] \in Seq(Cell)
    <3>1. Len(h.items) = k /\ h.items \in Seq(Seq(Cell))
      BY DEF IsImage, k
    <3> QED BY <1>4, <3>1
  <2> QED BY <1>1, <2>1 DEF Ril
<1>10. Len(ItemArea(h)) = a + (Ril + b)
  BY <1>6, <1>8
<1> HIDE DEF a, b
<1>11. Len(ItemArea(h)) = a + Ril + b
  BY <1>9, <1>10
<1> QED BY <1>11 DEF a, b, k

LEMMA ItemAreaOne ==
    ASSUME NEW g, IsImage(g), Len(g.items) = 1
    PROVE  Len(ItemArea(g)) = Ril + Len(g.items[1])
<1> DEFINE h == [prefix |-> g.prefix, items |-> <<>>]
<1>1. h.prefix = g.prefix /\ h.items = <<>> /\ h = [prefix |-> h.prefix, items |-> h.items]
  OBVIOUS
<1>2. ItemArea(h) = <<>>
  <2>1. DOMAIN h.items = {}
    BY <1>1
  <2>2. ItemParts(h) = <<>>
    BY <2>1 DEF ItemParts
  <2> QED BY <2>2, FlattenNone DEF ItemArea
<1> HIDE DEF h
<1>3. IsImage(h) /\ Len(h.items) = 0
  BY <1>1 DEF IsImage
<1>4. Len(ItemArea(g)) = Len(ItemArea(h)) + Ril + Len(g.items[0 + 1])
  <2> DEFINE n == 0
  <2>1. n \in Nat /\ Len(h.items) = n /\ Len(g.items) = n + 1 /\ \A j \in 1 .. n : g.items[j] = h.items[j]
    BY <1>3
  <2> HIDE DEF n
  <2>2. Len(ItemArea(g)) = Len(ItemArea(h)) + Ril + Len(g.items[n + 1])
    BY <1>3, <2>1, ItemAreaMore
  <2> QED BY <2>2 DEF n
<1>5. Len(ItemArea(h)) = 0 /\ 0 + 1 = 1 /\ 0 + Ril = Ril
  BY <1>2 DEF Ril
<1> QED BY <1>4, <1>5

LEMMA DataAreaMore ==
    ASSUME NEW gs, AreImages(gs), NEW hs, AreImages(hs), NEW n \in Nat,
           Len(gs) = n, Len(hs) = n + 1, \A i \in 1 .. n : hs[i] = gs[i]
    PROVE  Len(DataArea(hs)) = Len(DataArea(gs)) + Len(SegmentBytes(hs[n + 1]))
<1> DEFINE ss == SegmentParts(gs)
           tt == SegmentParts(hs)
           k == n + 1
<1>1. /\ ss \in Seq(Seq(Cell)) /\ Len(ss) = n /\ DataArea(gs) = FlattenSeq(ss)
      /\ DataArea(gs) \in Seq(Cell) /\ \A i \in 1 .. n : ss[i] = SegmentBytes(gs[i])
  BY SegmentPartsAre
<1>2. /\ tt \in Seq(Seq(Cell)) /\ Len(tt) = k /\ DataArea(hs) = FlattenSeq(tt)
      /\ \A i \in 1 .. k : tt[i] = SegmentBytes(hs[i])
  BY SegmentPartsAre
<1>3. \A i \in 1 .. n : ss[i] = tt[i]
  <2>1. \A i \in 1 .. n : i \in 1 .. k
    OBVIOUS
  <2> HIDE DEF ss, tt, k
  <2> QED BY <1>1, <1>2, <2>1
<1>4. k \in 1 .. k
  OBVIOUS
<1> HIDE DEF ss, tt
<1>5. DataArea(hs) = DataArea(gs) \o tt[n + 1]
  <2>1. /\ ss \in Seq(Seq(Cell)) /\ tt \in Seq(Seq(Cell)) /\ n \in Nat
        /\ Len(ss) = n /\ Len(tt) = n + 1 /\ \A i \in 1 .. n : ss[i] = tt[i]
    BY <1>1, <1>2, <1>3
  <2>2. FlattenSeq(tt) = FlattenSeq(ss) \o tt[n + 1]
    BY <2>1, FlattenMore
  <2> QED BY <1>1, <1>2, <2>2
<1> HIDE DEF k
<1>6. tt[k] \in Seq(Cell) /\ tt[k] = SegmentBytes(hs[k]) /\ DataArea(hs) = DataArea(gs) \o tt[k]
  BY <1>2, <1>4, <1>5 DEF k
<1>7. Len(DataArea(hs)) = Len(DataArea(gs)) + Len(tt[k])
  BY <1>1, <1>6, ConcatLength
<1> QED BY <1>6, <1>7 DEF k

LEMMA DataAreaOther ==
    ASSUME NEW gs, AreImages(gs), NEW hs, AreImages(hs), NEW n \in Nat \ {0},
           Len(gs) = n, Len(hs) = n, \A i \in 1 .. n - 1 : hs[i] = gs[i]
    PROVE  Len(DataArea(hs)) + Len(SegmentBytes(gs[n]))
             = Len(DataArea(gs)) + Len(SegmentBytes(hs[n]))
<1> DEFINE ss == SegmentParts(gs)
           tt == SegmentParts(hs)
<1>1. /\ ss \in Seq(Seq(Cell)) /\ Len(ss) = n /\ DataArea(gs) = FlattenSeq(ss)
      /\ \A i \in 1 .. n : ss[i] = SegmentBytes(gs[i])
  BY SegmentPartsAre
<1>2. /\ tt \in Seq(Seq(Cell)) /\ Len(tt) = n /\ DataArea(hs) = FlattenSeq(tt)
      /\ \A i \in 1 .. n : tt[i] = SegmentBytes(hs[i])
  BY SegmentPartsAre
<1> HIDE DEF ss, tt
<1>3. \A i \in 1 .. n - 1 : ss[i] = tt[i]
  <2>1. \A i \in 1 .. n - 1 : i \in 1 .. n
    OBVIOUS
  <2> QED BY <1>1, <1>2, <2>1
<1>4. PICK p \in Seq(Cell) : FlattenSeq(ss) = p \o ss[n] /\ FlattenSeq(tt) = p \o tt[n]
  <2>1. /\ ss \in Seq(Seq(Cell)) /\ tt \in Seq(Seq(Cell)) /\ n \in Nat \ {0}
        /\ Len(ss) = n /\ Len(tt) = n /\ \A i \in 1 .. n - 1 : ss[i] = tt[i]
    BY <1>1, <1>2, <1>3
  <2> QED BY <2>1, FlattenOther, ZenonT(60)
<1> DEFINE a == SegmentBytes(gs[n])
           b == SegmentBytes(hs[n])
<1>5. a \in Seq(Cell) /\ b \in Seq(Cell) /\ ss[n] = a /\ tt[n] = b
  <2>1. n \in 1 .. n
    OBVIOUS
  <2>2. ss[n] \in Seq(Cell) /\ tt[n] \in Seq(Cell)
    BY <1>1, <1>2, <2>1
  <2> QED BY <1>1, <1>2, <2>1, <2>2
<1> HIDE DEF a, b
<1>6. DataArea(gs) = p \o a /\ DataArea(hs) = p \o b
  BY <1>1, <1>2, <1>4, <1>5
<1>7. /\ Len(DataArea(gs)) = Len(p) + Len(a) /\ Len(DataArea(hs)) = Len(p) + Len(b)
      /\ Len(p) \in Nat /\ Len(a) \in Nat /\ Len(b) \in Nat
  BY <1>5, <1>6, ConcatLength
<1>8. Len(DataArea(hs)) + Len(a) = Len(DataArea(gs)) + Len(b)
  <2> DEFINE x == Len(p)
             y == Len(a)
             z == Len(b)
  <2>1. x \in Nat /\ y \in Nat /\ z \in Nat
    BY <1>7
  <2> HIDE DEF x, y, z
  <2>2. (x + z) + y = (x + y) + z
    BY <2>1
  <2> QED BY <1>7, <2>2 DEF x, y, z
<1> QED BY <1>8 DEF a, b

\* A block notes what finish writes of it: which of its segments are special, and
\* the bytes up to there, without the end of the last segment.
Measured(blk) ==
    /\ blk.special = SpecialSegments(Len(blk.segs))
    /\ blk.segs = <<>> => blk.bytes = Btl
    /\ blk.segs # <<>> => blk.bytes + Ril = Btl + Len(DataArea(Images(blk)))

LEMMA ItemBytesAre ==
    ASSUME NEW e \in Written
    PROVE  ItemBytes(e) \in Nat /\ Ril + Len(ItemOf(e)) = ItemBytes(e)
<1> DEFINE n == ValueBytes[e.value]
<1>1. Len(ItemOf(e)) = 8 + n /\ n \in Nat
  BY ItemOfIs DEF ItemLength
<1>2. ItemBytes(e) = Ril + 4 + 4 + n /\ Ril = 4
  BY DEF ItemBytes, Ril
<1> HIDE DEF n
<1> QED BY <1>1, <1>2

LEMMA SegmentLength ==
    ASSUME NEW seg \in Segment
    PROVE  /\ Len(SegmentBytes(Image(seg))) = HeadBytes(seg.key) + Len(ItemArea(Image(seg))) + Ril
           /\ HeadBytes(seg.key) \in Nat /\ Len(ItemArea(Image(seg))) \in Nat
<1> DEFINE g == Image(seg)
           k == seg.key
           a == Len(ItemArea(g))
           n == KeyBytes[k]
<1>1. IsImage(g) /\ g.prefix = UserKey(k)
  BY ImageIs
<1> HIDE DEF g
<1>2. k \in Key
  BY DEF Segment
<1>3. Len(SegmentBytes(g)) = 2 + Len(g.prefix) + a + Ril /\ a \in Nat
  BY <1>1, SegmentBytesAre
<1>4. Len(g.prefix) = 2 + n /\ n \in Nat
  BY <1>1, <1>2, UserKeyIs
<1>5. HeadBytes(k) = 2 + 2 + n /\ Ril = 4
  BY DEF HeadBytes, Ril
<1> HIDE DEF a, n
<1>6. Len(SegmentBytes(g)) = HeadBytes(k) + a + Ril /\ HeadBytes(k) \in Nat
  BY <1>3, <1>4, <1>5
<1> QED BY <1>3, <1>6 DEF g, a

\* An item more in a segment is ItemBytes more in the file.
LEMMA SegmentGrows ==
    ASSUME NEW seg \in Segment, NEW more \in Segment, NEW e \in Written,
           more.key = seg.key, more.items = Append(seg.items, e)
    PROVE  Len(SegmentBytes(Image(more))) = Len(SegmentBytes(Image(seg))) + ItemBytes(e)
<1> DEFINE g == Image(seg)
           h == Image(more)
           m == Len(seg.items)
           k == m + 1
           a == Len(ItemArea(g))
           b == Len(ItemArea(h))
<1>1. seg.items \in Seq(Written) /\ m \in Nat /\ k \in 1 .. k /\ k \in Nat
  BY DEF Segment
<1>2. /\ Len(more.items) = k /\ more.items[k] = e
      /\ \A j \in 1 .. m : more.items[j] = seg.items[j]
  BY <1>1, Appended
<1>3. /\ IsImage(g) /\ Len(g.items) = m
      /\ \A j \in 1 .. m : g.items[j] = ItemOf(seg.items[j])
  BY ImageIs
<1>4. /\ IsImage(h) /\ Len(h.items) = k
      /\ \A j \in 1 .. k : h.items[j] = ItemOf(more.items[j])
  BY <1>2, ImageIs
<1>5. /\ Len(SegmentBytes(g)) = HeadBytes(seg.key) + a + Ril
      /\ Len(SegmentBytes(h)) = HeadBytes(seg.key) + b + Ril
      /\ HeadBytes(seg.key) \in Nat /\ a \in Nat /\ b \in Nat
  BY SegmentLength
<1>0. ItemBytes(e) \in Nat /\ Ril + Len(ItemOf(e)) = ItemBytes(e) /\ Ril = 4
  BY ItemBytesAre DEF Ril
<1> HIDE DEF g, h
<1>6. \A j \in 1 .. m : h.items[j] = g.items[j]
  <2>1. \A j \in 1 .. m : j \in 1 .. k
    BY <1>1
  <2> HIDE DEF m, k
  <2> QED BY <1>2, <1>3, <1>4, <2>1
<1>7. h.items[k] = ItemOf(e)
  <2> HIDE DEF m, k
  <2> QED BY <1>1, <1>2, <1>4
<1>8. b = a + Ril + Len(h.items[m + 1])
  <2>1. /\ IsImage(g) /\ IsImage(h) /\ m \in Nat /\ Len(g.items) = m /\ Len(h.items) = m + 1
        /\ \A j \in 1 .. m : h.items[j] = g.items[j]
    BY <1>1, <1>3, <1>4, <1>6
  <2> HIDE DEF m
  <2> QED BY <2>1, ItemAreaMore
<1>9. b = a + ItemBytes(e)
  <2> DEFINE l == Len(ItemOf(e))
             w == ItemBytes(e)
  <2>1. b = a + Ril + l /\ Ril + l = w /\ a \in Nat /\ w \in Nat /\ Ril = 4
    BY <1>0, <1>5, <1>7, <1>8
  <2>2. l \in Nat
    BY ItemOfIs
  <2> HIDE DEF l, w, a, b
  <2>3. b = a + w
    BY <2>1, <2>2
  <2> QED BY <2>3 DEF w
<1> DEFINE x == HeadBytes(seg.key)
           w == ItemBytes(e)
<1>10. /\ Len(SegmentBytes(g)) = x + a + Ril /\ Len(SegmentBytes(h)) = x + b + Ril
       /\ b = a + w /\ x \in Nat /\ a \in Nat /\ w \in Nat /\ Ril = 4
  BY <1>0, <1>5, <1>9
<1> HIDE DEF x, a, b, w
<1>11. Len(SegmentBytes(h)) = Len(SegmentBytes(g)) + w
  BY <1>10
<1> QED BY <1>11 DEF w, g, h

\* A segment of one item.
LEMMA SegmentBegins ==
    ASSUME NEW seg \in Segment, NEW e \in Written, seg.items = <<e>>
    PROVE  Len(SegmentBytes(Image(seg))) = HeadBytes(seg.key) + ItemBytes(e) + Ril
<1> DEFINE g == Image(seg)
<1>1. Len(seg.items) = 1 /\ seg.items[1] = e /\ 1 \in 1 .. 1
  OBVIOUS
<1>2. IsImage(g) /\ Len(g.items) = 1 /\ g.items[1] = ItemOf(e)
  <2>1. IsImage(g) /\ Len(g.items) = 1 /\ \A j \in 1 .. 1 : g.items[j] = ItemOf(seg.items[j])
    BY <1>1, ImageIs
  <2> QED BY <1>1, <2>1
<1>3. Len(SegmentBytes(g)) = HeadBytes(seg.key) + Len(ItemArea(g)) + Ril
  BY SegmentLength
<1> HIDE DEF g
<1>4. Len(ItemArea(g)) = ItemBytes(e)
  BY <1>2, ItemAreaOne, ItemBytesAre
<1> QED BY <1>3, <1>4 DEF g

\* The entry goes to the last segment.
LEMMA MeasuredInSegment ==
    ASSUME NEW blk \in Block, Measured(blk), NEW e \in Written, Continues(blk, e),
           AddToBlock(blk, e) \in Block
    PROVE  Measured(AddToBlock(blk, e))
<1> DEFINE S == blk.segs
           n == Len(S)
           old == S[n]
           more == [old EXCEPT !.items = Append(old.items, e)]
           S2 == [S EXCEPT ![n] = more]
           new == AddToBlock(blk, e)
           gs == Images(blk)
           hs == Images(new)
<1>1. S \in Seq(Segment) /\ S # <<>> /\ n \in Nat \ {0} /\ n \in 1 .. n
  <2>1. S \in Seq(Segment) /\ S # <<>>
    BY DEF Block, Continues
  <2>2. n \in Nat /\ n # 0
    BY <2>1, EmptySeq, LenProperties
  <2> HIDE DEF n
  <2> QED BY <2>1, <2>2
<1>2. old \in Segment /\ old.items \in Seq(Written)
  <2>1. old \in Segment
    BY <1>1, ElementOfSeq
  <2> QED BY <2>1 DEF Segment
<1>3. Append(old.items, e) \in Seq(Written)
  BY <1>2, Appended
<1>4. more \in Segment /\ more.key = old.key /\ more.items = Append(old.items, e)
  BY <1>2, <1>3 DEF Segment
<1>5. /\ S2 \in Seq(Segment) /\ DOMAIN S2 = 1 .. n /\ S2[n] = more
      /\ \A i \in 1 .. n : i # n => S2[i] = S[i]
  BY <1>1, <1>4, ExceptSeq
<1>6. new.segs = S2 /\ new.special = blk.special /\ new.bytes = blk.bytes + ItemBytes(e)
  <2>1. new = [blk EXCEPT !.segs = S2, !.bytes = @ + ItemBytes(e)]
    BY <1>4 DEF AddToBlock
  <2> QED BY <2>1 DEF Block
<1>7. new \in Block
  OBVIOUS
<1>8. AreImages(gs) /\ Len(gs) = n /\ \A i \in 1 .. n : gs[i] = Image(S[i])
  BY ImagesAre
<1> HIDE DEF new, S2, more, old
<1>9. Len(S2) = n
  BY <1>1, <1>5, LenProperties
<1>10. AreImages(hs) /\ Len(hs) = n /\ \A i \in 1 .. n : hs[i] = Image(S2[i])
  BY <1>6, <1>7, <1>9, ImagesAre
<1> HIDE DEF gs, hs
<1>11. \A i \in 1 .. n - 1 : hs[i] = gs[i]
  <2>1. \A i \in 1 .. n - 1 : i \in 1 .. n /\ i # n
    BY <1>1
  <2> HIDE DEF n, S
  <2> QED BY <1>5, <1>8, <1>10, <2>1
<1>12. gs[n] = Image(old) /\ hs[n] = Image(more)
  <2> HIDE DEF n, S
  <2> QED BY <1>1, <1>5, <1>8, <1>10 DEF old
<1> DEFINE a == Len(SegmentBytes(Image(old)))
           b == Len(SegmentBytes(Image(more)))
           w == ItemBytes(e)
           p == Len(DataArea(gs))
           q == Len(DataArea(hs))
<1>13. q + a = p + b
  <2>1. Len(DataArea(hs)) + Len(SegmentBytes(gs[n])) = Len(DataArea(gs)) + Len(SegmentBytes(hs[n]))
    <3> HIDE DEF n
    <3> QED BY <1>1, <1>8, <1>10, <1>11, DataAreaOther
  <2> QED BY <1>12, <2>1
<1>14. b = a + w /\ w \in Nat
  BY <1>2, <1>4, SegmentGrows, ItemBytesAre
<1>15. p \in Nat /\ q \in Nat /\ a \in Nat
  <2>1. p \in Nat /\ q \in Nat
    BY <1>8, <1>10, SegmentPartsAre
  <2>2. IsImage(Image(old))
    BY <1>2, ImageIs
  <2>3. SegmentBytes(Image(old)) \in Seq(Cell)
    BY <2>2, SegmentBytesAre
  <2> QED BY <2>1, <2>3
<1>16. blk.bytes + Ril = Btl + p /\ blk.bytes \in Nat
  BY <1>1 DEF Measured, Block, gs
<1>17. new.bytes = blk.bytes + w
  BY <1>6
<1>18. Ril = 4 /\ Btl = 4
  BY DEF Ril, Btl
<1> HIDE DEF a, b, w, p, q
<1>19. new.bytes + Ril = Btl + q
  BY <1>13, <1>14, <1>15, <1>16, <1>17, <1>18
<1>20. new.segs # <<>>
  <2>1. n \in DOMAIN S2
    BY <1>1, <1>5
  <2> QED BY <1>6, <2>1
<1>21. new.special = SpecialSegments(Len(new.segs))
  BY <1>6, <1>9 DEF Measured
<1> QED BY <1>19, <1>20, <1>21 DEF Measured, new, hs, q

\* The entry begins a segment.
LEMMA MeasuredSegment ==
    ASSUME NEW blk \in Block, Measured(blk), NEW e \in Written, ~Continues(blk, e),
           AddToBlock(blk, e) \in Block
    PROVE  Measured(AddToBlock(blk, e))
<1> DEFINE S == blk.segs
           n == Len(S)
           k == n + 1
           seg == [key |-> e.key, items |-> <<e>>]
           S2 == Append(S, seg)
           new == AddToBlock(blk, e)
           gs == Images(blk)
           hs == Images(new)
<1>1. S \in Seq(Segment) /\ n \in Nat /\ k \in 1 .. k /\ k \in Nat
  BY DEF Block
<1>2. seg \in Segment /\ seg.items = <<e>> /\ seg.key = e.key
  <2>1. <<e>> \in Seq(Written) /\ e.key \in Key
    BY DEF Written
  <2> QED BY <2>1 DEF Segment
<1> HIDE DEF seg
<1>3. /\ S2 \in Seq(Segment) /\ S2 # <<>> /\ Len(S2) = k
      /\ S2[k] = seg /\ \A i \in 1 .. n : S2[i] = S[i]
  BY <1>1, <1>2, Appended
<1>4. /\ new.segs = S2
      /\ new.special = IF StartsInterval(k) THEN Append(blk.special, k) ELSE blk.special
      /\ new.bytes = blk.bytes + (IF n = 0 THEN 0 ELSE Ril) + HeadBytes(e.key) + ItemBytes(e)
  BY DEF AddToBlock, seg
<1>5. new \in Block
  OBVIOUS
<1>6. AreImages(gs) /\ Len(gs) = n /\ \A i \in 1 .. n : gs[i] = Image(S[i])
  BY ImagesAre
<1> HIDE DEF new, S2
<1>7. AreImages(hs) /\ Len(hs) = k /\ \A i \in 1 .. k : hs[i] = Image(S2[i])
  <2> HIDE DEF k
  <2> QED BY <1>3, <1>4, <1>5, ImagesAre
<1> HIDE DEF gs, hs
<1>8. \A i \in 1 .. n : hs[i] = gs[i]
  <2>1. \A i \in 1 .. n : i \in 1 .. k
    BY <1>1
  <2> HIDE DEF n, S, k
  <2> QED BY <1>3, <1>6, <1>7, <2>1
<1>9. hs[k] = Image(seg)
  <2> HIDE DEF k
  <2> QED BY <1>1, <1>3, <1>7
<1> DEFINE x == HeadBytes(e.key)
           w == ItemBytes(e)
           p == Len(DataArea(gs))
           q == Len(DataArea(hs))
<1>10. q = p + (x + w + Ril)
  <2>1. Len(DataArea(hs)) = Len(DataArea(gs)) + Len(SegmentBytes(hs[n + 1]))
    <3> HIDE DEF n
    <3> QED BY <1>1, <1>6, <1>7, <1>8, DataAreaMore
  <2>2. Len(SegmentBytes(Image(seg))) = x + w + Ril
    BY <1>2, SegmentBegins
  <2> QED BY <1>9, <2>1, <2>2
<1>11. p \in Nat /\ q \in Nat /\ x \in Nat /\ w \in Nat /\ Ril = 4 /\ Btl = 4
  BY <1>2, <1>6, <1>7, SegmentPartsAre, SegmentLength, ItemBytesAre DEF Ril, Btl
<1>12. IF n = 0 THEN blk.bytes = Btl /\ p = 0 ELSE blk.bytes + Ril = Btl + p
  <2>1. CASE n = 0
    <3>1. S = <<>>
      BY <1>1, <2>1, EmptySeq
    <3>2. SegmentParts(gs) = <<>>
      <4>1. SegmentParts(gs) \in Seq(Seq(Cell)) /\ Len(SegmentParts(gs)) = 0
        BY <1>6, <2>1, SegmentPartsAre
      <4> QED BY <4>1, EmptySeq
    <3>3. p = 0
      <4>1. DataArea(gs) = <<>>
        BY <1>6, <3>2, SegmentPartsAre, FlattenNone
      <4> QED BY <4>1
    <3> QED BY <2>1, <3>1, <3>3 DEF Measured
  <2>2. CASE n # 0
    <3>1. S # <<>>
      BY <2>2
    <3> QED BY <2>2, <3>1 DEF Measured, gs
  <2> QED BY <2>1, <2>2
<1>13. blk.bytes \in Nat
  BY DEF Block
<1> HIDE DEF x, w, p, q
<1>14. new.bytes + Ril = Btl + q
  <2>1. new.bytes = blk.bytes + (IF n = 0 THEN 0 ELSE Ril) + x + w
    BY <1>4 DEF x, w
  <2> HIDE DEF n
  <2> QED BY <1>10, <1>11, <1>12, <1>13, <2>1
<1>15. new.special = SpecialSegments(Len(new.segs))
  <2>1. SpecialSegments(k) = IF StartsInterval(k) THEN Append(SpecialSegments(n), k) ELSE SpecialSegments(n)
    <3> HIDE DEF n
    <3> QED BY <1>1, SpecialSegmentsAre
  <2>2. blk.special = SpecialSegments(n)
    BY DEF Measured
  <2> HIDE DEF n, k
  <2> QED BY <1>3, <1>4, <2>1, <2>2
<1> QED BY <1>3, <1>4, <1>14, <1>15 DEF Measured, new, hs, q

LEMMA AddedIsMeasured ==
    ASSUME NEW blk \in Block, Measured(blk), NEW e \in Written, AddToBlock(blk, e) \in Block
    PROVE  Measured(AddToBlock(blk, e))
<1>1. CASE Continues(blk, e)
  BY <1>1, MeasuredInSegment
<1>2. CASE ~Continues(blk, e)
  BY <1>2, MeasuredSegment
<1> QED BY <1>1, <1>2

LEMMA EmptyBlockIsMeasured == Measured(EmptyBlock)
<1>1. EmptyBlock.segs = <<>> /\ EmptyBlock.special = <<>> /\ EmptyBlock.bytes = Btl
  BY DEF EmptyBlock
<1>2. Len(EmptyBlock.segs) = 0
  BY <1>1
<1> QED BY <1>1, <1>2, SpecialSegmentsAre DEF Measured

\* What is parsed of a measured block is the block.
LEMMA BlockIsParsed ==
    ASSUME NEW blk \in Block, SortedBlock(blk), Measured(blk), blk.segs # <<>>
    PROVE  ParsedAsBuilt(blk)
<1> DEFINE gs == Images(blk)
           S == blk.segs
           n == Len(S)
           special == blk.special
           m == Len(special)
<1>1. AreImages(gs) /\ Len(gs) = n /\ DOMAIN gs = 1 .. n /\ \A i \in 1 .. n : gs[i] = Image(S[i])
  BY ImagesAre
<1>2. n \in Nat /\ n # 0 /\ DOMAIN S = 1 .. n /\ \A i \in 1 .. n : S[i] \in Segment
  <2>1. S \in Seq(Segment) /\ S # <<>>
    BY DEF Block
  <2> HIDE DEF S
  <2> QED BY <2>1, EmptySeq
<1>3. special = SpecialSegments(n) /\ special \in Seq(Nat) /\ \A i \in 1 .. m : special[i] \in 1 .. n
  <2>1. special = SpecialSegments(n)
    BY DEF Measured
  <2> HIDE DEF special, n
  <2> QED BY <1>2, <2>1, SpecialAre
<1>4. \A i \in 1 .. n : EntriesOf(gs[i]) = SegmentEntries(S[i]) /\ gs[i].prefix = UserKey(S[i].key)
  <2>1. \A i \in 1 .. n : SortedItems(S[i])
    BY <1>2 DEF SortedBlock
  <2> HIDE DEF gs, S, n
  <2> QED BY <1>1, <1>2, <2>1, ImageIs
<1>5. blk.bytes + Ril = Btl + Len(DataArea(gs)) /\ blk.bytes \in Nat
  BY DEF Measured, Block
<1>6. FlattenSeq([i \in 1 .. n |-> EntriesOf(gs[i])]) = BlockEntries(blk)
  <2>1. [i \in 1 .. n |-> EntriesOf(gs[i])] = [i \in 1 .. n |-> SegmentEntries(S[i])]
    <3> HIDE DEF gs, S, n
    <3> QED BY <1>4
  <2>2. BlockEntries(blk) = FlattenSeq([i \in 1 .. n |-> SegmentEntries(S[i])])
    BY <1>2, Zenon DEF BlockEntries
  <2> QED BY <2>1, <2>2
<1>0. gs = Images(blk) /\ S = blk.segs /\ special = blk.special /\ DOMAIN special = 1 .. m
  BY <1>3
<1> HIDE DEF gs, S, n, special, m
<1> SUFFICES ASSUME NEW compress \in BOOLEAN, NEW b \in FinishedBlocks(Content(gs), compress)
             PROVE  LET s == Decompressed(b)
                        segs == AllSegments(s)
                        at == SpecialOffsets(s)
                    IN  /\ Intact(b) \/ Btl + Len(Content(gs)) \in FullAt
                        /\ FlattenSeq([i \in DOMAIN segs |-> EntriesOf(segs[i])]) = BlockEntries(blk)
                        /\ [i \in DOMAIN at |-> SegmentAt(s, at[i], MetaDataBeg(s)).prefix]
                              = [i \in DOMAIN special |-> UserKey(S[special[i]].key)]
                        /\ MetaDataBeg(s) - Ril = blk.bytes
  BY <1>0 DEF ParsedAsBuilt
<1> DEFINE s == Decompressed(b)
           at == SpecialOffsets(s)
           N == MetaDataBeg(s)
<1>7. Framed(s, Content(gs)) /\ (Intact(b) \/ Btl + Len(Content(gs)) \in FullAt)
  <2>1. Content(gs) \in Seq(Cell)
    BY <1>1, ContentIs
  <2> QED BY <2>1, FinishedIsFramed
<1> HIDE DEF s
<1>8. /\ N = Btl + Len(DataArea(gs))
      /\ at = [i \in 1 .. m |-> SegmentOffset(gs, special[i])]
      /\ AllSegments(s) = gs
      /\ \A i \in 1 .. n : SegmentAt(s, SegmentOffset(gs, i), N).prefix = gs[i].prefix
  <2> DEFINE c == SpecialSegments(Len(gs))
  <2>1. AreImages(gs) /\ Len(gs) # 0 /\ Framed(s, Content(gs))
    BY <1>1, <1>2, <1>7
  <2>2. /\ MetaDataBeg(s) = Btl + Len(DataArea(gs))
        /\ SpecialOffsets(s) = [i \in 1 .. Len(c) |-> SegmentOffset(gs, c[i])]
        /\ AllSegments(s) = gs
        /\ \A i \in 1 .. Len(gs) :
              SegmentAt(s, SegmentOffset(gs, i), MetaDataBeg(s)).prefix = gs[i].prefix
    BY <2>1, FramedParses
  <2>3. c = special
    BY <1>1, <1>3
  <2> HIDE DEF c
  <2> QED BY <1>1, <2>2, <2>3 DEF m
<1> HIDE DEF at, N
<1>9. [i \in DOMAIN at |-> SegmentAt(s, at[i], N).prefix]
        = [i \in DOMAIN special |-> UserKey(S[special[i]].key)]
  <2>1. DOMAIN at = 1 .. m /\ \A i \in 1 .. m : at[i] = SegmentOffset(gs, special[i])
    BY <1>8
  <2>2. \A i \in 1 .. m : SegmentAt(s, at[i], N).prefix = UserKey(S[special[i]].key)
    <3>1. \A i \in 1 .. m : special[i] \in 1 .. n
      BY <1>3 DEF m
    <3> QED BY <1>4, <1>8, <2>1, <3>1
  <2> QED BY <1>0, <2>1, <2>2
<1>10. N - Ril = blk.bytes
  <2> DEFINE a == Len(DataArea(gs))
  <2>1. a \in Nat /\ Ril = 4 /\ Btl = 4 /\ N = Btl + a /\ blk.bytes + Ril = Btl + a
    BY <1>1, <1>5, <1>8, SegmentPartsAre DEF Ril, Btl
  <2> HIDE DEF a
  <2> QED BY <1>5, <2>1
<1>11. FlattenSeq([i \in DOMAIN AllSegments(s) |-> EntriesOf(AllSegments(s)[i])]) = BlockEntries(blk)
  <2>1. DOMAIN AllSegments(s) = 1 .. n /\ AllSegments(s) = gs
    BY <1>1, <1>8
  <2> QED BY <1>6, <2>1
<1> QED BY <1>7, <1>9, <1>10, <1>11 DEF s, at, N

(***************************************************************************)
(* Meta blocks                                                             *)
(***************************************************************************)
LEMMA MetaImageIs ==
    ASSUME NEW name \in Seq(Cell), Len(name) \in 1 .. PrefixLimit - 1, NEW rep \in Seq(Cell)
    PROVE  LET g == MetaImage(name, rep)
           IN  /\ IsImage(g) /\ g \in Imaged /\ g.prefix = name
               /\ From(g.items[1], 8, ValueAt(g.items[1], 4)) = rep
<1> DEFINE n == Len(rep)
           a == Bytes("seq", 0, 4)
           b == Bytes("len", n, 4)
           u == a \o b
           t == u \o rep
           g == MetaImage(name, rep)
<1>1. n \in Nat /\ 4 \in Nat /\ 0 \in Nat
  OBVIOUS
<1> HIDE DEF n
<1>2. a \in Seq(Cell) /\ Len(a) = 4 /\ b \in Seq(Cell) /\ Len(b) = 4
  <2>1. 0 \in Datum /\ n \in Datum /\ "seq" \in Field /\ "len" \in Field
    BY <1>1, DataAre, FieldsAre, Zenon
  <2>2. a \in Seq(Cell) /\ Len(a) = 4
    BY <1>1, <2>1, BytesAre
  <2>3. b \in Seq(Cell) /\ Len(b) = 4
    BY <1>1, <2>1, BytesAre
  <2> QED BY <2>2, <2>3
<1>0. g = [prefix |-> name, items |-> <<t>>]
  BY Zenon DEF MetaImage, n
<1> HIDE DEF g, a, b
<1>3. u \in Seq(Cell) /\ Len(u) = 8
  <2>1. u \in Seq(Cell) /\ Len(u) = Len(a) + Len(b)
    BY <1>2, ConcatLength
  <2> HIDE DEF u
  <2> QED BY <1>2, <2>1
<1>4. LiesAt(t, 0, u) /\ LiesAt(t, 8, rep) /\ t \in Seq(Cell) /\ Len(t) # 0
  <2>1. LiesAt(t, 0, u \o rep)
    BY DEF LiesAt
  <2>2. t \in Seq(Cell) /\ Len(t) = Len(u) + Len(rep)
    <3> HIDE DEF u
    <3> QED BY <1>3, ConcatLength
  <2> HIDE DEF t, u
  <2>3. LiesAt(t, 0, u) /\ LiesAt(t, 0 + Len(u), rep)
    BY <1>1, <1>3, <2>1, LiesParts
  <2> QED BY <1>1, <1>3, <2>2, <2>3 DEF n
<1>5. LiesAt(t, 4, b)
  <2>1. LiesAt(t, 0, a \o b)
    BY <1>4
  <2> HIDE DEF t
  <2>2. LiesAt(t, 0, a) /\ LiesAt(t, 0 + Len(a), b)
    BY <1>1, <1>2, <2>1, LiesParts
  <2> QED BY <1>2, <2>2
<1> HIDE DEF t, u
<1>6. ValueAt(t, 4) = n
  <2>1. LiesAt(t, 4, Bytes("len", n, 4)) /\ 4 \in Nat \ {0}
    BY <1>5 DEF b
  <2> QED BY <1>1, <2>1, BytesSay
<1>7. From(t, 8, n) = rep
  <2>1. 8 \in Nat
    OBVIOUS
  <2> QED BY <1>4, <2>1, LiesFrom DEF n
<1>8. g.items[1] = t /\ g.prefix = name /\ Len(g.items) = 1
  BY <1>0
<1>9. g \in Imaged
  <2>1. <<t>> \in Seq(Seq(Cell))
    BY <1>4
  <2> QED BY <1>0, <2>1 DEF Imaged
<1>10. IsImage(g)
  <2>1. \A j \in 1 .. Len(g.items) : Len(g.items[j]) # 0
    <3>1. \A j \in 1 .. 1 : j = 1
      OBVIOUS
    <3> QED BY <1>4, <1>8, <3>1
  <2>2. g = [prefix |-> g.prefix, items |-> g.items]
    BY <1>0
  <2>3. g.items \in Seq(Seq(Cell))
    BY <1>9 DEF Imaged
  <2> QED BY <1>8, <2>1, <2>2, <2>3 DEF IsImage
<1> QED BY <1>6, <1>7, <1>8, <1>9, <1>10 DEF g

LEMMA NamesAre ==
    /\ \A name \in {LastUk, FirstUk, Filter} :
          name \in Seq(Cell) /\ Len(name) \in 1 .. PrefixLimit - 1
    /\ LastUk # FirstUk /\ LastUk # Filter /\ FirstUk # Filter
<1>1. ASSUME NEW x \in MetaName, NEW n \in Nat
      PROVE  Name(x, n) \in Seq(Cell) /\ Len(Name(x, n)) = 2 + n
  <2> DEFINE m == 2 + n
  <2>1. x \in Datum /\ "name" \in Field /\ m \in Nat
    BY DataAre, FieldsAre
  <2> HIDE DEF m
  <2>2. Bytes("name", x, m) \in Seq(Cell) /\ Len(Bytes("name", x, m)) = m
    BY <2>1, BytesAre
  <2> QED BY <2>2 DEF Name, m
<1>2. LastUk \in Seq(Cell) /\ Len(LastUk) = 9
  <2> DEFINE x == "last_uk"
             n == 7
  <2>1. x \in MetaName /\ n \in Nat
    BY DEF MetaName
  <2>2. LastUk = Name(x, n) /\ 2 + n = 9
    BY DEF LastUk
  <2> HIDE DEF x, n
  <2> QED BY <1>1, <2>1, <2>2
<1>3. FirstUk \in Seq(Cell) /\ Len(FirstUk) = 10
  <2> DEFINE x == "first_uk"
             n == 8
  <2>1. x \in MetaName /\ n \in Nat
    BY DEF MetaName
  <2>2. FirstUk = Name(x, n) /\ 2 + n = 10
    BY DEF FirstUk
  <2> HIDE DEF x, n
  <2> QED BY <1>1, <2>1, <2>2
<1>4. Filter \in Seq(Cell) /\ Len(Filter) = 14
  <2> DEFINE x == "bloom_filter"
             n == 12
  <2>1. x \in MetaName /\ n \in Nat
    BY DEF MetaName
  <2>2. Filter = Name(x, n) /\ 2 + n = 14
    BY DEF Filter
  <2> HIDE DEF x, n
  <2> QED BY <1>1, <2>1, <2>2
<1>5. 9 \in 1 .. PrefixLimit - 1 /\ 10 \in 1 .. PrefixLimit - 1 /\ 14 \in 1 .. PrefixLimit - 1
  BY BytesAssumption
<1>6. LastUk # FirstUk /\ LastUk # Filter /\ FirstUk # Filter
  <2>1. 9 # 10 /\ 9 # 14 /\ 10 # 14
    OBVIOUS
  <2> QED BY <1>2, <1>3, <1>4, <2>1, Zenon
<1> QED BY <1>2, <1>3, <1>4, <1>5, <1>6

\* With five segments an interval or more, three are one interval.
LEMMA OneInterval == SpecialSegments(3) = <<1>>
<1>1. StartsInterval(0 + 1) /\ ~StartsInterval(1 + 1) /\ ~StartsInterval(2 + 1)
  <2>1. 3 % Interval = 3 /\ 4 % Interval = 4
    BY TableAssumption
  <2> QED BY <2>1 DEF StartsInterval
<1>2. SpecialSegments(0 + 1) = Append(SpecialSegments(0), 0 + 1)
  BY <1>1, SpecialSegmentsAre
<1>3. SpecialSegments(1 + 1) = SpecialSegments(1)
  BY <1>1, SpecialSegmentsAre
<1>4. SpecialSegments(2 + 1) = SpecialSegments(2)
  BY <1>1, SpecialSegmentsAre
<1>5. Append(<<>>, 1) = <<1>>
  OBVIOUS
<1>6. 0 + 1 = 1 /\ 1 + 1 = 2 /\ 2 + 1 = 3
  OBVIOUS
<1>7. SpecialSegments(3) = SpecialSegments(1)
  BY <1>3, <1>4, <1>6
<1> QED BY <1>2, <1>5, <1>6, <1>7, SpecialSegmentsAre

LEMMA TableOpens ==
    ASSUME NEW t, GoodTable(t), t.filter = KeysOf(t)
    PROVE  Opens(t)
<1> DEFINE K == KeysOf(t)
           r1 == UserKey(t.last)
           r2 == UserKey(t.first)
           r3 == FilterRep(t)
           g1 == MetaImage(LastUk, r1)
           g2 == MetaImage(FirstUk, r2)
           g3 == MetaImage(Filter, r3)
           gs == MetaImages(t)
<1>1. /\ K \subseteq Key /\ K \subseteq Nat /\ t.first \in K /\ t.last \in K
      /\ \A k \in K : t.first <= k /\ k <= t.last
  <2>1. Within(t.first, t.last, Holds(t.blocks)) /\ K = {e.key : e \in Holds(t.blocks)}
    BY DEF GoodTable, KeysOf
  <2>2. K \subseteq Key
    BY DEF GoodTable, Table
  <2> HIDE DEF K
  <2> QED BY <2>1, <2>2, KeyAssumption DEF Within
<1> HIDE DEF K
<1>2. t.first = Min(K) /\ t.last = Max(K)
  <2> DEFINE a == t.first
             b == t.last
  <2>1. K \subseteq Nat /\ a \in K /\ b \in K /\ \A k \in K : a <= k /\ k <= b
    BY <1>1
  <2> HIDE DEF a, b
  <2>2. ASSUME NEW x \in K, \A y \in K : x <= y PROVE x = a
    <3>1. x \in Nat /\ a \in Nat /\ x <= a /\ a <= x
      BY <2>1, <2>2
    <3> QED BY <3>1
  <2>3. ASSUME NEW x \in K, \A y \in K : x >= y PROVE x = b
    <3>1. x \in Nat /\ b \in Nat /\ x >= b /\ x <= b
      BY <2>1, <2>3
    <3> QED BY <3>1
  <2>4. \A y \in K : b >= y
    BY <2>1
  <2>5. Min(K) = a
    BY <2>1, <2>2 DEF Min
  <2>6. Max(K) = b
    BY <2>1, <2>3, <2>4 DEF Max
  <2> QED BY <2>5, <2>6 DEF a, b
<1>3. r1 \in Seq(Cell) /\ r2 \in Seq(Cell)
  BY <1>1, UserKeyIs
<1>4. r3 \in Seq(Cell) /\ r3 = Bytes("filter", K, FilterBytes * Cardinality(K))
  <2> DEFINE n == FilterBytes * Cardinality(K)
  <2>1. IsFiniteSet(K)
    <3>1. K \in SUBSET Nat /\ t.last \in Nat /\ \A k \in K : k <= t.last
      BY <1>1
    <3> QED BY <3>1, FS_BoundedSetOfNaturals
  <2>2. Cardinality(K) \in Nat /\ FilterBytes \in Nat
    BY <2>1, FS_CardinalityType, BytesAssumption
  <2>3. n \in Nat
    BY <2>2
  <2>4. K \in Datum /\ "filter" \in Field
    BY <1>1, DataAre, FieldsAre
  <2>5. r3 = Bytes("filter", K, n)
    BY Zenon DEF FilterRep, K
  <2> HIDE DEF n
  <2>6. Bytes("filter", K, n) \in Seq(Cell)
    BY <2>3, <2>4, BytesAre
  <2> QED BY <2>5, <2>6 DEF n
<1>0. gs = <<g1, g2, g3>>
  BY Zenon DEF MetaImages
<1> HIDE DEF r1, r2, r3
<1>5. /\ IsImage(g1) /\ g1 \in Imaged /\ g1.prefix = LastUk
      /\ From(g1.items[1], 8, ValueAt(g1.items[1], 4)) = r1
  BY <1>3, NamesAre, MetaImageIs
<1>6. /\ IsImage(g2) /\ g2 \in Imaged /\ g2.prefix = FirstUk
      /\ From(g2.items[1], 8, ValueAt(g2.items[1], 4)) = r2
  BY <1>3, NamesAre, MetaImageIs
<1>7. /\ IsImage(g3) /\ g3 \in Imaged /\ g3.prefix = Filter
      /\ From(g3.items[1], 8, ValueAt(g3.items[1], 4)) = r3
  BY <1>4, NamesAre, MetaImageIs
<1> HIDE DEF g1, g2, g3
<1>8. /\ gs \in Seq(Imaged) /\ Len(gs) = 3 /\ gs[1] = g1 /\ gs[2] = g2 /\ gs[3] = g3
      /\ Range(gs) = {g1, g2, g3}
  <2>1. gs \in Seq(Imaged) /\ Len(gs) = 3 /\ gs[1] = g1 /\ gs[2] = g2 /\ gs[3] = g3
    BY <1>0, <1>5, <1>6, <1>7
  <2>2. DOMAIN gs = {1, 2, 3}
    BY <1>0
  <2> HIDE DEF gs
  <2> QED BY <2>1, <2>2 DEF Range
<1>9. AreImages(gs)
  <2>1. \A i \in 1 .. 3 : i = 1 \/ i = 2 \/ i = 3
    OBVIOUS
  <2> HIDE DEF gs
  <2> QED BY <1>5, <1>6, <1>7, <1>8, <2>1 DEF AreImages
<1>10. gs = MetaImages(t)
  OBVIOUS
<1> HIDE DEF gs
<1> SUFFICES ASSUME NEW s \in MetaBlocks(t)
             PROVE  /\ Intact(s) \/ Btl + Len(MetaContent(gs)) \in FullAt
                    /\ Len(SpecialOffsets(s)) = 1
                    /\ MetaValue(s, FirstUk) = UserKey(Min(K))
                    /\ MetaValue(s, LastUk) = UserKey(Max(K))
                    /\ MetaValue(s, Filter) = Bytes("filter", K, FilterBytes * Cardinality(K))
  BY <1>10, Zenon DEF Opens, K
<1>11. Framed(s, MetaContent(gs)) /\ (Intact(s) \/ Btl + Len(MetaContent(gs)) \in FullAt)
  <2> DEFINE compress == FALSE
             content == MetaContent(gs)
  <2>1. s \in FinishedBlocks(content, compress) /\ compress \in BOOLEAN /\ ~compress
    BY <1>10 DEF MetaBlocks
  <2>2. content \in Seq(Cell)
    <3>0. AreImages(gs) /\ Len(gs) # 0
      BY <1>8, <1>9
    <3>1. OpenArea(gs) \in Seq(Cell) /\ SpecialBytes(gs) \in Seq(Cell)
      BY <3>0, OpenAreaIs, SpecialBytesAre
    <3>2. ASSUME NEW u \in Seq(Cell), NEW v \in Seq(Cell) PROVE u \o v \in Seq(Cell)
      BY ConcatLength
    <3>3. OpenArea(gs) \o SpecialBytes(gs) \in Seq(Cell)
      BY <3>1, <3>2
    <3> QED BY <3>3 DEF MetaContent, OpenArea
  <2> HIDE DEF compress, content
  <2>3. /\ Framed(Decompressed(s), content) /\ (~compress => Decompressed(s) = s)
        /\ Intact(s) \/ Btl + Len(content) \in FullAt
    BY <2>1, <2>2, FinishedIsFramed
  <2> QED BY <2>1, <2>3 DEF content
<1>12. AllSegments(s) = gs /\ Len(SpecialOffsets(s)) = 1
  <2> DEFINE c == SpecialSegments(Len(gs))
  <2>1. AreImages(gs) /\ Len(gs) # 0 /\ Framed(s, MetaContent(gs))
    BY <1>8, <1>9, <1>11
  <2>2. AllSegments(s) = gs /\ Len(SpecialOffsets(s)) = Len(c)
    BY <2>1, MetaParses
  <2>3. Len(c) = 1
    <3>1. c = <<1>>
      BY <1>8, OneInterval
    <3> HIDE DEF c
    <3> QED BY <3>1
  <2> QED BY <2>2, <2>3
<1> DEFINE Item(name) == (CHOOSE g \in {g1, g2, g3} : g.prefix = name).items[1]
<1>13. \A name : MetaValue(s, name) = From(Item(name), 8, ValueAt(Item(name), 4))
  <2>1. IntervalEnd(s, 1) = MetaDataBeg(s)
    BY <1>12 DEF IntervalEnd
  <2>2. SegmentsFrom(s, SpecialOffsets(s)[1], IntervalEnd(s, 1)) = gs
    BY <1>12, <2>1 DEF AllSegments
  <2> QED BY <1>8, <2>2, Zenon DEF MetaValue
<1>14. Item(LastUk) = g1.items[1] /\ Item(FirstUk) = g2.items[1] /\ Item(Filter) = g3.items[1]
  <2>1. /\ (CHOOSE g \in {g1, g2, g3} : g.prefix = LastUk) = g1
        /\ (CHOOSE g \in {g1, g2, g3} : g.prefix = FirstUk) = g2
        /\ (CHOOSE g \in {g1, g2, g3} : g.prefix = Filter) = g3
    BY <1>5, <1>6, <1>7, NamesAre
  <2> QED BY <2>1
<1> HIDE DEF Item
<1>15. MetaValue(s, LastUk) = r1 /\ MetaValue(s, FirstUk) = r2 /\ MetaValue(s, Filter) = r3
  BY <1>5, <1>6, <1>7, <1>13, <1>14, Zenon
<1> QED BY <1>2, <1>4, <1>11, <1>12, <1>15 DEF r1, r2

(***************************************************************************)
(* The invariant of the bytes                                              *)
(***************************************************************************)
AllMeasured(blocks) == \A i \in DOMAIN blocks : Measured(blocks[i])

BytesInv ==
    /\ Measured(builder.block) /\ AllMeasured(builder.blocks)
    /\ \A i \in DOMAIN tables :
          AllMeasured(tables[i].blocks) /\ tables[i].filter = KeysOf(tables[i])

LEMMA MoreMeasured ==
    ASSUME NEW blocks \in Seq(Block), AllMeasured(blocks), NEW blk \in Block, Measured(blk)
    PROVE  AllMeasured(Append(blocks, blk))
<1> DEFINE new == Append(blocks, blk)
           n == Len(blocks)
<1>1. /\ n \in Nat /\ DOMAIN blocks = 1 .. n /\ DOMAIN new = 1 .. n + 1
      /\ \A i \in 1 .. n : new[i] = blocks[i]
      /\ new[n + 1] = blk
  BY Appended
<1> HIDE DEF new, n
<1>2. \A i \in 1 .. n + 1 : i \in 1 .. n \/ i = n + 1
  BY <1>1
<1> QED BY <1>1, <1>2 DEF AllMeasured, new

LEMMA AddedToMeasured ==
    ASSUME NEW b, GoodBuilder(b), NEW e \in Written, AllBefore(Held(b), {e}),
           Measured(b.block), AllMeasured(b.blocks)
    PROVE  Measured(AddTo(b, e).block) /\ AllMeasured(AddTo(b, e).blocks)
<1> DEFINE blk == AddToBlock(b.block, e)
           new == AddTo(b, e)
<1>1. b.block \in Block /\ b.blocks \in Seq(Block) /\ SortedBlock(b.block)
  BY DEF GoodBuilder, Builder
<1>2. blk \in Block
  <2>1. AllBefore(BlockHolds(b.block), {e})
    BY DEF AllBefore, Held
  <2> QED BY <1>1, <2>1, AddedToBlock
<1>3. Measured(blk)
  BY <1>1, <1>2, AddedIsMeasured
<1> HIDE DEF blk
<1>4. CASE blk.bytes >= BlockSize
  <2>1. new.block = EmptyBlock /\ new.blocks = Append(b.blocks, blk)
    BY <1>4 DEF AddTo, BlockAfterFlush, blk
  <2> HIDE DEF new
  <2> QED BY <1>1, <1>2, <1>3, <2>1, MoreMeasured, EmptyBlockIsMeasured DEF new
<1>5. CASE ~(blk.bytes >= BlockSize)
  <2>1. new.block = blk /\ new.blocks = b.blocks
    BY <1>5 DEF AddTo, blk
  <2> HIDE DEF new
  <2> QED BY <1>3, <2>1 DEF new
<1> QED BY <1>4, <1>5

LEMMA FinishedIsMeasured ==
    ASSUME NEW b, GoodBuilder(b), Held(b) # {}, Measured(b.block), AllMeasured(b.blocks)
    PROVE  LET t == FinishTable(b)
           IN  AllMeasured(t.blocks) /\ t.filter = KeysOf(t)
<1> DEFINE t == FinishTable(b)
<1>1. b.block \in Block /\ b.blocks \in Seq(Block) /\ b.filter = {e.key : e \in Held(b)}
  BY DEF GoodBuilder, Builder
<1>2. /\ t.blocks = IF b.block.segs = <<>> THEN b.blocks ELSE Append(b.blocks, b.block)
      /\ t.filter = b.filter
  BY DEF FinishTable
<1>3. Holds(t.blocks) = Held(b)
  BY FinishedTable
<1> HIDE DEF t
<1>4. AllMeasured(t.blocks)
  BY <1>1, <1>2, MoreMeasured
<1>5. t.filter = KeysOf(t)
  BY <1>1, <1>2, <1>3 DEF KeysOf
<1> QED BY <1>4, <1>5 DEF t

LEMMA NewIsMeasured == Measured(NewBuilder.block) /\ AllMeasured(NewBuilder.blocks)
BY EmptyBlockIsMeasured DEF NewBuilder, AllMeasured

LEMMA BytesInvInit == TablesInit => BytesInv
<1> SUFFICES ASSUME TablesInit PROVE BytesInv
  OBVIOUS
<1>1. builder = NewBuilder /\ DOMAIN tables = {}
  BY DEF TablesInit
<1> QED BY <1>1, NewIsMeasured DEF BytesInv

LEMMA TableIsMeasured ==
    ASSUME Inv, BytesInv, Held(builder) # {}, tables' = Append(tables, FinishTable(builder))
    PROVE  \A i \in DOMAIN tables' :
              AllMeasured(tables'[i].blocks) /\ tables'[i].filter = KeysOf(tables'[i])
<1> DEFINE t == FinishTable(builder)
           n == Len(tables)
<1>1. GoodBuilder(builder) /\ tables \in Seq(Table)
  BY DEF Inv
<1>2. t \in Table
  BY <1>1, FinishedTable DEF GoodTable
<1>3. AllMeasured(t.blocks) /\ t.filter = KeysOf(t)
  BY <1>1, FinishedIsMeasured DEF BytesInv
<1> HIDE DEF t
<1>4. /\ n \in Nat /\ DOMAIN tables = 1 .. n /\ DOMAIN tables' = 1 .. n + 1
      /\ \A i \in 1 .. n : tables'[i] = tables[i]
      /\ tables'[n + 1] = t
  BY <1>1, <1>2, Appended DEF t
<1> HIDE DEF n
<1>5. \A i \in 1 .. n + 1 : i \in 1 .. n \/ i = n + 1
  BY <1>4
<1> QED BY <1>3, <1>4, <1>5 DEF BytesInv

LEMMA BytesInvNext == Inv /\ BytesInv /\ [TablesNext]_tablesVars => BytesInv'
<1> SUFFICES ASSUME Inv, BytesInv, [TablesNext]_tablesVars PROVE BytesInv'
  OBVIOUS
<1>1. ASSUME NEW e \in Listed, Add(e)
      PROVE  BytesInv'
  <2>1. Give(e) /\ builder' = AddTo(builder, e) /\ tables' = tables
    BY <1>1 DEF Add
  <2>2. e \in Written /\ AllBefore(Held(builder), {e})
    BY <2>1, NextIsLast
  <2>3. Measured(builder'.block) /\ AllMeasured(builder'.blocks)
    BY <2>1, <2>2, AddedToMeasured DEF Inv, BytesInv
  <2> QED BY <2>1, <2>3 DEF BytesInv, AllMeasured, KeysOf, Holds, BlockHolds
<1>2. ASSUME NEW e \in Listed, AddToNext(e)
      PROVE  BytesInv'
  <2>1. /\ Give(e) /\ ReachesTheSizeLimit(builder)
        /\ builder' = AddTo(NewBuilder, e)
        /\ tables' = Append(tables, FinishTable(builder))
    BY <1>2 DEF AddToNext
  <2>2. e \in Written
    BY <2>1, NextIsLast
  <2>3. Measured(builder'.block) /\ AllMeasured(builder'.blocks)
    <3>1. AllBefore(Held(NewBuilder), {e})
      BY NewBuilderIsGood DEF AllBefore
    <3> QED BY <2>1, <2>2, <3>1, AddedToMeasured, NewBuilderIsGood, NewIsMeasured
  <2>4. Held(builder) # {}
    <3>1. builder.flushed >= SizeLimit /\ SizeLimit \in Nat \ {0}
      BY <2>1, TableAssumption DEF ReachesTheSizeLimit
    <3>2. builder.flushed # 0
      BY <3>1
    <3> QED BY <3>2 DEF Inv, GoodBuilder
  <2>5. \A i \in DOMAIN tables' :
           AllMeasured(tables'[i].blocks) /\ tables'[i].filter = KeysOf(tables'[i])
    BY <2>1, <2>4, TableIsMeasured
  <2> QED BY <2>3, <2>5 DEF BytesInv
<1>3. ASSUME Finish
      PROVE  BytesInv'
  <2>1. /\ ~finished /\ given # <<>> /\ builder' = NewBuilder
        /\ tables' = Append(tables, FinishTable(builder))
    BY <1>3 DEF Finish
  <2>2. Held(builder) # {}
    BY <2>1 DEF Inv
  <2>3. \A i \in DOMAIN tables' :
           AllMeasured(tables'[i].blocks) /\ tables'[i].filter = KeysOf(tables'[i])
    BY <2>1, <2>2, TableIsMeasured
  <2> QED BY <2>1, <2>3, NewIsMeasured DEF BytesInv
<1>4. CASE UNCHANGED tablesVars
  BY <1>4 DEF tablesVars, BytesInv
<1> QED BY <1>1, <1>2, <1>3, <1>4 DEF TablesNext

\* block_builder::add notes of every block, in a builder or in a table, what
\* finish writes of it; and the filter of a table is that of its keys.
THEOREM BytesInvariance == TablesSpec => []BytesInv
<1>1. Inv /\ BytesInv /\ [TablesNext]_tablesVars => BytesInv'
  BY BytesInvNext
<1> QED BY <1>1, BytesInvInit, Invariance, PTL DEF TablesSpec

LEMMA NewestIsOne ==
    ASSUME NEW t \in Newest, tables \in Seq(Table)
    PROVE  \E i \in DOMAIN tables : t = tables[i]
<1>1. tables # <<>> /\ t = tables[Len(tables)]
  BY DEF Newest, Last
<1>2. Len(tables) \in DOMAIN tables
  BY <1>1, EmptySeq
<1> QED BY <1>1, <1>2

\* block_builder::finish and block::parse: whatever the sizes, what is parsed of a
\* block of a table is the block that was built.
THEOREM WrittenBlocksParse == TablesSpec => []BlocksParse
<1>1. ASSUME Inv, BytesInv PROVE BlocksParse
  <2> SUFFICES ASSUME NEW t \in Newest, NEW i \in DOMAIN t.blocks
               PROVE  ParsedAsBuilt(t.blocks[i])
    BY DEF BlocksParse
  <2>1. PICK n \in DOMAIN tables : t = tables[n]
    BY <1>1, NewestIsOne DEF Inv
  <2>2. GoodTable(t) /\ AllMeasured(t.blocks)
    BY <1>1, <2>1 DEF Inv, BytesInv
  <2>3. t.blocks \in Seq(Block) /\ SortedBlocks(t.blocks)
    BY <2>2 DEF GoodTable, Table
  <2>4. /\ t.blocks[i] \in Block /\ SortedBlock(t.blocks[i]) /\ t.blocks[i].segs # <<>>
        /\ Measured(t.blocks[i])
    BY <2>2, <2>3 DEF SortedBlocks, AllMeasured
  <2> QED BY <2>4, BlockIsParsed
<1> QED BY <1>1, Invariance, BytesInvariance, PTL

\* sstable_builder::finish and sstable::parse_meta_data: a table that was finished
\* is opened, with the first key, the last key and the filter of its entries.
THEOREM FinishedTablesOpen == TablesSpec => []TablesOpen
<1>1. ASSUME Inv, BytesInv PROVE TablesOpen
  <2> SUFFICES ASSUME NEW t \in Newest PROVE Opens(t)
    BY DEF TablesOpen
  <2>1. PICK n \in DOMAIN tables : t = tables[n]
    BY <1>1, NewestIsOne DEF Inv
  <2>2. GoodTable(t) /\ t.filter = KeysOf(t)
    BY <1>1, <2>1 DEF Inv, BytesInv
  <2> QED BY <2>2, TableOpens
<1> QED BY <1>1, Invariance, BytesInvariance, PTL
=============================================================================
