-------------------------- MODULE TableFilesProofs --------------------------
(***************************************************************************)
(* Proofs about the files of tables: a table that is published is all in   *)
(* its file, a reader gets the blocks that were built, and a table that    *)
(* was unlinked is never created again.                                    *)
(***************************************************************************)
EXTENDS TableFiles, DataProofs, SequenceTheorems, FiniteSetTheorems

(***************************************************************************)
(* Numbers                                                                 *)
(***************************************************************************)
LEMMA Multiples ==
    ASSUME NEW s \in Nat \ {0}, NEW i \in Nat
    PROVE  /\ i * s \in Nat /\ (i + 1) * s = i * s + s /\ 0 * s = 0 /\ 1 * s = s
           /\ \A j \in Nat : i < j => i * s + s <= j * s
           /\ \A j \in Nat : i <= j => i * s <= j * s
<1>1. i * s \in Nat /\ (i + 1) * s = i * s + s /\ 0 * s = 0 /\ 1 * s = s
  OBVIOUS
<1>2. ASSUME NEW d \in Nat PROVE d * s \in Nat
  OBVIOUS
<1>3. ASSUME NEW j \in Nat, i < j PROVE i * s + s <= j * s
  <2> DEFINE d == j - i - 1
  <2>1. d \in Nat /\ j = i + 1 + d
    BY <1>3
  <2>2. d * s \in Nat
    BY <1>2, <2>1
  <2> HIDE DEF d
  <2>3. (i + 1 + d) * s = i * s + s + d * s
    BY <2>1
  <2> QED BY <1>1, <2>1, <2>2, <2>3
<1>4. ASSUME NEW j \in Nat, i <= j PROVE i * s <= j * s
  <2>1. CASE i = j
    BY <1>1, <2>1
  <2>2. CASE i # j
    <3>1. i * s + s <= j * s /\ j * s \in Nat
      BY <1>2, <1>3, <1>4, <2>2
    <3> QED BY <1>1, <3>1
  <2> QED BY <2>1, <2>2
<1> QED BY <1>1, <1>3, <1>4

LEMMA Division ==
    ASSUME NEW s \in Nat \ {0}, NEW x \in Nat
    PROVE  /\ x \div s \in Nat /\ x % s \in 0 .. (s - 1)
           /\ x = (x \div s) * s + (x % s)
<1>1. x % s \in 0 .. (s - 1)
  OBVIOUS
<1>2. x \div s \in Nat
  OBVIOUS
<1>3. x = (x \div s) * s + (x % s)
  OBVIOUS
<1> QED BY <1>1, <1>2, <1>3

(***************************************************************************)
(* A file on disk and its buffer                                           *)
(***************************************************************************)
LEMMA Sizes ==
    /\ DiskBlock \in Nat \ {0} /\ MemBlock \in Nat \ {0} /\ CacheBlock \in Nat \ {0}
    /\ MetaLength \in Nat \ {0} /\ Capacity \in Nat \ {0}
BY TableFilesAssumption

FileCell == [is : {"btl", "data", "meta", "mbo", "magic"}, of : Nat]

BufferOf(data) == [capa |-> DiskBlock, data |-> data]
FileOf(data, file) == [buffer |-> BufferOf(data), file |-> file]

\* The cells c have been appended to w.
Wrote(w, c) ==
    \E data, file \in Seq(FileCell) :
        w = FileOf(data, file) /\ Len(data) <= DiskBlock /\ c = file \o data

LEMMA WroteSeq ==
    ASSUME NEW w, NEW c, Wrote(w, c)
    PROVE  c \in Seq(FileCell) /\ Len(w.buffer.data) <= DiskBlock
<1>1. PICK data \in Seq(FileCell), file \in Seq(FileCell) :
         w = FileOf(data, file) /\ Len(data) <= DiskBlock /\ c = file \o data
  BY DEF Wrote
<1>2. file \o data \in Seq(FileCell)
  BY ConcatProperties
<1> QED BY <1>1, <1>2 DEF FileOf, BufferOf

LEMMA NewWrote ==
    ASSUME NEW c \in Seq(FileCell)
    PROVE  Wrote(NewWritable(DiskBlock, c), c) /\ NewWritable(DiskBlock, c) = FileOf(<<>>, c)
<1>1. NewWritable(DiskBlock, c) = FileOf(<<>>, c)
  BY DEF NewWritable, NewBuffer, FileOf, BufferOf
<1>2. <<>> \in Seq(FileCell) /\ Len(<<>>) <= DiskBlock /\ c = c \o <<>>
  BY Sizes, EmptySeq, ConcatEmptySeq
<1> QED BY <1>1, <1>2 DEF Wrote

LEMMA FlushWrote ==
    ASSUME NEW w, NEW c, Wrote(w, c)
    PROVE  FlushValid(w) = NewWritable(DiskBlock, c) /\ Wrote(FlushValid(w), c)
<1>1. PICK data \in Seq(FileCell), file \in Seq(FileCell) :
         w = FileOf(data, file) /\ Len(data) <= DiskBlock /\ c = file \o data
  BY DEF Wrote
<1>2. FlushValid(w) = NewWritable(DiskBlock, c)
  <2>1. w.buffer = BufferOf(data) /\ w.file = file /\ BufferOf(data).data = data
    BY <1>1 DEF FileOf, BufferOf
  <2>2. Emptied(BufferOf(data)) = BufferOf(<<>>)
    BY DEF Emptied, BufferOf
  <2>3. FlushValid(w) = [buffer |-> BufferOf(<<>>), file |-> c]
    BY <1>1, <2>1, <2>2 DEF FlushValid
  <2> QED BY <2>3 DEF NewWritable, NewBuffer, BufferOf
<1>3. c \in Seq(FileCell)
  BY WroteSeq
<1> QED BY <1>2, <1>3, NewWrote

LEMMA AppendWrote ==
    ASSUME NEW w, NEW c, Wrote(w, c), NEW cells \in Seq(FileCell)
    PROVE  Wrote(AppendFile(w, cells), c \o cells)
<1>1. PICK data \in Seq(FileCell), file \in Seq(FileCell) :
         w = FileOf(data, file) /\ Len(data) <= DiskBlock /\ c = file \o data
  BY DEF Wrote
<1>2. /\ Len(data) \in Nat /\ Len(cells) \in Nat /\ DiskBlock \in Nat /\ DiskBlock > 0
      /\ c \in Seq(FileCell)
  BY Sizes, WroteSeq, LenProperties
<1> DEFINE more == data \o cells
           flushed == FileOf(<<>>, c)
<1>3. /\ more \in Seq(FileCell) /\ Len(more) = Len(data) + Len(cells)
      /\ file \o more = c \o cells /\ c \o cells \in Seq(FileCell)
  <2>1. more \in Seq(FileCell) /\ Len(more) = Len(data) + Len(cells)
    BY ConcatProperties
  <2>2. file \o more = c \o cells
    BY <1>1, ConcatAssociative
  <2>3. c \o cells \in Seq(FileCell)
    BY <1>2, ConcatProperties
  <2> QED BY <2>1, <2>2, <2>3
<1>4. w.buffer.capa = DiskBlock /\ Left(w.buffer) = DiskBlock - Len(data)
  BY <1>1 DEF FileOf, BufferOf, Left
<1>5. FlushValid(w) = flushed /\ flushed.buffer = BufferOf(<<>>) /\ flushed.file = c
      /\ Left(flushed.buffer) = DiskBlock
  <2>1. FlushValid(w) = FileOf(<<>>, c)
    BY <1>2, FlushWrote, NewWrote
  <2>2. Len(<<>>) = 0 /\ DiskBlock - 0 = DiskBlock
    BY <1>2
  <2>3. flushed.buffer = BufferOf(<<>>) /\ flushed.file = c
    BY DEF FileOf
  <2>4. Left(BufferOf(<<>>)) = DiskBlock
    BY <2>2 DEF Left, BufferOf
  <2> QED BY <2>1, <2>3, <2>4
<1> HIDE DEF more, flushed
<1>6. CASE Len(cells) <= Left(w.buffer)
  <2> DEFINE v == [w EXCEPT !.buffer = AppendTo(@, cells)]
  <2>1. AppendFile(w, cells) = FlushedIfFull(v)
    BY <1>2, <1>4, <1>6 DEF AppendFile
  <2>2. AppendTo(w.buffer, cells) = BufferOf(more)
    <3>1. ~(Left(w.buffer) < Len(cells))
      BY <1>2, <1>4, <1>6
    <3> QED BY <1>1, <3>1 DEF AppendTo, FileOf, BufferOf, more
  <2>3. v = FileOf(more, file)
    BY <1>1, <2>2 DEF FileOf
  <2>4. Len(more) <= DiskBlock
    BY <1>2, <1>3, <1>4, <1>6
  <2> HIDE DEF v
  <2>5. Wrote(v, c \o cells)
    BY <1>3, <2>3, <2>4 DEF Wrote
  <2> QED BY <2>1, <2>5, FlushWrote DEF FlushedIfFull
<1>7. CASE Len(cells) > Left(w.buffer)
  <2>1. AppendFile(w, cells) =
          IF Len(cells) >= DiskBlock THEN [flushed EXCEPT !.file = @ \o cells]
          ELSE [flushed EXCEPT !.buffer = AppendTo(@, cells)]
    <3>1. ~(Len(cells) <= Left(w.buffer)) /\ w.buffer.capa > 0 /\ ~(w.buffer.capa = 0)
      BY <1>2, <1>4, <1>7
    <3> QED BY <1>5, <1>7, <3>1 DEF AppendFile
  <2>2. CASE Len(cells) >= DiskBlock
    <3>1. AppendFile(w, cells) = FileOf(<<>>, c \o cells)
      BY <1>5, <2>1, <2>2 DEF FileOf, flushed
    <3> QED BY <1>3, <3>1, NewWrote
  <2>3. CASE ~(Len(cells) >= DiskBlock)
    <3>1. ~(Left(flushed.buffer) < Len(cells)) /\ Len(cells) <= DiskBlock
      BY <1>2, <1>5, <2>3
    <3>2. <<>> \o cells = cells
      BY ConcatEmptySeq
    <3>3. AppendTo(flushed.buffer, cells) = BufferOf(cells)
      BY <1>5, <3>1, <3>2 DEF AppendTo, BufferOf
    <3>4. AppendFile(w, cells) = FileOf(cells, c)
      BY <1>5, <2>1, <2>3, <3>3 DEF FileOf, flushed
    <3> QED BY <1>2, <3>1, <3>4 DEF Wrote
  <2> QED BY <2>2, <2>3
<1> QED BY <1>2, <1>4, <1>6, <1>7

(***************************************************************************)
(* A file in memory                                                        *)
(***************************************************************************)
MemBuffer(z, data) == [capa |-> z, data |-> data]

\* Where buffer i ends, of buffers of z cells that hold n.
Upto(i, z, n) == IF i * z < n THEN i * z ELSE n

Part(c, i, z) == SubSeq(c, (i - 1) * z + 1, Upto(i, z, Len(c)))

\* The cells c in k buffers of z cells.
Shape(c, z, k) ==
    [size |-> z, blocks |-> [i \in 1 .. k |-> MemBuffer(z, Part(c, i, z))]]

Fits(c, z, k) ==
    /\ c \in Seq(FileCell) /\ z \in Nat \ {0} /\ k \in Nat \ {0}
    /\ (k - 1) * z <= Len(c) /\ Len(c) <= k * z

\* m holds c, and has no buffer more than it needs.
Mem(m, c) ==
    \E z, k :
        /\ Fits(c, z, k) /\ m = Shape(c, z, k)
        /\ k = 1 \/ (k - 1) * z < Len(c)

LEMMA PartFacts ==
    ASSUME NEW c, NEW z, NEW k, Fits(c, z, k), NEW i \in 1 .. k
    PROVE  LET a == (i - 1) * z
               b == Upto(i, z, Len(c))
           IN  /\ a \in Nat /\ b \in Nat /\ a <= b /\ b <= Len(c) /\ b - a <= z
               /\ i < k => b = i * z /\ b - a = z
               /\ i = k => b = Len(c)
               /\ Upto(i - 1, z, Len(c)) = a
               /\ Part(c, i, z) \in Seq(FileCell) /\ Len(Part(c, i, z)) = b - a
               /\ \A j \in 1 .. (b - a) : Part(c, i, z)[j] = c[a + j]
<1> DEFINE a == (i - 1) * z
           b == Upto(i, z, Len(c))
           B == i * z
           L == Len(c)
           K == (k - 1) * z
<1>1. c \in Seq(FileCell) /\ z \in Nat /\ z > 0 /\ k \in Nat /\ k > 0 /\ K <= L /\ L <= k * z
      /\ L \in Nat /\ i \in Nat /\ i - 1 \in Nat /\ k - 1 \in Nat /\ i <= k
  BY DEF Fits
<1>2. a \in Nat /\ B = a + z /\ B \in Nat
  <2>1. z \in Nat \ {0} /\ (i - 1) + 1 = i
    BY <1>1
  <2>2. a \in Nat /\ ((i - 1) + 1) * z = a + z
    BY <1>1, <2>1, Multiples
  <2> HIDE DEF a
  <2>3. B = a + z
    BY <2>1, <2>2
  <2> HIDE DEF B
  <2> QED BY <1>1, <2>2, <2>3
<1>3. K \in Nat /\ k * z = K + z
  <2>1. z \in Nat \ {0} /\ (k - 1) + 1 = k
    BY <1>1
  <2>2. K \in Nat /\ ((k - 1) + 1) * z = K + z
    BY <1>1, <2>1, Multiples
  <2> HIDE DEF K
  <2> QED BY <2>1, <2>2
<1>4. i < k => B <= K
  <2>1. z \in Nat \ {0} /\ (i < k => i <= k - 1)
    BY <1>1
  <2>2. \A j \in Nat : i <= j => i * z <= j * z
    BY <1>1, <2>1, Multiples
  <2> QED BY <1>1, <2>1, <2>2
<1>5. i = k => a = K /\ B = k * z
  OBVIOUS
<1>6. b = IF B < L THEN B ELSE L
  BY DEF Upto
<1>7. Upto(i - 1, z, L) = IF a < L THEN a ELSE L
  BY DEF Upto
<1> HIDE DEF a, b, B, L, K
<1>8. /\ b \in Nat /\ a <= b /\ b <= L /\ b - a <= z /\ (i < k => b = B /\ b - a = z)
      /\ (i = k => b = L) /\ a <= L
  BY <1>1, <1>2, <1>3, <1>4, <1>5, <1>6
<1>9. Upto(i - 1, z, L) = a
  BY <1>1, <1>2, <1>7, <1>8
<1>10. Part(c, i, z) = SubSeq(c, a + 1, b)
  BY DEF Part, a, b
<1>11. Slice(SubSeq(c, a + 1, b), c, a, b, FileCell)
  BY <1>1, <1>2, <1>8, SliceIs DEF L
<1>12. /\ Part(c, i, z) \in Seq(FileCell) /\ Len(Part(c, i, z)) = b - a
       /\ \A j \in 1 .. (b - a) : Part(c, i, z)[j] = c[a + j]
  BY <1>10, <1>11 DEF Slice
<1> QED BY <1>2, <1>8, <1>9, <1>12 DEF a, b, B, L

LEMMA MinOfTwo ==
    ASSUME NEW m \in Nat, NEW n \in Nat
    PROVE  Min({m, n}) = IF m < n THEN m ELSE n
<1> DEFINE x == IF m < n THEN m ELSE n
<1>1. x \in {m, n} /\ \A y \in {m, n} : x <= y
  OBVIOUS
<1>2. \A y \in {m, n} : (\A v \in {m, n} : y <= v) => y = x
  OBVIOUS
<1> HIDE DEF x
<1>3. Min({m, n}) = x
  BY <1>1, <1>2 DEF Min
<1> QED BY <1>3 DEF x

\* The cells of c from off to x, where there are n.
LEMMA CellsIs ==
    ASSUME NEW S, NEW c \in Seq(S), NEW off \in Nat, NEW n \in Nat, off <= Len(c)
    PROVE  \E x \in off .. Len(c) :
              /\ Cells(c, off, n) = SubSeq(c, off + 1, x)
              /\ Slice(Cells(c, off, n), c, off, x, S)
              /\ x = IF off + n < Len(c) THEN off + n ELSE Len(c)
<1> DEFINE x == IF off + n < Len(c) THEN off + n ELSE Len(c)
<1>1. Len(c) \in Nat /\ off + n \in Nat
  OBVIOUS
<1>2. Min({off + n, Len(c)}) = x
  BY <1>1, MinOfTwo
<1>3. x \in off .. Len(c) /\ x \in Nat
  BY <1>1
<1> HIDE DEF x
<1>4. Cells(c, off, n) = SubSeq(c, off + 1, x)
  BY <1>2 DEF Cells
<1>5. Slice(SubSeq(c, off + 1, x), c, off, x, S)
  BY <1>1, <1>3, SliceIs
<1>6. x = IF off + n < Len(c) THEN off + n ELSE Len(c)
  BY DEF x
<1> QED BY <1>3, <1>4, <1>5, <1>6

LEMMA IsPart ==
    ASSUME NEW c, NEW z, NEW k, Fits(c, z, k), NEW i \in 1 .. k, NEW s \in Seq(FileCell),
           Len(s) = Upto(i, z, Len(c)) - (i - 1) * z,
           \A j \in 1 .. Len(s) : s[j] = c[(i - 1) * z + j]
    PROVE  s = Part(c, i, z)
<1> DEFINE a == (i - 1) * z
           b == Upto(i, z, Len(c))
<1>1. a \in Nat /\ b \in Nat /\ a <= b /\ b <= Len(c)
  BY PartFacts
<1>2. c \in Seq(FileCell) /\ Len(s) = b - a /\ \A j \in 1 .. Len(s) : s[j] = c[a + j]
  BY DEF Fits
<1>3. Part(c, i, z) = SubSeq(c, a + 1, b)
  BY DEF Part
<1> HIDE DEF a, b
<1>4. a + Len(s) = b
  BY <1>1, <1>2
<1>5. a + Len(s) <= Len(c)
  BY <1>1, <1>4
<1> HIDE DEF Part
<1>6. s = SubSeq(c, a + 1, a + Len(s))
  BY <1>1, <1>2, <1>5, PartIs
<1> QED BY <1>3, <1>4, <1>6

LEMMA ShapeIs ==
    ASSUME NEW c, NEW z, NEW k, Fits(c, z, k)
    PROVE  /\ Shape(c, z, k).size = z
           /\ Len(Shape(c, z, k).blocks) = k /\ DOMAIN Shape(c, z, k).blocks = 1 .. k
           /\ \A i \in 1 .. k : Shape(c, z, k).blocks[i] = MemBuffer(z, Part(c, i, z))
           /\ Last(Shape(c, z, k).blocks) = MemBuffer(z, Part(c, k, z))
           /\ Left(MemBuffer(z, Part(c, k, z))) = k * z - Len(c)
<1> DEFINE B == [i \in 1 .. k |-> MemBuffer(z, Part(c, i, z))]
<1>1. k \in Nat /\ k \in 1 .. k
  BY DEF Fits
<1>2. Len(B) = k /\ DOMAIN B = 1 .. k
  BY <1>1
<1>3. Shape(c, z, k).size = z /\ Shape(c, z, k).blocks = B
  BY DEF Shape
<1>4. Last(B) = MemBuffer(z, Part(c, k, z))
  BY <1>1, <1>2 DEF Last
<1>5. Left(MemBuffer(z, Part(c, k, z))) = k * z - Len(c)
  <2> DEFINE L == Len(Part(c, k, z))
             a == (k - 1) * z
  <2>1. L = Len(c) - a
    BY <1>1, PartFacts
  <2>2. k * z = a + z /\ a \in Nat /\ z \in Nat /\ Len(c) \in Nat /\ k * z \in Nat
    <3>1. z \in Nat \ {0} /\ k - 1 \in Nat /\ (k - 1) + 1 = k /\ c \in Seq(FileCell)
      BY DEF Fits
    <3>2. a \in Nat /\ ((k - 1) + 1) * z = a + z
      BY <3>1, Multiples
    <3> HIDE DEF a
    <3> QED BY <3>1, <3>2
  <2>3. Left(MemBuffer(z, Part(c, k, z))) = z - L
    BY DEF Left, MemBuffer
  <2> HIDE DEF L, a
  <2> QED BY <2>1, <2>2, <2>3
<1> HIDE DEF B
<1> QED BY <1>2, <1>3, <1>4, <1>5 DEF B

\* D is B, of k elements, and then e.
OneMore(D, B, k, e) ==
    /\ k \in Nat /\ B = [i \in 1 .. k |-> B[i]] /\ D = [i \in 1 .. k + 1 |-> D[i]]
    /\ D[k + 1] = e /\ \A i \in 1 .. k : D[i] = B[i]

LEMMA AppendOne ==
    ASSUME NEW k, NEW B, NEW D, NEW e, OneMore(D, B, k, e)
    PROVE  D = Append(B, e)
<1>0. /\ k \in Nat /\ B = [i \in 1 .. k |-> B[i]] /\ D = [i \in 1 .. k + 1 |-> D[i]]
      /\ D[k + 1] = e /\ \A i \in 1 .. k : D[i] = B[i]
  BY DEF OneMore
<1> DEFINE S == {D[i] : i \in 1 .. k + 1}
<1>1. k + 1 \in 1 .. k + 1 /\ \A i \in 1 .. k : i \in 1 .. k + 1
  BY <1>0
<1>2. e \in S /\ \A i \in 1 .. k : B[i] \in S
  BY <1>0, <1>1
<1>3. \A i \in 1 .. k + 1 : D[i] \in S
  BY <1>0
<1> HIDE DEF S
<1>4. B \in Seq(S) /\ Len(B) = k
  BY <1>0, <1>2, SMTT(30)
<1>5. D \in Seq(S) /\ Len(D) = k + 1
  BY <1>0, <1>3
<1>6. /\ Append(B, e) \in Seq(S) /\ Len(Append(B, e)) = k + 1 /\ Append(B, e)[k + 1] = e
      /\ \A i \in 1 .. k : Append(B, e)[i] = B[i]
  BY <1>0, <1>2, <1>4, AppendProperties
<1>7. \A i \in 1 .. k + 1 : D[i] = Append(B, e)[i]
  <2>1. \A i \in 1 .. k + 1 : i = k + 1 \/ i \in 1 .. k
    BY <1>0
  <2> QED BY <1>0, <1>6, <2>1
<1> QED BY <1>0, <1>5, <1>6, <1>7, SeqEqual

\* The cells c in k buffers of z cells, of which the last has room.
Roomy(r, c, z, k) == Fits(c, z, k) /\ r = Shape(c, z, k) /\ Len(c) < k * z

LEMMA WithRoomIs ==
    ASSUME NEW m, NEW c, NEW z, NEW k, Fits(c, z, k), m = Shape(c, z, k)
    PROVE  \E l \in {k, k + 1} :
              Roomy(WithRoom(m), c, z, l) /\ Room(m) = l * z - Len(c)
<1> DEFINE L == Len(c)
           last == MemBuffer(z, Part(c, k, z))
           K == k * z
<1>1. /\ c \in Seq(FileCell) /\ z \in Nat \ {0} /\ k \in Nat \ {0} /\ k + 1 \in Nat \ {0}
      /\ (k + 1) - 1 = k /\ L \in Nat /\ L <= K /\ K \in Nat /\ z > 0
  <2>1. k * z \in Nat
    BY Multiples DEF Fits
  <2> QED BY <2>1 DEF Fits
<1>2. Last(m.blocks) = last /\ Left(last) = K - L /\ m.size = z
  <2> HIDE DEF last, K, L
  <2>1. /\ Shape(c, z, k).size = z /\ Last(Shape(c, z, k).blocks) = last
        /\ Left(last) = K - L
    BY ShapeIs DEF last, K, L
  <2> QED BY <2>1
<1>3. CASE L = K
  <2>0. (k + 1) * z = K + z /\ (k + 1) * z \in Nat
    <3>1. (k + 1) * z = k * z + z
      BY <1>1, Multiples
    <3> QED BY <1>1, <3>1
  <2>1. Fits(c, z, k + 1)
    <3>1. ((k + 1) - 1) * z = K
      BY <1>1
    <3> HIDE DEF K
    <3> QED BY <1>1, <1>3, <2>0, <3>1 DEF Fits
  <2>2. Part(c, k + 1, z) = <<>>
    <3>1. Upto(k + 1, z, L) = L
      <4> HIDE DEF K, L
      <4>1. ~((k + 1) * z < L)
        BY <1>1, <1>3, <2>0
      <4> QED BY <4>1 DEF Upto
    <3>2. ((k + 1) - 1) * z = L
      BY <1>1, <1>3
    <3>3. Part(c, k + 1, z) = SubSeq(c, L + 1, L)
      BY <3>1, <3>2 DEF Part
    <3> HIDE DEF L
    <3> QED BY <1>1, <3>3, SliceNone
  <2>3. IsFull(last)
    <3> HIDE DEF last
    <3> QED BY <1>1, <1>2, <1>3 DEF IsFull
  <2> DEFINE B == [i \in 1 .. k |-> MemBuffer(z, Part(c, i, z))]
             D == [i \in 1 .. k + 1 |-> MemBuffer(z, Part(c, i, z))]
  <2>4. k \in Nat /\ \A i \in 1 .. k : i \in 1 .. k + 1
    BY <1>1
  <2>5. D = Append(B, MemBuffer(z, <<>>))
    <3>1. \A i \in 1 .. k : B[i] = MemBuffer(z, Part(c, i, z)) /\ D[i] = B[i]
      BY <2>4
    <3>2. D[k + 1] = MemBuffer(z, <<>>)
      BY <2>2, <2>4
    <3>3. D = [i \in 1 .. k + 1 |-> D[i]] /\ B = [i \in 1 .. k |-> B[i]]
      OBVIOUS
    <3> HIDE DEF B, D
    <3>4. OneMore(D, B, k, MemBuffer(z, <<>>))
      BY <2>4, <3>1, <3>2, <3>3 DEF OneMore
    <3> QED BY <3>4, AppendOne
  <2>6. WithRoom(m) = Shape(c, z, k + 1)
    <3>1. WithRoom(m) = [m EXCEPT !.blocks = Append(@, NewBuffer(m.size))]
      BY <1>2, <2>3 DEF WithRoom
    <3>2. m = [size |-> z, blocks |-> B]
      BY DEF Shape
    <3>3. NewBuffer(m.size) = MemBuffer(z, <<>>)
      BY <1>2 DEF NewBuffer, MemBuffer
    <3> HIDE DEF B
    <3>4. WithRoom(m) = [size |-> z, blocks |-> Append(B, MemBuffer(z, <<>>))]
      BY <3>1, <3>2, <3>3, SMTT(30)
    <3> QED BY <2>5, <3>4 DEF Shape
  <2>7. Room(m) = (k + 1) * z - L
    <3> DEFINE new == MemBuffer(z, Part(c, k + 1, z))
    <3>1. Last(Shape(c, z, k + 1).blocks) = new /\ Left(new) = (k + 1) * z - L
      BY <2>1, ShapeIs
    <3> HIDE DEF new, L
    <3> QED BY <2>6, <3>1 DEF Room
  <2>8. L < (k + 1) * z
    <3> HIDE DEF L, K
    <3> QED BY <1>1, <1>3, <2>0
  <2> QED BY <2>1, <2>6, <2>7, <2>8 DEF Roomy
<1>4. CASE L # K
  <2>1. ~IsFull(last)
    <3> HIDE DEF last
    <3> QED BY <1>1, <1>2, <1>4 DEF IsFull
  <2>2. WithRoom(m) = m
    BY <1>2, <2>1 DEF WithRoom
  <2>3. Room(m) = K - L
    BY <1>2, <2>2 DEF Room
  <2>4. L < K
    <3> HIDE DEF L, K
    <3> QED BY <1>1, <1>4
  <2> QED BY <2>2, <2>3, <2>4 DEF Roomy
<1> QED BY <1>3, <1>4

\* Cells are added to the last buffer, that has room for them.
LEMMA GrowLast ==
    ASSUME NEW c, NEW z, NEW k, Fits(c, z, k), NEW cells \in Seq(FileCell),
           Len(c) + Len(cells) <= k * z
    PROVE  /\ Fits(c \o cells, z, k)
           /\ \A i \in 1 .. k : i < k => Part(c \o cells, i, z) = Part(c, i, z)
           /\ Part(c \o cells, k, z) = Part(c, k, z) \o cells
<1> DEFINE d == c \o cells
           L == Len(c)
           M == Len(d)
           N == Len(cells)
<1>1. c \in Seq(FileCell) /\ z \in Nat \ {0} /\ k \in Nat \ {0} /\ L \in Nat /\ N \in Nat
      /\ (k - 1) * z <= L /\ k - 1 \in Nat
  BY DEF Fits
<1>2. Joined(d, c, cells, FileCell)
  BY <1>1, ConcatIs
<1>3. d \in Seq(FileCell) /\ M = L + N /\ M \in Nat
      /\ (\A j \in 1 .. L : d[j] = c[j]) /\ \A j \in 1 .. N : d[L + j] = cells[j]
  BY <1>1, <1>2 DEF Joined
<1>4. Fits(d, z, k)
  <2>1. (k - 1) * z \in Nat
    BY <1>1, Multiples
  <2> DEFINE K == (k - 1) * z
  <2>2. K <= M
    <3> HIDE DEF d, L, M, N, K
    <3>1. K \in Nat /\ K <= L
      BY <1>1, <2>1 DEF K
    <3> QED BY <1>1, <1>3, <3>1
  <2>3. M <= k * z
    BY <1>3
  <2> QED BY <1>1, <1>3, <2>2, <2>3 DEF Fits
<1>5. ASSUME NEW i \in 1 .. k, i < k PROVE Part(d, i, z) = Part(c, i, z)
  <2> DEFINE a == (i - 1) * z
             b == Upto(i, z, L)
             s == Part(c, i, z)
  <2>1. /\ a \in Nat /\ b \in Nat /\ a <= b /\ b <= L /\ b = i * z
        /\ s \in Seq(FileCell) /\ Len(s) = b - a /\ \A j \in 1 .. (b - a) : s[j] = c[a + j]
    BY <1>5, PartFacts
  <2>2. Upto(i, z, M) = i * z
    <3> HIDE DEF d
    <3> QED BY <1>4, <1>5, PartFacts
  <2> HIDE DEF b, s, L, M, N
  <2>3. ASSUME NEW j \in 1 .. Len(s) PROVE s[j] = d[(i - 1) * z + j]
    <3> HIDE DEF a, d
    <3>1. a + j \in 1 .. L
      BY <1>1, <2>1
    <3>2. s[j] = c[a + j] /\ d[a + j] = c[a + j]
      BY <1>3, <2>1, <3>1
    <3> QED BY <3>2 DEF a
  <2>4. Len(s) = Upto(i, z, Len(d)) - (i - 1) * z
    BY <2>1, <2>2 DEF M, a
  <2> HIDE DEF a, d
  <2>5. s = Part(d, i, z)
    BY <1>4, <2>1, <2>3, <2>4, IsPart, SMTT(30)
  <2> QED BY <2>5 DEF s
<1>6. Part(d, k, z) = Part(c, k, z) \o cells
  <2> DEFINE a == (k - 1) * z
             p == Part(c, k, z)
             s == p \o cells
  <2>1. k \in 1 .. k
    BY <1>1
  <2>2. /\ a \in Nat /\ p \in Seq(FileCell) /\ Len(p) = L - a /\ a <= L
        /\ \A j \in 1 .. (L - a) : p[j] = c[a + j]
    BY <2>1, PartFacts, SMTT(30)
  <2>3. Upto(k, z, M) = M
    <3> HIDE DEF d
    <3> QED BY <1>4, <2>1, PartFacts
  <2>4. Joined(s, p, cells, FileCell)
    BY <2>2, ConcatIs
  <2> HIDE DEF p, L, M, N
  <2>5. s \in Seq(FileCell) /\ Len(s) = M - a
    <3>1. s \in Seq(FileCell) /\ Len(s) = Len(p) + N
      BY <2>4 DEF Joined, N
    <3> HIDE DEF s, a, d
    <3> QED BY <1>1, <1>3, <2>2, <3>1
  <2>6. ASSUME NEW j \in 1 .. Len(s) PROVE s[j] = d[(k - 1) * z + j]
    <3> HIDE DEF a, d
    <3>1. CASE j <= L - a
      <4>1. s[j] = p[j]
        <5>1. j \in 1 .. Len(p)
          BY <1>1, <2>2, <3>1
        <5> QED BY <2>4, <5>1 DEF Joined
      <4>2. a + j \in 1 .. L /\ j \in 1 .. (L - a)
        BY <1>1, <2>2, <3>1
      <4>3. p[j] = c[a + j] /\ d[a + j] = c[a + j]
        BY <1>3, <2>2, <4>2
      <4> QED BY <4>1, <4>3 DEF a
    <3>2. CASE ~(j <= L - a)
      <4> DEFINE q == j - (L - a)
      <4>1. q \in 1 .. N /\ a + j = L + q /\ j = Len(p) + q
        <5> HIDE DEF s
        <5> QED BY <1>1, <1>3, <2>2, <2>5, <3>2
      <4> HIDE DEF q
      <4>2. s[Len(p) + q] = cells[q] /\ d[L + q] = cells[q]
        BY <1>3, <2>4, <4>1 DEF Joined, N
      <4> HIDE DEF s
      <4> QED BY <4>1, <4>2 DEF a
    <3> QED BY <1>1, <2>2, <3>1, <3>2
  <2>7. Len(s) = Upto(k, z, Len(d)) - (k - 1) * z
    BY <2>3, <2>5 DEF M, a
  <2> HIDE DEF a, s, d
  <2>8. s = Part(d, k, z)
    BY <1>4, <2>1, <2>5, <2>6, <2>7, IsPart
  <2> QED BY <2>8 DEF s, p
<1> QED BY <1>4, <1>5, <1>6

\* What is read into the last buffer is committed.
LEMMA CommitIs ==
    ASSUME NEW m, NEW c, Mem(m, c), NEW cells \in Seq(FileCell), cells # <<>>,
           Len(cells) <= Room(m)
    PROVE  Mem(InMemCommit(m, cells), c \o cells)
<1>1. PICK z, k : Fits(c, z, k) /\ m = Shape(c, z, k) /\ (k = 1 \/ (k - 1) * z < Len(c))
  BY DEF Mem
<1>2. PICK l \in {k, k + 1} : Roomy(WithRoom(m), c, z, l) /\ Room(m) = l * z - Len(c)
  BY <1>1, WithRoomIs
<1> DEFINE d == c \o cells
           R == l * z
           last == MemBuffer(z, Part(c, l, z))
           B == Shape(c, z, l).blocks
           D == [B EXCEPT ![l] = AppendTo(@, cells)]
<1>3. Fits(c, z, l) /\ WithRoom(m) = Shape(c, z, l)
  BY <1>2 DEF Roomy
<1>4. /\ l \in Nat \ {0} /\ z \in Nat \ {0} /\ c \in Seq(FileCell) /\ R \in Nat /\ Len(c) <= R
      /\ l - 1 \in Nat
  <2>1. l \in Nat \ {0} /\ z \in Nat \ {0} /\ c \in Seq(FileCell) /\ Len(c) <= R
    BY <1>3 DEF Fits
  <2>2. R \in Nat
    BY <2>1, Multiples
  <2> HIDE DEF R
  <2> QED BY <2>1, <2>2
<1>5. Len(c) + Len(cells) <= R /\ Len(cells) \in Nat \ {0} /\ Len(c) \in Nat
  <2>1. Len(cells) \in Nat \ {0} /\ Len(c) \in Nat
    BY <1>4, EmptySeq
  <2>2. Len(cells) <= R - Len(c)
    BY <1>2
  <2> HIDE DEF R
  <2> QED BY <1>4, <2>1, <2>2
<1>6. /\ Fits(d, z, l)
      /\ \A i \in 1 .. l : i < l => Part(d, i, z) = Part(c, i, z)
      /\ Part(d, l, z) = Part(c, l, z) \o cells
  BY <1>3, <1>5, GrowLast
<1>7. /\ Shape(c, z, l).size = z /\ Len(B) = l /\ DOMAIN B = 1 .. l
      /\ \A i \in 1 .. l : B[i] = MemBuffer(z, Part(c, i, z))
      /\ Left(last) = R - Len(c)
  BY <1>3, ShapeIs
<1>8. AppendTo(last, cells) = MemBuffer(z, Part(d, l, z))
  <2>1. ~(Left(last) < Len(cells))
    <3> HIDE DEF last, R
    <3> QED BY <1>4, <1>5, <1>7
  <2>2. last = [capa |-> z, data |-> Part(c, l, z)]
    BY DEF MemBuffer
  <2> HIDE DEF last, d
  <2>3. AppendTo(last, cells) = [capa |-> z, data |-> Part(c, l, z) \o cells]
    BY <2>1, <2>2 DEF AppendTo
  <2> QED BY <1>6, <2>3 DEF MemBuffer
<1> HIDE DEF R, last, d
<1>9. D = Shape(d, z, l).blocks
  <2>1. l \in 1 .. l
    BY <1>4
  <2>2. ASSUME NEW i \in 1 .. l PROVE D[i] = MemBuffer(z, Part(d, i, z))
    <3> HIDE DEF B
    <3>1. CASE i = l
      BY <1>7, <1>8, <2>1, <3>1 DEF last
    <3>2. CASE i # l
      <4>1. i < l
        BY <1>4, <3>2
      <4> QED BY <1>6, <1>7, <3>2, <4>1
    <3> QED BY <3>1, <3>2
  <2>3. B = [i \in 1 .. l |-> B[i]]
    BY DEF Shape
  <2> HIDE DEF B
  <2>4. D = [i \in 1 .. l |-> D[i]]
    BY <2>3
  <2> HIDE DEF D
  <2> QED BY <2>2, <2>4 DEF Shape
<1>10. InMemCommit(m, cells) = Shape(d, z, l)
  <2>1. Shape(c, z, l) = [size |-> z, blocks |-> B] /\ Shape(d, z, l) = [size |-> z, blocks |-> Shape(d, z, l).blocks]
    BY DEF Shape
  <2>2. InMemCommit(m, cells) =
          [Shape(c, z, l) EXCEPT !.blocks[Len(Shape(c, z, l).blocks)] = AppendTo(@, cells)]
    BY <1>3 DEF InMemCommit
  <2>3. InMemCommit(m, cells) = [Shape(c, z, l) EXCEPT !.blocks[l] = AppendTo(@, cells)]
    BY <1>7, <2>2
  <2> HIDE DEF B
  <2>4. InMemCommit(m, cells) = [size |-> z, blocks |-> D]
    BY <2>1, <2>3
  <2> QED BY <1>9, <2>1, <2>4
<1>11. l = 1 \/ (l - 1) * z < Len(d)
  <2>1. (l - 1) * z <= Len(c) /\ (l - 1) * z \in Nat
    BY <1>3, <1>4, Multiples DEF Fits
  <2>2. Len(d) = Len(c) + Len(cells)
    BY <1>4, ConcatProperties DEF d
  <2> DEFINE K == (l - 1) * z
  <2>3. K < Len(d)
    <3>1. K <= Len(c) /\ K \in Nat
      BY <2>1
    <3> HIDE DEF K
    <3> QED BY <1>5, <2>2, <3>1
  <2> QED BY <2>3
<1> QED BY <1>6, <1>10, <1>11 DEF Mem, d

\* Behind buffers that are full, n new ones take more cells.
LEMMA AddFull ==
    ASSUME NEW e, NEW z, NEW l, Fits(e, z, l), Len(e) = l * z,
           NEW more \in Seq(FileCell), more # <<>>,
           NEW n, n = (Len(more) + z - 1) \div z
    PROVE  /\ n \in Nat /\ Fits(e \o more, z, l + n)
           /\ (l + n - 1) * z < Len(e \o more)
           /\ \A i \in 1 .. l : Part(e \o more, i, z) = Part(e, i, z)
           /\ \A q \in 1 .. n :
                /\ Cells(more, (q - 1) * z, z) = Part(e \o more, l + q, z)
                /\ Cells(more, (q - 1) * z, z) \in Seq(FileCell)
                /\ Len(Cells(more, (q - 1) * z, z)) <= z
<1> DEFINE d == e \o more
           L == Len(e)
           M == Len(more)
           r == (M + z - 1) % z
<1>1. /\ e \in Seq(FileCell) /\ z \in Nat \ {0} /\ l \in Nat \ {0} /\ L \in Nat /\ z > 0
      /\ M \in Nat \ {0}
  BY EmptySeq DEF Fits
<1>2. /\ n \in Nat /\ r \in 0 .. z - 1 /\ M + z - 1 = n * z + r
  <2>1. M + z - 1 \in Nat
    BY <1>1
  <2> QED BY <1>1, <2>1, Division
<1>3. /\ d \in Seq(FileCell) /\ Len(d) = L + M
      /\ (\A j \in 1 .. L : d[j] = e[j]) /\ \A j \in 1 .. M : d[L + j] = more[j]
  <2>1. Joined(d, e, more, FileCell)
    BY <1>1, ConcatIs
  <2> QED BY <2>1 DEF Joined
<1> HIDE DEF r, d
<1>4. n > 0
  <2>1. n = 0 => n * z = 0
    BY <1>1
  <2> HIDE DEF M
  <2> QED BY <1>1, <1>2, <2>1
<1>5. n * z \in Nat /\ n * z = (n - 1) * z + z /\ (n - 1) * z \in Nat
  <2>1. n - 1 \in Nat /\ (n - 1) + 1 = n
    BY <1>2, <1>4
  <2>2. (n - 1) * z \in Nat /\ ((n - 1) + 1) * z = (n - 1) * z + z
    BY <1>1, <2>1, Multiples
  <2> DEFINE K == (n - 1) * z
  <2>3. K \in Nat /\ n * z = K + z
    BY <2>1, <2>2
  <2> HIDE DEF K
  <2>4. n * z \in Nat
    BY <1>1, <2>3
  <2> QED BY <2>3, <2>4 DEF K
<1>6. (n - 1) * z < M /\ M <= n * z
  <2> DEFINE K == (n - 1) * z
             J == n * z
  <2>1. K \in Nat /\ J = K + z /\ M + z - 1 = J + r
    BY <1>2, <1>5
  <2> HIDE DEF K, J, M
  <2>2. K < M /\ M <= J
    BY <1>1, <1>2, <2>1
  <2> QED BY <2>2 DEF K, J
<1>7. \A i \in Nat : (l + i) * z = L + i * z /\ i * z \in Nat
  BY <1>1
<1>8. Fits(d, z, l + n) /\ (l + n - 1) * z < Len(d)
  <2> DEFINE K == (n - 1) * z
             J == n * z
  <2>1. (l + n) * z = L + J /\ (l + (n - 1)) * z = L + K /\ l + n - 1 = l + (n - 1)
        /\ (l + n) - 1 = l + (n - 1) /\ n - 1 \in Nat
    BY <1>1, <1>2, <1>4, <1>7
  <2>2. K \in Nat /\ J \in Nat /\ K < M /\ M <= J
    BY <1>5, <1>6
  <2> HIDE DEF K, J, M, L
  <2> DEFINE D == Len(d)
  <2>3. L + K < D /\ D <= L + J /\ l + n \in Nat \ {0}
    <3>1. l + n \in Nat \ {0}
      BY <1>1, <1>2
    <3>2. D = L + M
      BY <1>3
    <3> HIDE DEF D
    <3>3. L + K < D /\ D <= L + J
      BY <1>1, <2>2, <3>2
    <3> QED BY <3>1, <3>3
  <2>4. L + K <= Len(d)
    BY <1>1, <1>3, <2>2, <2>3
  <2> QED BY <1>1, <1>3, <2>1, <2>3, <2>4 DEF Fits
<1>9. ASSUME NEW i \in 1 .. l PROVE Part(d, i, z) = Part(e, i, z)
  <2> DEFINE a == (i - 1) * z
             b == Upto(i, z, L)
             s == Part(e, i, z)
  <2>1. i < l => b = i * z
    BY PartFacts
  <2>2. b = i * z
    <3>1. i = l => b = L
      BY PartFacts
    <3>2. i = l \/ i < l
      BY <1>1
    <3> HIDE DEF b
    <3> QED BY <2>1, <3>1, <3>2
  <2>3. /\ a \in Nat /\ b \in Nat /\ a <= b /\ b <= L
        /\ s \in Seq(FileCell) /\ Len(s) = b - a /\ \A j \in 1 .. (b - a) : s[j] = e[a + j]
    BY PartFacts, SMTT(30)
  <2>4. i \in 1 .. l + n /\ i < l + n
    BY <1>1, <1>2, <1>4
  <2>5. Upto(i, z, Len(d)) = i * z
    BY <1>8, <2>4, PartFacts
  <2> HIDE DEF b, s, L
  <2>6. ASSUME NEW j \in 1 .. Len(s) PROVE s[j] = d[(i - 1) * z + j]
    <3> HIDE DEF a
    <3>1. a + j \in 1 .. L
      BY <1>1, <2>3
    <3>2. s[j] = e[a + j] /\ d[a + j] = e[a + j]
      BY <1>3, <2>3, <3>1
    <3> QED BY <3>2 DEF a
  <2>7. Len(s) = Upto(i, z, Len(d)) - (i - 1) * z
    BY <2>2, <2>3, <2>5 DEF a
  <2> HIDE DEF a
  <2>8. s = Part(d, i, z)
    BY <1>8, <2>3, <2>4, <2>6, <2>7, IsPart
  <2> QED BY <2>8 DEF s
<1>10. ASSUME NEW q \in 1 .. n
       PROVE  LET s == Cells(more, (q - 1) * z, z)
              IN  s = Part(d, l + q, z) /\ s \in Seq(FileCell) /\ Len(s) <= z
  <2> DEFINE a == (q - 1) * z
             s == Cells(more, a, z)
  <2>1. q - 1 \in Nat /\ q - 1 <= n - 1 /\ n - 1 \in Nat /\ q \in Nat /\ (q - 1) + 1 = q
    BY <1>2
  <2>2. a \in Nat /\ q * z = a + z /\ a <= (n - 1) * z
    <3>1. a \in Nat /\ ((q - 1) + 1) * z = a + z
      BY <1>1, <2>1, Multiples
    <3>2. a <= (n - 1) * z
      BY <1>1, <2>1, Multiples
    <3> HIDE DEF a
    <3> QED BY <2>1, <3>1, <3>2
  <2>3. a < M
    <3> DEFINE K == (n - 1) * z
    <3>1. a <= K /\ K < M /\ K \in Nat
      BY <1>5, <1>6, <2>2
    <3> HIDE DEF a, K, M
    <3> QED BY <1>1, <2>2, <3>1
  <2> HIDE DEF a
  <2>4. PICK x \in a .. M : /\ Slice(s, more, a, x, FileCell)
                            /\ x = IF a + z < M THEN a + z ELSE M
    <3>1. a <= Len(more) /\ z \in Nat
      BY <1>1, <2>2, <2>3
    <3> QED BY <2>2, <3>1, CellsIs
  <2> HIDE DEF s
  <2>5. s \in Seq(FileCell) /\ Len(s) = x - a /\ \A j \in 1 .. x - a : s[j] = more[a + j]
    BY <2>4 DEF Slice
  <2>6. x \in Nat /\ a <= x /\ x <= M /\ x - a <= z
    <3> HIDE DEF M
    <3> QED BY <1>1, <2>2, <2>3, <2>4
  <2>7. ((l + q) - 1) * z = L + a /\ (l + q) * z = L + (a + z) /\ l + q \in 1 .. l + n
    <3>1. (l + q) - 1 = l + (q - 1) /\ l + q \in 1 .. l + n
      BY <1>1, <1>2
    <3> QED BY <1>7, <2>1, <2>2, <3>1 DEF a
  <2>8. Upto(l + q, z, Len(d)) = L + x
    <3>1. Upto(l + q, z, Len(d)) = IF L + (a + z) < L + M THEN L + (a + z) ELSE L + M
      BY <1>3, <2>7 DEF Upto
    <3> HIDE DEF L, M
    <3> QED BY <1>1, <2>2, <2>4, <3>1
  <2>9. Len(s) = Upto(l + q, z, Len(d)) - ((l + q) - 1) * z
    <3> HIDE DEF L, M
    <3>1. (L + x) - (L + a) = x - a
      BY <1>1, <2>2, <2>6
    <3> QED BY <2>5, <2>7, <2>8, <3>1
  <2>10. ASSUME NEW j \in 1 .. Len(s) PROVE s[j] = d[((l + q) - 1) * z + j]
    <3> HIDE DEF L, M
    <3>1. a + j \in 1 .. M /\ (L + a) + j = L + (a + j) /\ j \in 1 .. x - a
      BY <1>1, <2>2, <2>5, <2>6
    <3>2. s[j] = more[a + j] /\ d[L + (a + j)] = more[a + j]
      BY <1>3, <2>5, <3>1
    <3> QED BY <2>7, <3>1, <3>2
  <2>11. s = Part(d, l + q, z)
    BY <1>8, <2>5, <2>7, <2>9, <2>10, IsPart
  <2>12. Len(s) <= z
    BY <2>5, <2>6
  <2> QED BY <2>5, <2>11, <2>12 DEF s, a
<1> QED BY <1>2, <1>8, <1>9, <1>10 DEF d

\* The last element of B is replaced by x, and others are added.
Replaced(D, B, x, added, S) ==
    /\ D \in Seq(S) /\ Len(D) = Len(B) + Len(added) /\ D[Len(B)] = x
    /\ \A i \in 1 .. Len(B) - 1 : D[i] = B[i]
    /\ \A q \in 1 .. Len(added) : D[Len(B) + q] = added[q]

LEMMA ReplaceLast ==
    ASSUME NEW S, NEW B \in Seq(S), B # <<>>, NEW x \in S, NEW added \in Seq(S)
    PROVE  Replaced(Front(B) \o <<x>> \o added, B, x, added, S)
<1> DEFINE l == Len(B)
           A == Front(B)
           C == A \o <<x>>
           D == C \o added
<1>1. l \in Nat \ {0} /\ Len(added) \in Nat
  BY EmptySeq
<1>2. A \in Seq(S) /\ Len(A) = l - 1 /\ \A i \in 1 .. l - 1 : A[i] = B[i]
  <2>1. 0 + 1 = 1 /\ 0 \in Nat /\ l - 1 \in Nat /\ 0 <= l - 1 /\ l - 1 <= Len(B)
    BY <1>1
  <2> DEFINE k == l - 1
  <2>2. k \in Nat /\ 0 <= k /\ k <= Len(B)
    BY <2>1
  <2> HIDE DEF k
  <2>3. Slice(SubSeq(B, 0 + 1, k), B, 0, k, S)
    BY <2>1, <2>2, SliceIs
  <2>4. Slice(A, B, 0, k, S)
    BY <2>1, <2>3 DEF Front, k
  <2> HIDE DEF A
  <2>5. k - 0 = k /\ \A i \in 1 .. k : 0 + i = i
    BY <2>2
  <2> QED BY <2>4, <2>5 DEF Slice, k
<1> HIDE DEF A
<1>3. Joined(C, A, <<x>>, S)
  <2>1. <<x>> \in Seq(S)
    OBVIOUS
  <2> QED BY <1>2, <2>1, ConcatIs
<1>4. C \in Seq(S) /\ Len(C) = l /\ C[l] = x /\ \A i \in 1 .. l - 1 : C[i] = B[i]
  <2>1. Len(<<x>>) = 1 /\ <<x>>[1] = x /\ 1 \in 1 .. Len(<<x>>)
    OBVIOUS
  <2>2. C \in Seq(S) /\ Len(C) = Len(A) + 1
    BY <1>3, <2>1 DEF Joined
  <2>3. C[Len(A) + 1] = x
    BY <1>3, <2>1 DEF Joined
  <2>4. \A i \in 1 .. l - 1 : C[i] = A[i]
    BY <1>2, <1>3 DEF Joined
  <2>5. (l - 1) + 1 = l
    BY <1>1
  <2> HIDE DEF C, l
  <2> QED BY <1>2, <2>2, <2>3, <2>4, <2>5
<1> HIDE DEF C
<1>5. Joined(D, C, added, S)
  BY <1>4, ConcatIs
<1> HIDE DEF D
<1>6. /\ D \in Seq(S) /\ Len(D) = l + Len(added)
      /\ (\A i \in 1 .. l : D[i] = C[i]) /\ \A q \in 1 .. Len(added) : D[l + q] = added[q]
  BY <1>4, <1>5 DEF Joined
<1>7. l \in 1 .. l /\ \A i \in 1 .. l - 1 : i \in 1 .. l
  BY <1>1
<1>8. D[l] = x /\ \A i \in 1 .. l - 1 : D[i] = B[i]
  BY <1>4, <1>6, <1>7
<1>9. Replaced(D, B, x, added, S)
  BY <1>6, <1>8 DEF Replaced
<1> QED BY <1>9 DEF D, C, A

LEMMA AppendIs ==
    ASSUME NEW m, NEW c, Mem(m, c), NEW cells \in Seq(FileCell), cells # <<>>
    PROVE  Mem(InMemAppend(m, cells), c \o cells)
<1>1. PICK z, k : Fits(c, z, k) /\ m = Shape(c, z, k) /\ (k = 1 \/ (k - 1) * z < Len(c))
  BY DEF Mem
<1>2. PICK l \in {k, k + 1} : Roomy(WithRoom(m), c, z, l) /\ Room(m) = l * z - Len(c)
  BY <1>1, WithRoomIs
<1> DEFINE R == l * z
           last == MemBuffer(z, Part(c, l, z))
           B == Shape(c, z, l).blocks
           room == R - Len(c)
           head == Cells(cells, 0, room)
           more == SubSeq(cells, room + 1, Len(cells))
           e == c \o head
           d == c \o cells
           n == (Len(more) + z - 1) \div z
           added == [i \in 1 .. n |-> AppendTo(NewBuffer(z), Cells(more, (i - 1) * z, z))]
           x == AppendTo(last, head)
           D == Front(B) \o <<x>> \o added
           T == {MemBuffer(z, s) : s \in Seq(FileCell)}
<1>3. Fits(c, z, l) /\ WithRoom(m) = Shape(c, z, l) /\ Len(c) < R
  BY <1>2 DEF Roomy
<1>4. /\ l \in Nat \ {0} /\ z \in Nat \ {0} /\ c \in Seq(FileCell) /\ R \in Nat
      /\ l - 1 \in Nat /\ Len(c) \in Nat /\ Len(cells) \in Nat \ {0} /\ z > 0 /\ z - 1 \in Nat
  <2>1. l \in Nat \ {0} /\ z \in Nat \ {0} /\ c \in Seq(FileCell)
    BY <1>3 DEF Fits
  <2>2. R \in Nat
    BY <2>1, Multiples
  <2> HIDE DEF R
  <2> QED BY <2>1, <2>2, EmptySeq
<1>5. /\ Shape(c, z, l).size = z /\ Len(B) = l /\ DOMAIN B = 1 .. l
      /\ \A i \in 1 .. l : B[i] = MemBuffer(z, Part(c, i, z))
      /\ Last(B) = last /\ Left(last) = room
  BY <1>3, ShapeIs
<1>6. InMemAppend(m, cells) = [size |-> z, blocks |-> D]
  <2> DEFINE V(w, v, u) ==
               [w EXCEPT !.blocks =
                  Front(@) \o <<AppendTo(Last(@), Cells(cells, 0, v))>>
                  \o [i \in 1 .. (Len(SubSeq(cells, v + 1, Len(cells))) + u - 1) \div u |->
                        AppendTo(NewBuffer(u), Cells(SubSeq(cells, v + 1, Len(cells)), (i - 1) * u, u))]]
             W == Shape(c, z, l)
  <2>1. InMemAppend(m, cells) = V(WithRoom(m), Left(Last(WithRoom(m).blocks)), m.size)
    BY Zenon DEF InMemAppend
  <2>2. W = [size |-> z, blocks |-> B] /\ m.size = z
    BY <1>1 DEF Shape
  <2>3. WithRoom(m) = W /\ Left(Last(WithRoom(m).blocks)) = room
    <3> HIDE DEF W, last, room
    <3> QED BY <1>3, <1>5 DEF W
  <2>4. InMemAppend(m, cells) = V(W, room, z)
    <3> HIDE DEF V, W, room
    <3> QED BY <2>1, <2>2, <2>3
  <2>5. V(W, room, z) =
           [W EXCEPT !.blocks = Front(@) \o <<AppendTo(Last(@), head)>> \o added]
    BY Zenon
  <2> HIDE DEF W, V, head, added, last, B, room
  <2>6. V(W, room, z) = [size |-> z, blocks |-> Front(B) \o <<AppendTo(Last(B), head)>> \o added]
    BY <2>2, <2>5
  <2> QED BY <1>5, <2>4, <2>6
<1>7. room \in Nat \ {0} /\ Len(c) + room = R
  <2> HIDE DEF R
  <2> QED BY <1>3, <1>4
<1> HIDE DEF room
<1>8. PICK y \in 0 .. Len(cells) :
         /\ head = SubSeq(cells, 0 + 1, y) /\ Slice(head, cells, 0, y, FileCell)
         /\ y = IF 0 + room < Len(cells) THEN 0 + room ELSE Len(cells)
  <2>1. 0 \in Nat /\ room \in Nat /\ 0 <= Len(cells)
    BY <1>4, <1>7
  <2> QED BY <2>1, CellsIs
<1>9. head \in Seq(FileCell) /\ Len(head) = y /\ y \in Nat /\ y <= room /\ y <= Len(cells)
  <2>1. head \in Seq(FileCell) /\ Len(head) = y - 0
    BY <1>8 DEF Slice
  <2> HIDE DEF head
  <2> QED BY <1>4, <1>7, <1>8, <2>1
<1> HIDE DEF head
<1>10. Len(c) + Len(head) <= R
  <2> HIDE DEF R
  <2> QED BY <1>4, <1>7, <1>9
<1>11. /\ Fits(e, z, l)
       /\ \A i \in 1 .. l : i < l => Part(e, i, z) = Part(c, i, z)
       /\ Part(e, l, z) = Part(c, l, z) \o head
  BY <1>3, <1>9, <1>10, GrowLast, SMTT(30)
<1>12. x = MemBuffer(z, Part(e, l, z)) /\ Part(e, l, z) \in Seq(FileCell)
  <2>1. ~(Left(last) < Len(head))
    <3> HIDE DEF last, R
    <3> QED BY <1>4, <1>5, <1>7, <1>9
  <2>2. last = [capa |-> z, data |-> Part(c, l, z)]
    BY DEF MemBuffer
  <2>3. l \in 1 .. l
    BY <1>4
  <2> HIDE DEF last, e
  <2>4. x = [capa |-> z, data |-> Part(c, l, z) \o head]
    BY <2>1, <2>2 DEF AppendTo
  <2> HIDE DEF x
  <2> QED BY <1>11, <2>3, <2>4, PartFacts DEF MemBuffer
<1>13. d = e \o more /\ more \in Seq(FileCell) /\ e \in Seq(FileCell)
       /\ (more = <<>> => y = Len(cells)) /\ (more # <<>> => y = room)
  <2>1. CASE room < Len(cells)
    <3>1. y = room /\ head = SubSeq(cells, 1, room)
      <4>1. 0 + room = room /\ 0 + 1 = 1
        BY <1>7
      <4> QED BY <1>8, <2>1, <4>1
    <3>2. room \in Nat /\ room <= Len(cells) /\ Len(cells) <= Len(cells)
      BY <1>4, <1>7, <2>1
    <3>3. SubSeq(cells, 1, room) \o more = cells
      BY <3>2, HeadTail
    <3>5. Slice(more, cells, room, Len(cells), FileCell)
      BY <1>4, <3>2, SliceIs
    <3>6. more \in Seq(FileCell) /\ Len(more) = Len(cells) - room
      BY <3>5 DEF Slice
    <3>7. more # <<>>
      <4> HIDE DEF more
      <4> QED BY <1>4, <1>7, <2>1, <3>6
    <3> HIDE DEF more
    <3>8. head \o more = cells
      BY <3>1, <3>3
    <3>9. c \o (head \o more) = (c \o head) \o more
      <4>1. c \in Seq(FileCell) /\ head \in Seq(FileCell) /\ more \in Seq(FileCell)
        BY <1>4, <1>9, <3>6
      <4> QED BY <4>1, ConcatAssociative, SMTT(30)
    <3>10. e \in Seq(FileCell)
      BY <1>4, <1>9, ConcatProperties
    <3> QED BY <3>1, <3>6, <3>7, <3>8, <3>9, <3>10
  <2>2. CASE ~(room < Len(cells))
    <3>1. y = Len(cells) /\ head = SubSeq(cells, 0 + 1, Len(cells))
      BY <1>7, <1>8, <2>2
    <3>2. head = cells
      <4>1. 0 + 1 = 1
        OBVIOUS
      <4> QED BY <3>1, <4>1
    <3>3. more = <<>>
      <4>1. room + 1 > Len(cells)
        BY <1>4, <1>7, <2>2
      <4> QED BY <1>4, <1>7, <4>1, SubSeqEmpty
    <3>4. e = d /\ e \in Seq(FileCell) /\ d \o <<>> = d /\ <<>> \in Seq(FileCell)
      <4>1. d \in Seq(FileCell)
        BY <1>4, ConcatProperties
      <4> HIDE DEF d
      <4> QED BY <3>2, <4>1, ConcatEmptySeq, EmptySeq DEF d
    <3> QED BY <3>1, <3>3, <3>4
  <2> QED BY <2>1, <2>2
<1> HIDE DEF more
<1>14. /\ n \in Nat /\ Fits(d, z, l + n) /\ (l + n = 1 \/ (l + n - 1) * z < Len(d))
       /\ \A i \in 1 .. l : Part(d, i, z) = Part(e, i, z)
       /\ \A q \in 1 .. n :
             /\ Cells(more, (q - 1) * z, z) = Part(d, l + q, z)
             /\ Cells(more, (q - 1) * z, z) \in Seq(FileCell)
             /\ Len(Cells(more, (q - 1) * z, z)) <= z
  <2>1. CASE more = <<>>
    <3>1. n = 0
      <4>1. Len(more) = 0 /\ 0 + z - 1 = z - 1
        BY <1>4, <2>1
      <4>2. (z - 1) \div z = 0
        <5> DEFINE q == (z - 1) \div z
                   w == (z - 1) % z
        <5>1. q \in Nat /\ w \in 0 .. z - 1 /\ z - 1 = q * z + w
          BY <1>4, Division
        <5>2. q >= 1 => 1 * z <= q * z /\ 1 * z = z /\ q * z \in Nat
          BY <1>4, <5>1, Multiples
        <5> DEFINE P == q * z
        <5>3. P \in Nat /\ z - 1 = P + w /\ (q >= 1 => z <= P)
          BY <1>4, <5>1, <5>2
        <5> HIDE DEF P, q, w
        <5>4. q = 0
          BY <1>4, <5>1, <5>3
        <5> QED BY <5>4 DEF q
      <4> QED BY <4>1, <4>2
    <3>2. e = d
      BY <1>13, <2>1, ConcatEmptySeq
    <3>3. l + n = l /\ n \in Nat /\ \A q \in 1 .. n : FALSE
      BY <1>4, <3>1
    <3>4. l = 1 \/ (l - 1) * z < Len(d)
      <4>1. (l - 1) * z <= Len(c) /\ (l - 1) * z \in Nat
        BY <1>3, <1>4, Multiples DEF Fits
      <4>2. Len(d) = Len(c) + Len(cells)
        BY <1>4, ConcatProperties
      <4> DEFINE K == (l - 1) * z
      <4>3. K < Len(d)
        <5>1. K <= Len(c) /\ K \in Nat
          BY <4>1
        <5> HIDE DEF K, d
        <5> QED BY <1>4, <4>2, <5>1
      <4> QED BY <4>3
    <3> HIDE DEF n, d, e
    <3>5. Fits(d, z, l + n) /\ \A i \in 1 .. l : Part(d, i, z) = Part(e, i, z)
      BY <1>11, <3>2, <3>3
    <3>6. l + n - 1 = l - 1
      BY <1>4, <3>3
    <3> QED BY <3>3, <3>4, <3>5, <3>6
  <2>2. CASE more # <<>>
    <3>1. Len(e) = l * z
      <4>1. Len(e) = Len(c) + room
        BY <1>4, <1>9, <1>13, <2>2, ConcatProperties
      <4> HIDE DEF e
      <4> QED BY <1>7, <4>1
    <3> HIDE DEF e
    <3>2. n = (Len(more) + z - 1) \div z
      OBVIOUS
    <3> HIDE DEF n, d
    <3> QED BY <1>11, <1>13, <2>2, <3>1, <3>2, AddFull
  <2> QED BY <2>1, <2>2
<1> HIDE DEF e, d, n
<1>15. ASSUME NEW q \in 1 .. n PROVE added[q] = MemBuffer(z, Part(d, l + q, z)) /\ added[q] \in T
  <2> DEFINE s == Cells(more, (q - 1) * z, z)
             b == NewBuffer(z)
  <2>1. s = Part(d, l + q, z) /\ s \in Seq(FileCell) /\ Len(s) <= z /\ Len(s) \in Nat
    <3>1. s = Part(d, l + q, z) /\ s \in Seq(FileCell) /\ Len(s) <= z
      BY <1>14, Zenon
    <3> HIDE DEF s
    <3> QED BY <3>1
  <2>2. b = [capa |-> z, data |-> <<>>] /\ Len(<<>>) = 0 /\ z - 0 = z
    BY <1>4 DEF NewBuffer
  <2>3. added[q] = AppendTo(b, s)
    OBVIOUS
  <2> HIDE DEF s, b, added
  <2>4. ~(Left(b) < Len(s))
    <3>1. Left(b) = z
      BY <2>2 DEF Left
    <3> QED BY <1>4, <2>1, <3>1
  <2>5. <<>> \o s = s
    BY <2>1, ConcatEmptySeq
  <2>6. added[q] = [capa |-> z, data |-> s]
    BY <2>2, <2>3, <2>4, <2>5 DEF AppendTo
  <2>7. added[q] = MemBuffer(z, s)
    BY <2>6 DEF MemBuffer
  <2> QED BY <2>1, <2>7
<1>16. added \in Seq(T) /\ Len(added) = n
  <2>1. added = [i \in 1 .. n |-> added[i]]
    OBVIOUS
  <2> HIDE DEF added, T
  <2> QED BY <1>14, <1>15, <2>1, SMTT(30)
<1> HIDE DEF added
<1>17. x \in T /\ B \in Seq(T) /\ B # <<>>
  <2>1. x \in T
    BY <1>12
  <2>2. \A i \in 1 .. l : B[i] \in T
    BY <1>3, <1>5, PartFacts
  <2>3. B = [i \in 1 .. l |-> B[i]] /\ l \in Nat
    BY <1>4 DEF Shape
  <2> HIDE DEF B, T, x
  <2>4. B \in Seq(T)
    BY <2>2, <2>3
  <2> QED BY <1>4, <1>5, <2>1, <2>4
<1> HIDE DEF T, x, B
<1>18. /\ D \in Seq(T) /\ Len(D) = l + n /\ D[l] = x
       /\ (\A i \in 1 .. l - 1 : D[i] = B[i]) /\ \A q \in 1 .. n : D[l + q] = added[q]
  <2>1. Replaced(D, B, x, added, T)
    BY <1>16, <1>17, ReplaceLast
  <2> HIDE DEF D
  <2>2. /\ D \in Seq(T) /\ Len(D) = Len(B) + Len(added) /\ D[Len(B)] = x
        /\ \A i \in 1 .. Len(B) - 1 : D[i] = B[i]
        /\ \A q \in 1 .. Len(added) : D[Len(B) + q] = added[q]
    BY <2>1 DEF Replaced
  <2> QED BY <1>5, <1>16, <2>2
<1> HIDE DEF D
<1>19. ASSUME NEW i \in 1 .. l + n PROVE D[i] = MemBuffer(z, Part(d, i, z))
  <2>1. CASE i < l
    <3>1. i \in 1 .. l - 1 /\ i \in 1 .. l
      BY <1>4, <2>1
    <3> QED BY <1>5, <1>11, <1>14, <1>18, <2>1, <3>1
  <2>2. CASE i = l
    <3>1. l \in 1 .. l
      BY <1>4
    <3> QED BY <1>12, <1>14, <1>18, <2>2, <3>1
  <2>3. CASE i > l
    <3> DEFINE q == i - l
    <3>1. q \in 1 .. n /\ i = l + q
      BY <1>4, <1>14, <2>3
    <3> HIDE DEF q
    <3> QED BY <1>15, <1>18, <3>1
  <2> QED BY <1>4, <1>14, <2>1, <2>2, <2>3
<1>20. InMemAppend(m, cells) = Shape(d, z, l + n)
  <2>1. D = [i \in 1 .. l + n |-> D[i]]
    <3>1. D \in [1 .. Len(D) -> T]
      BY <1>18, LenProperties
    <3> QED BY <1>18, <3>1
  <2>2. D = [i \in 1 .. l + n |-> MemBuffer(z, Part(d, i, z))]
    BY <1>19, <2>1
  <2> QED BY <1>6, <2>2 DEF Shape
<1>21. /\ Fits(d, z, l + n) /\ InMemAppend(m, cells) = Shape(d, z, l + n)
       /\ l + n = 1 \/ ((l + n) - 1) * z < Len(d)
  <2>1. (l + n) - 1 = l + n - 1
    BY <1>4, <1>14
  <2> QED BY <1>14, <1>20, <2>1
<1>22. Mem(InMemAppend(m, cells), d)
  <2> DEFINE p == l + n
             A == InMemAppend(m, cells)
  <2>1. Fits(d, z, p) /\ A = Shape(d, z, p) /\ (p = 1 \/ (p - 1) * z < Len(d))
    BY <1>21
  <2> HIDE DEF p, A
  <2>2. Mem(A, d)
    BY <2>1 DEF Mem
  <2> QED BY <2>2 DEF A
<1> QED BY <1>22 DEF d

LEMMA NewMem ==
    ASSUME NEW z \in Nat \ {0}
    PROVE  Mem(NewInMem(z), <<>>)
<1>1. Fits(<<>>, z, 1)
  <2>1. (1 - 1) * z = 0 /\ 1 * z = z /\ <<>> \in Seq(FileCell) /\ Len(<<>>) = 0
    BY EmptySeq
  <2> QED BY <2>1 DEF Fits
<1>2. Part(<<>>, 1, z) = <<>>
  <2>1. (1 - 1) * z = 0 /\ Len(<<>>) = 0 /\ ~(1 * z < 0)
    OBVIOUS
  <2> HIDE DEF Upto
  <2>2. Upto(1, z, Len(<<>>)) = 0
    BY <2>1 DEF Upto
  <2>3. Part(<<>>, 1, z) = SubSeq(<<>>, 0 + 1, 0)
    BY <2>1, <2>2 DEF Part
  <2> QED BY <2>3, SliceNone
<1>3. NewInMem(z) = Shape(<<>>, z, 1)
  <2>1. [i \in 1 .. 1 |-> MemBuffer(z, Part(<<>>, i, z))] = <<MemBuffer(z, <<>>)>>
    BY <1>2
  <2> QED BY <2>1 DEF NewInMem, NewBuffer, Shape, MemBuffer
<1> QED BY <1>1, <1>3 DEF Mem

\* A file on disk is read as one buffer.
LEMMA OfDiskIs ==
    ASSUME NEW c \in Seq(FileCell), c # <<>>
    PROVE  Mem(OfDisk(c), c)
<1> DEFINE z == Len(c)
<1>1. z \in Nat \ {0}
  BY EmptySeq
<1>2. (1 - 1) * z = 0 /\ 1 * z = z /\ 0 <= z /\ z <= z /\ ~(z < z)
  BY <1>1
<1>3. Fits(c, z, 1)
  BY <1>1, <1>2 DEF Fits
<1>4. Part(c, 1, z) = c
  <2>1. Upto(1, z, Len(c)) = z
    BY <1>2 DEF Upto
  <2>2. Part(c, 1, z) = SubSeq(c, 0 + 1, Len(c))
    BY <1>2, <2>1 DEF Part
  <2>3. 0 + 1 = 1
    OBVIOUS
  <2> QED BY <2>2, <2>3
<1>5. OfDisk(c) = Shape(c, z, 1)
  <2>1. [i \in 1 .. 1 |-> MemBuffer(z, Part(c, i, z))] = <<MemBuffer(z, c)>>
    BY <1>4
  <2> QED BY <2>1 DEF OfDisk, Shape, MemBuffer
<1> QED BY <1>3, <1>5 DEF Mem

LEMMA ShapeData ==
    ASSUME NEW m, NEW c, NEW z, NEW k, Fits(c, z, k), m = Shape(c, z, k)
    PROVE  /\ DOMAIN m.blocks = 1 .. k /\ Len(m.blocks) = k /\ m.size = z
           /\ \A i \in 1 .. k : m.blocks[i].data = Part(c, i, z)
<1> DEFINE B == Shape(c, z, k).blocks
<1>1. /\ Shape(c, z, k).size = z /\ Len(B) = k /\ DOMAIN B = 1 .. k
      /\ \A i \in 1 .. k : B[i] = MemBuffer(z, Part(c, i, z))
  BY ShapeIs
<1>2. m.blocks = B /\ m.size = Shape(c, z, k).size
  OBVIOUS
<1> HIDE DEF B
<1>3. ASSUME NEW i \in 1 .. k PROVE m.blocks[i].data = Part(c, i, z)
  <2>1. m.blocks[i] = MemBuffer(z, Part(c, i, z))
    BY <1>1, <1>2
  <2>2. MemBuffer(z, Part(c, i, z)).data = Part(c, i, z)
    BY DEF MemBuffer
  <2> QED BY <2>1, <2>2
<1> QED BY <1>1, <1>2, <1>3

LEMMA OneCell ==
    ASSUME NEW S, NEW c \in Seq(S), NEW i \in 1 .. Len(c)
    PROVE  SubSeq(c, i, i) = <<c[i]>>
<1> DEFINE t == SubSeq(c, i, i)
<1>1. t \in Seq(S) /\ Len(t) = 1 /\ t[1] = c[i] /\ c[i] \in S
  <2>1. i \in Nat /\ i - 1 \in Nat /\ i - 1 <= i /\ i <= Len(c) /\ (i - 1) + 1 = i /\ i - (i - 1) = 1
    OBVIOUS
  <2>2. Slice(SubSeq(c, (i - 1) + 1, i), c, i - 1, i, S)
    BY <2>1, SliceIs
  <2>3. Slice(t, c, i - 1, i, S)
    BY <2>1, <2>2
  <2> HIDE DEF t
  <2> QED BY <2>1, <2>3 DEF Slice
<1> HIDE DEF t
<1>2. t = <<c[i]>>
  BY <1>1
<1> QED BY <1>2 DEF t

LEMMA ContentIs ==
    ASSUME NEW m, NEW c, Mem(m, c)
    PROVE  InMemContent(m) = c /\ InMemSize(m) = Len(c) /\ c \in Seq(FileCell)
<1>1. PICK z, k : Fits(c, z, k) /\ m = Shape(c, z, k)
  BY DEF Mem
<1>2. c \in Seq(FileCell) /\ z \in Nat \ {0} /\ k \in Nat \ {0} /\ Len(c) \in Nat
  BY <1>1 DEF Fits
<1> DEFINE ss == [i \in 1 .. k |-> Part(c, i, z)]
           o == [i \in 0 .. k |-> Upto(i, z, Len(c))]
<1>3. ss \in Seq(Seq(FileCell)) /\ Len(ss) = k
  <2>1. \A i \in 1 .. k : Part(c, i, z) \in Seq(FileCell)
    BY <1>1, PartFacts
  <2> QED BY <1>2, <2>1
<1>4. InMemContent(m) = FlattenSeq(ss)
  <2>1. DOMAIN m.blocks = 1 .. k /\ \A i \in 1 .. k : m.blocks[i].data = Part(c, i, z)
    BY <1>1, ShapeData
  <2>2. [i \in DOMAIN m.blocks |-> m.blocks[i].data] = ss
    BY <2>1
  <2> HIDE DEF ss
  <2> QED BY <2>2 DEF InMemContent
<1>5. o[0] = 0
  <2>1. 0 * z = 0 /\ 0 \in 0 .. k
    BY <1>2, Multiples
  <2>2. Upto(0, z, Len(c)) = 0
    BY <1>2, <2>1 DEF Upto
  <2> QED BY <2>1, <2>2
<1>6. ASSUME NEW i \in 1 .. k
      PROVE  /\ i - 1 \in 0 .. k /\ i \in 0 .. k
             /\ o[i] \in 0 .. Len(c) /\ o[i - 1] <= o[i]
             /\ ss[i] = SubSeq(c, o[i - 1] + 1, o[i])
  <2>1. i - 1 \in 0 .. k /\ i \in 0 .. k
    BY <1>2
  <2>2. o[i - 1] = Upto(i - 1, z, Len(c)) /\ o[i] = Upto(i, z, Len(c))
    BY <2>1
  <2>3. /\ Upto(i, z, Len(c)) \in 0 .. Len(c)
        /\ Upto(i - 1, z, Len(c)) = (i - 1) * z
        /\ (i - 1) * z <= Upto(i, z, Len(c))
    <3> DEFINE a == (i - 1) * z
               b == Upto(i, z, Len(c))
    <3>1. a \in Nat /\ b \in Nat /\ a <= b /\ b <= Len(c) /\ Upto(i - 1, z, Len(c)) = a
      BY <1>1, PartFacts
    <3> HIDE DEF b
    <3> QED BY <1>2, <3>1 DEF b
  <2>4. ss[i] = SubSeq(c, (i - 1) * z + 1, Upto(i, z, Len(c)))
    BY DEF Part
  <2> HIDE DEF o, ss
  <2> QED BY <2>1, <2>2, <2>3, <2>4
<1>7. o[k] = Len(c)
  <2>1. k \in 1 .. k /\ k \in 0 .. k
    BY <1>2
  <2>2. Upto(k, z, Len(c)) = Len(c)
    BY <1>1, <2>1, PartFacts
  <2> QED BY <2>1, <2>2
<1>8. Tiles(c, ss, o, FileCell)
  <2>1. ASSUME NEW i \in 0 .. k PROVE o[i] \in 0 .. Len(c)
    <3>1. CASE i = 0
      BY <1>2, <1>5, <3>1
    <3>2. CASE i # 0
      <4>1. i \in 1 .. k
        BY <1>2, <3>2
      <4> QED BY <1>6, <4>1
    <3> QED BY <3>1, <3>2
  <2>2. o \in [0 .. k -> 0 .. Len(c)]
    <3>1. o = [i \in 0 .. k |-> o[i]]
      OBVIOUS
    <3> HIDE DEF o
    <3> QED BY <2>1, <3>1
  <2> HIDE DEF o, ss
  <2> QED BY <1>2, <1>3, <1>6, <2>2 DEF Tiles
<1> HIDE DEF o, ss
<1>9. FlattenSeq(ss) = SubSeq(c, 0 + 1, Len(c))
  BY <1>3, <1>5, <1>7, <1>8, TilesFlatten
<1>10. FlattenSeq(ss) = c
  <2>1. 0 + 1 = 1 /\ SubSeq(c, 1, Len(c)) = c
    BY <1>2
  <2> QED BY <1>9, <2>1
<1> QED BY <1>2, <1>4, <1>10 DEF InMemSize

\* The buffers of a file that is not empty.
LEMMA NotEmptyParts ==
    ASSUME NEW c, NEW z, NEW k, Fits(c, z, k), c # <<>>, k = 1 \/ (k - 1) * z < Len(c),
           NEW i \in 1 .. k
    PROVE  Part(c, i, z) # <<>> /\ (i - 1) * z < Upto(i, z, Len(c))
<1> DEFINE a == (i - 1) * z
           b == Upto(i, z, Len(c))
           K == (k - 1) * z
           p == Part(c, i, z)
<1>1. c \in Seq(FileCell) /\ z \in Nat /\ z > 0 /\ k \in Nat \ {0} /\ Len(c) \in Nat \ {0}
  BY EmptySeq DEF Fits
<1>2. /\ a \in Nat /\ b \in Nat /\ a <= b
      /\ i < k => b - a = z
      /\ i = k => b = Len(c)
      /\ p \in Seq(FileCell) /\ Len(p) = b - a
  BY PartFacts
<1>3. i = k => a = K
  OBVIOUS
<1>4. k = 1 => K = 0
  BY <1>1
<1>5. K < Len(c)
  <2>1. k = 1 \/ K < Len(c)
    OBVIOUS
  <2> HIDE DEF K
  <2> QED BY <1>1, <1>4, <2>1
<1>6. i = k \/ i < k
  BY <1>1
<1> HIDE DEF a, b, K, p
<1>7. a < b
  BY <1>1, <1>2, <1>3, <1>5, <1>6
<1>8. p # <<>>
  BY <1>2, <1>7
<1> QED BY <1>7, <1>8 DEF a, b, p

LEMMA SpansIs ==
    ASSUME NEW m, NEW c, Mem(m, c), c # <<>>
    PROVE  \E z, k :
              /\ Fits(c, z, k) /\ m = Shape(c, z, k)
              /\ Len(Spans(m)) = k /\ \A i \in 1 .. k : Spans(m)[i] = Part(c, i, z)
<1>1. PICK z, k : Fits(c, z, k) /\ m = Shape(c, z, k) /\ (k = 1 \/ (k - 1) * z < Len(c))
  BY DEF Mem
<1>2. c \in Seq(FileCell) /\ z \in Nat \ {0} /\ k \in Nat \ {0} /\ Len(c) \in Nat
  BY <1>1 DEF Fits
<1> DEFINE P == [i \in 1 .. k |-> Part(c, i, z)]
           S == Seq(FileCell)
           ss == [i \in 1 .. k |-> <<P[i]>>]
           o == [i \in 0 .. k |-> i]
<1>3. P \in Seq(S) /\ Len(P) = k /\ \A i \in 1 .. k : P[i] \in S /\ P[i] = Part(c, i, z)
  <2>1. \A i \in 1 .. k : Part(c, i, z) \in Seq(FileCell)
    BY <1>1, PartFacts
  <2> QED BY <1>2, <2>1
<1>4. Spans(m) = FlattenSeq(ss)
  <2>1. DOMAIN m.blocks = 1 .. k /\ \A i \in 1 .. k : m.blocks[i].data = Part(c, i, z)
    BY <1>1, ShapeData
  <2>2. \A i \in 1 .. k : P[i] # <<>>
    BY <1>1, <1>3, NotEmptyParts
  <2>3. \A i \in DOMAIN m.blocks :
           (IF m.blocks[i].data = <<>> THEN <<>> ELSE <<m.blocks[i].data>>) = <<P[i]>>
    BY <1>3, <2>1, <2>2
  <2>4. [i \in DOMAIN m.blocks |->
           IF m.blocks[i].data = <<>> THEN <<>> ELSE <<m.blocks[i].data>>] = ss
    <3> HIDE DEF P
    <3> QED BY <2>1, <2>3
  <2> HIDE DEF ss
  <2> QED BY <2>4 DEF Spans
<1> HIDE DEF P, S
<1>5. ss \in Seq(Seq(S)) /\ Len(ss) = k
  <2>1. \A i \in 1 .. k : <<P[i]>> \in Seq(S)
    BY <1>3
  <2> QED BY <1>2, <2>1
<1>6. ASSUME NEW i \in 1 .. k
      PROVE  o[i - 1] <= o[i] /\ ss[i] = SubSeq(P, o[i - 1] + 1, o[i])
  <2>1. o[i - 1] = i - 1 /\ o[i] = i /\ (i - 1) + 1 = i /\ i - 1 <= i
    BY <1>2
  <2>2. SubSeq(P, i, i) = <<P[i]>>
    BY <1>3, OneCell
  <2> HIDE DEF o
  <2> QED BY <2>1, <2>2
<1>7. Tiles(P, ss, o, S)
  <2>1. o \in [0 .. k -> 0 .. Len(P)]
    BY <1>2, <1>3
  <2> HIDE DEF o, ss
  <2> QED BY <1>3, <1>5, <1>6, <2>1 DEF Tiles
<1>8. FlattenSeq(ss) = SubSeq(P, 0 + 1, k)
  <2>1. o[0] = 0 /\ o[k] = k
    BY <1>2
  <2> HIDE DEF o, ss
  <2> QED BY <1>5, <1>7, <2>1, TilesFlatten
<1>9. FlattenSeq(ss) = P
  <2>1. 0 + 1 = 1 /\ SubSeq(P, 1, Len(P)) = P
    BY <1>3
  <2> QED BY <1>3, <1>8, <2>1
<1> HIDE DEF ss, o
<1> QED BY <1>1, <1>3, <1>4, <1>9

\* A part of a part.
LEMMA SubSlice ==
    ASSUME NEW S, NEW c \in Seq(S), NEW a \in Nat, NEW b \in Nat, a <= b, b <= Len(c),
           NEW r \in Nat, NEW u \in Nat, r <= u, u <= b - a
    PROVE  SubSeq(SubSeq(c, a + 1, b), r + 1, u) = SubSeq(c, (a + r) + 1, a + u)
<1> DEFINE p == SubSeq(c, a + 1, b)
           s == SubSeq(p, r + 1, u)
<1>1. p \in Seq(S) /\ Len(p) = b - a /\ \A i \in 1 .. b - a : p[i] = c[a + i]
  <2>1. Slice(p, c, a, b, S)
    BY SliceIs
  <2> QED BY <2>1 DEF Slice
<1> HIDE DEF p
<1>2. s \in Seq(S) /\ Len(s) = u - r /\ \A i \in 1 .. u - r : s[i] = p[r + i]
  <2>1. u <= Len(p)
    BY <1>1
  <2>2. Slice(s, p, r, u, S)
    BY <1>1, <2>1, SliceIs
  <2> QED BY <2>2 DEF Slice
<1> HIDE DEF s
<1>3. /\ a + r \in Nat /\ (a + r) + Len(s) = a + u /\ a + u <= Len(c)
      /\ (a + r) + Len(s) <= Len(c)
  <2>1. Len(c) \in Nat
    OBVIOUS
  <2> QED BY <1>2, <2>1
<1>4. ASSUME NEW j \in 1 .. Len(s) PROVE c[(a + r) + j] = s[j]
  <2>1. r + j \in 1 .. b - a /\ a + (r + j) = (a + r) + j /\ j \in 1 .. u - r
    BY <1>2
  <2> QED BY <1>1, <1>2, <2>1
<1>5. s = SubSeq(c, (a + r) + 1, (a + r) + Len(s))
  <2> DEFINE h == a + r
  <2>1. h \in Nat /\ h + Len(s) <= Len(c) /\ \A j \in 1 .. Len(s) : c[h + j] = s[j]
    BY <1>3, <1>4
  <2> HIDE DEF h
  <2>2. s = SubSeq(c, h + 1, h + Len(s))
    BY <1>2, <2>1, PartIs
  <2> QED BY <2>2 DEF h
<1> QED BY <1>3, <1>5 DEF s, p

\* Reading from an offset in the file.
LEMMA ReadIs ==
    ASSUME NEW m, NEW c, Mem(m, c), NEW off \in Nat, off < Len(c), NEW n \in Nat
    PROVE  LET x == IF off + n < Len(c) THEN off + n ELSE Len(c)
           IN  InMemRead(m, off, n) = SubSeq(c, off + 1, x)
<1>1. PICK z, k : Fits(c, z, k) /\ m = Shape(c, z, k) /\ (k = 1 \/ (k - 1) * z < Len(c))
  BY DEF Mem
<1>2. c \in Seq(FileCell) /\ z \in Nat \ {0} /\ k \in Nat \ {0} /\ Len(c) \in Nat /\ c # <<>>
  <2>1. c \in Seq(FileCell) /\ z \in Nat \ {0} /\ k \in Nat \ {0} /\ Len(c) \in Nat
    BY <1>1 DEF Fits
  <2>2. Len(<<>>) = 0
    OBVIOUS
  <2> QED BY <2>1, <2>2
<1> DEFINE q == off \div z
           r == off % z
           a == q * z
           e == k - q
           b == Upto(q + 1, z, Len(c))
           first == q + 1
           spans == [i \in 1 .. e |->
                       IF i = 1 THEN SubSeq(Part(c, q + 1, z), r + 1, b - a) ELSE Part(c, q + i, z)]
           o == [i \in 0 .. e |-> IF i = 0 THEN off ELSE Upto(q + i, z, Len(c))]
<1>3. q \in Nat /\ r \in 0 .. z - 1 /\ off = a + r /\ a \in Nat
  <2>1. q \in Nat /\ r \in 0 .. z - 1 /\ off = a + r
    BY <1>2, Division
  <2> HIDE DEF q
  <2> QED BY <1>2, <2>1, Multiples
<1> HIDE DEF q, r
<1>4. q < k
  <2>1. k <= q => k * z <= a
    BY <1>2, <1>3, Multiples
  <2>2. Len(c) <= k * z /\ k * z \in Nat
    BY <1>1, <1>2, Multiples DEF Fits
  <2> DEFINE R == k * z
  <2>3. (k <= q => R <= a) /\ Len(c) <= R /\ R \in Nat
    BY <2>1, <2>2
  <2> HIDE DEF R, a
  <2> QED BY <1>2, <1>3, <2>3
<1>5. e \in Nat \ {0} /\ q + 1 \in 1 .. k /\ \A i \in 1 .. e : q + i \in 1 .. k
  BY <1>2, <1>3, <1>4
<1>6. /\ b \in Nat /\ off < b /\ b <= Len(c)
      /\ Len(Part(c, q + 1, z)) = b - a /\ Part(c, q + 1, z) = SubSeq(c, a + 1, b)
  <2>1. (q + 1) - 1 = q
    BY <1>3
  <2>2. b \in Nat /\ b <= Len(c) /\ Len(Part(c, q + 1, z)) = b - (((q + 1) - 1) * z)
    BY <1>1, <1>5, PartFacts
  <2>3. Part(c, q + 1, z) = SubSeq(c, a + 1, b)
    BY <2>1 DEF Part
  <2>4. off < b
    <3>1. b = IF (q + 1) * z < Len(c) THEN (q + 1) * z ELSE Len(c)
      BY DEF Upto
    <3>2. (q + 1) * z = a + z
      BY <1>2, <1>3, Multiples
    <3> HIDE DEF a, b
    <3> QED BY <1>2, <1>3, <3>1, <3>2
  <2> QED BY <2>1, <2>2, <2>3, <2>4
<1>7. spans[1] = SubSeq(c, off + 1, b)
  <2>1. 1 \in 1 .. e
    BY <1>5
  <2>2. spans[1] = SubSeq(SubSeq(c, a + 1, b), r + 1, b - a)
    BY <1>6, <2>1
  <2> HIDE DEF spans, a, b
  <2>3. a <= b /\ r \in Nat /\ b - a \in Nat /\ r <= b - a /\ a + (b - a) = b
    BY <1>2, <1>3, <1>6
  <2> DEFINE u == b - a
  <2>4. u \in Nat /\ r <= u /\ u <= b - a /\ a + u = b
    BY <2>3
  <2> HIDE DEF u
  <2>5. SubSeq(SubSeq(c, a + 1, b), r + 1, u) = SubSeq(c, (a + r) + 1, a + u)
    BY <1>2, <1>3, <1>6, <2>3, <2>4, SubSlice
  <2> QED BY <1>3, <2>2, <2>4, <2>5 DEF u
<1> HIDE DEF a
<1>8. TargetSpans(m, off) = spans
  <2> DEFINE V(f, w, d) ==
               [i \in 1 .. (Len(m.blocks) + 1 - f) |->
                  LET data == m.blocks[f + i - 1].data
                  IN  IF i = 1 THEN SubSeq(data, w + 1, Len(data)) ELSE data]
  <2>1. TargetSpans(m, off) = V(off \div m.size + 1, off % m.size, m.size)
    BY DEF TargetSpans
  <2>2. /\ m.size = z /\ Len(m.blocks) = k
        /\ \A i \in 1 .. k : m.blocks[i].data = Part(c, i, z)
    BY <1>1, ShapeData
  <2>3. TargetSpans(m, off) = V(first, r, z)
    <3> HIDE DEF V
    <3> QED BY <2>1, <2>2 DEF q, r
  <2>4. Len(m.blocks) + 1 - first = e
    BY <1>2, <1>3, <2>2
  <2>5. ASSUME NEW i \in 1 .. e
        PROVE  LET data == m.blocks[first + i - 1].data
               IN  (IF i = 1 THEN SubSeq(data, r + 1, Len(data)) ELSE data) = spans[i]
    <3>1. first + i - 1 = q + i
      BY <1>2, <1>3
    <3>2. m.blocks[first + i - 1].data = Part(c, q + i, z)
      BY <1>5, <2>2, <3>1
    <3>3. spans[i] = IF i = 1 THEN SubSeq(Part(c, q + 1, z), r + 1, b - a) ELSE Part(c, q + i, z)
      OBVIOUS
    <3> HIDE DEF spans, b, first
    <3> QED BY <1>6, <3>2, <3>3
  <2>6. V(first, r, z) = spans
    <3>1. spans = [i \in 1 .. e |-> spans[i]]
      OBVIOUS
    <3> HIDE DEF spans, e, first
    <3>2. V(first, r, z) = [i \in 1 .. e |-> LET data == m.blocks[first + i - 1].data
               IN  (IF i = 1 THEN SubSeq(data, r + 1, Len(data)) ELSE data)]
      BY <2>4
    <3> HIDE DEF V
    <3> QED BY <2>5, <3>1, <3>2
  <2> HIDE DEF V, spans
  <2> QED BY <2>3, <2>6
<1>9. ASSUME NEW i \in 1 .. e
      PROVE  /\ i - 1 \in 0 .. e /\ i \in 0 .. e /\ o[i] \in 0 .. Len(c)
             /\ o[i - 1] < o[i] /\ spans[i] = SubSeq(c, o[i - 1] + 1, o[i])
             /\ spans[i] \in Seq(FileCell) /\ spans[i] # <<>>
  <2> DEFINE A == o[i - 1]
             B == o[i]
  <2>1. i - 1 \in 0 .. e /\ i \in 0 .. e /\ q + i \in 1 .. k /\ i # 0
    BY <1>5
  <2>2. B = Upto(q + i, z, Len(c))
    BY <2>1
  <2>3. A \in Nat /\ B \in Nat /\ A < B /\ B <= Len(c) /\ spans[i] = SubSeq(c, A + 1, B)
    <3>1. CASE i = 1
      <4>1. A = off /\ B = b
        BY <2>1, <3>1
      <4> HIDE DEF A, B, spans
      <4> QED BY <1>6, <1>7, <3>1, <4>1
    <3>2. CASE i # 1
      <4>1. i - 1 # 0 /\ (q + i) - 1 = q + (i - 1)
        BY <1>3, <3>2
      <4>2. A = Upto((q + i) - 1, z, Len(c))
        BY <2>1, <4>1
      <4>3. Upto((q + i) - 1, z, Len(c)) = ((q + i) - 1) * z /\ ((q + i) - 1) * z \in Nat
            /\ Upto(q + i, z, Len(c)) \in Nat /\ Upto(q + i, z, Len(c)) <= Len(c)
        BY <1>1, <2>1, PartFacts
      <4>4. ((q + i) - 1) * z < Upto(q + i, z, Len(c))
        BY <1>1, <1>2, <2>1, NotEmptyParts
      <4>5. spans[i] = Part(c, q + i, z)
        BY <3>2
      <4>6. spans[i] = SubSeq(c, ((q + i) - 1) * z + 1, Upto(q + i, z, Len(c)))
        BY <4>5 DEF Part
      <4> HIDE DEF A, B, spans
      <4> QED BY <2>2, <4>2, <4>3, <4>4, <4>6
    <3> QED BY <3>1, <3>2
  <2> HIDE DEF A, B, spans
  <2>4. Slice(SubSeq(c, A + 1, B), c, A, B, FileCell)
    BY <1>2, <2>3, SliceIs
  <2>5. spans[i] \in Seq(FileCell) /\ Len(spans[i]) = B - A
    BY <2>3, <2>4 DEF Slice
  <2>6. spans[i] # <<>>
    <3>1. Len(<<>>) = 0 /\ B - A > 0
      BY <2>3
    <3> QED BY <2>5, <3>1
  <2>7. B \in 0 .. Len(c)
    BY <1>2, <2>3
  <2> QED BY <2>1, <2>3, <2>5, <2>6, <2>7 DEF A, B
<1>10. spans \in Seq(Seq(FileCell)) /\ Len(spans) = e
  <2>1. spans = [i \in 1 .. e |-> spans[i]] /\ e \in Nat
    BY <1>5
  <2>2. \A i \in 1 .. e : spans[i] \in Seq(FileCell)
    BY <1>9
  <2> HIDE DEF spans, e, o
  <2> QED BY <2>1, <2>2
<1>11. o[0] = off /\ o[e] = Len(c)
  <2>1. 0 \in 0 .. e /\ e \in 0 .. e /\ e # 0 /\ q + e = k /\ k \in 1 .. k
    BY <1>2, <1>3, <1>5
  <2>2. Upto(k, z, Len(c)) = Len(c)
    BY <1>1, <2>1, PartFacts
  <2> QED BY <2>1, <2>2
<1>12. Tiles(c, spans, o, FileCell)
  <2>1. ASSUME NEW i \in 0 .. e PROVE o[i] \in 0 .. Len(c)
    <3>1. CASE i = 0
      BY <1>2, <1>11, <3>1
    <3>2. CASE i # 0
      <4>1. i \in 1 .. e
        BY <1>5, <3>2
      <4> QED BY <1>9, <4>1
    <3> QED BY <3>1, <3>2
  <2>2. o \in [0 .. e -> 0 .. Len(c)]
    <3>1. o = [i \in 0 .. e |-> o[i]]
      OBVIOUS
    <3> HIDE DEF o, e
    <3> QED BY <2>1, <3>1
  <2>3. \A i \in 1 .. e : o[i - 1] <= o[i] /\ spans[i] = SubSeq(c, o[i - 1] + 1, o[i])
    <3>1. ASSUME NEW i \in 1 .. e PROVE o[i - 1] <= o[i]
      <4> DEFINE A == o[i - 1]
                 B == o[i]
      <4>1. A \in 0 .. Len(c) /\ B \in 0 .. Len(c) /\ A < B
        BY <1>9, <2>1
      <4> HIDE DEF A, B
      <4>2. A <= B
        BY <1>2, <4>1
      <4> QED BY <4>2 DEF A, B
    <3> QED BY <1>9, <3>1
  <2> HIDE DEF o, spans, e
  <2> QED BY <1>2, <1>10, <2>2, <2>3 DEF Tiles
<1> HIDE DEF o, spans, e, b
<1> DEFINE t == SubSeq(c, off + 1, Len(c))
<1>13. FlattenSeq(spans) = t
  BY <1>10, <1>11, <1>12, TilesFlatten
<1>14. InMemRead(m, off, n) = Cells(FlattenSeq(spans), 0, n)
  <2> DEFINE I == {i \in 1 .. Len(spans) : spans[i] = <<>>}
             V(s, u) == Cells(FlattenSeq(IF u = 0 THEN s ELSE SubSeq(s, 1, u - 1)), 0, n)
  <2>1. I = {}
    BY <1>9, <1>10
  <2>2. InMemRead(m, off, n) = V(TargetSpans(m, off), SelectInSeq(TargetSpans(m, off), LAMBDA s : s = <<>>))
    BY DEF InMemRead
  <2>3. SelectInSeq(TargetSpans(m, off), LAMBDA s : s = <<>>) = 0
    BY <1>8, <2>1 DEF SelectInSeq
  <2>4. InMemRead(m, off, n) = V(spans, 0)
    BY <1>8, <2>2, <2>3
  <2> QED BY <2>4
<1>15. t \in Seq(FileCell) /\ Len(t) = Len(c) - off
  <2>1. Len(c) <= Len(c) /\ off <= Len(c)
    BY <1>2
  <2>2. Slice(t, c, off, Len(c), FileCell)
    BY <1>2, <2>1, SliceIs
  <2> QED BY <2>2 DEF Slice
<1>16. PICK y \in 0 .. Len(t) :
          /\ Cells(t, 0, n) = SubSeq(t, 0 + 1, y)
          /\ y = IF 0 + n < Len(t) THEN 0 + n ELSE Len(t)
  <2>1. 0 \in Nat /\ 0 <= Len(t)
    BY <1>2, <1>15
  <2> HIDE DEF t
  <2> QED BY <1>15, <2>1, CellsIs
<1>17. SubSeq(t, 0 + 1, y) = SubSeq(c, (off + 0) + 1, off + y)
  <2> DEFINE w == 0
  <2>1. w \in Nat /\ y \in Nat /\ w <= y /\ y <= Len(c) - off /\ off <= Len(c) /\ Len(c) <= Len(c)
    <3> HIDE DEF t
    <3> QED BY <1>2, <1>15, <1>16
  <2> HIDE DEF w
  <2>2. SubSeq(SubSeq(c, off + 1, Len(c)), w + 1, y) = SubSeq(c, (off + w) + 1, off + y)
    BY <1>2, <2>1, SubSlice
  <2> QED BY <2>2 DEF w
<1> HIDE DEF t
<1> DEFINE x == IF off + n < Len(c) THEN off + n ELSE Len(c)
<1>18. off + y = x /\ off + 0 = off
  BY <1>2, <1>15, <1>16
<1> HIDE DEF x
<1>19. InMemRead(m, off, n) = SubSeq(c, off + 1, x)
  BY <1>13, <1>14, <1>16, <1>17, <1>18
<1> QED BY <1>19 DEF x

(***************************************************************************)
(* The cells of a table                                                    *)
(***************************************************************************)
LEMMA BlocksAre ==
    ASSUME NEW t \in Table
    PROVE  /\ DataBlocks(t) \in Seq(Seq(FileCell))
           /\ Len(DataBlocks(t)) = Len(Layouts[t]) /\ Len(DataBlocks(t)) \in Nat \ {0}
           /\ DataBlocks(t) = [i \in 1 .. Len(DataBlocks(t)) |-> DataBlocks(t)[i]]
           /\ \A i \in 1 .. Len(DataBlocks(t)) :
                 /\ DataBlocks(t)[i] \in Seq(FileCell) /\ DataBlocks(t)[i] # <<>>
                 /\ Len(DataBlocks(t)[i]) \in Nat \ {0}
                 /\ DataBlocks(t)[i][1].of = Len(DataBlocks(t)[i])
<1> DEFINE L == Layouts[t]
           n == Len(L)
           D == DataBlocks(t)
<1>1. L \in Seq(Nat \ {0}) /\ L # <<>>
  BY TableFilesAssumption
<1>2. n \in Nat \ {0} /\ DOMAIN L = 1 .. n /\ \A i \in 1 .. n : L[i] \in Nat \ {0}
  BY <1>1, EmptySeq, LenProperties, ElementOfSeq
<1> HIDE DEF L
<1>3. ASSUME NEW i \in 1 .. n
      PROVE  LET b == DataBlock(i, L[i])
             IN  b \in Seq(FileCell) /\ Len(b) = L[i] /\ b[1].of = L[i]
  <2> DEFINE k == L[i]
             b == DataBlock(i, k)
  <2>1. k \in Nat \ {0} /\ i \in Nat /\ 1 \in 1 .. k
    BY <1>2
  <2> HIDE DEF k
  <2>2. ASSUME NEW j \in 1 .. k PROVE (IF j = 1 THEN Cell("btl", k) ELSE Cell("data", i)) \in FileCell
    BY <2>1 DEF Cell, FileCell
  <2>3. b \in Seq(FileCell) /\ Len(b) = k /\ b[1] = Cell("btl", k)
    BY <2>1, <2>2 DEF DataBlock
  <2>4. Cell("btl", k).of = k
    BY DEF Cell
  <2> HIDE DEF b
  <2> QED BY <2>3, <2>4 DEF b, k
<1>4. D = [i \in 1 .. n |-> DataBlock(i, L[i])]
  BY <1>2 DEF DataBlocks, L
<1> HIDE DEF D, n
<1>5. D \in Seq(Seq(FileCell)) /\ Len(D) = n
  <2>1. \A i \in 1 .. n : DataBlock(i, L[i]) \in Seq(FileCell)
    BY <1>3
  <2> QED BY <1>2, <1>4, <2>1
<1>6. ASSUME NEW i \in 1 .. n
      PROVE  /\ D[i] \in Seq(FileCell) /\ D[i] # <<>>
             /\ Len(D[i]) \in Nat \ {0} /\ D[i][1].of = Len(D[i])
  <2>1. D[i] = DataBlock(i, L[i])
    BY <1>4
  <2>2. D[i] \in Seq(FileCell) /\ Len(D[i]) = L[i] /\ D[i][1].of = L[i] /\ L[i] \in Nat \ {0}
    BY <1>2, <1>3, <2>1
  <2>3. Len(<<>>) = 0
    OBVIOUS
  <2> QED BY <2>2, <2>3
<1>7. D = [i \in 1 .. n |-> D[i]]
  BY <1>4
<1> QED BY <1>2, <1>5, <1>6, <1>7 DEF D, n, L

\* Where the blocks of a table are in its data.
Offsets(t, o) ==
    /\ Tiles(Data(t), DataBlocks(t), o, FileCell)
    /\ o[0] = 0 /\ o[Len(DataBlocks(t))] = Len(Data(t))
    /\ \A i \in 1 .. Len(DataBlocks(t)) : o[i] = o[i - 1] + Len(DataBlocks(t)[i])

LEMMA OffsetsOf ==
    ASSUME NEW t \in Table
    PROVE  \E o : Offsets(t, o)
BY BlocksAre, FlattenTiles DEF Offsets, Data

\* A table is its data, its meta block and its footer.
Layout(w, d) ==
    /\ d \in Seq(FileCell) /\ w \in Seq(FileCell)
    /\ Len(w) = Len(d) + MetaLength + 2
    /\ SubSeq(w, 1, Len(d)) = d
    /\ SubSeq(w, Len(d) + 1, Len(d) + MetaLength) = MetaBlock
    /\ w[Len(d) + MetaLength + 1] = Cell("mbo", Len(d))
    /\ w[Len(d) + MetaLength + 2] = Cell("magic", 0)

LEMMA MetaIs == MetaBlock \in Seq(FileCell) /\ Len(MetaBlock) = MetaLength /\ MetaBlock # <<>>
<1>1. MetaLength \in Nat \ {0}
  BY Sizes
<1>2. \A j \in 1 .. MetaLength : (IF j = 1 THEN Cell("btl", MetaLength) ELSE Cell("meta", 0)) \in FileCell
  BY <1>1 DEF Cell, FileCell
<1>3. MetaBlock \in Seq(FileCell) /\ Len(MetaBlock) = MetaLength
  BY <1>1, <1>2 DEF MetaBlock
<1>4. Len(<<>>) = 0
  OBVIOUS
<1> QED BY <1>1, <1>3, <1>4

LEMMA FooterIs ==
    ASSUME NEW n \in Nat
    PROVE  /\ Footer(n) \in Seq(FileCell) /\ Len(Footer(n)) = 2 /\ FooterSize = 2
           /\ Footer(n)[1] = Cell("mbo", n) /\ Footer(n)[2] = Cell("magic", 0)
           /\ Footer(n) # <<>>
<1>1. Cell("mbo", n) \in FileCell /\ Cell("magic", 0) \in FileCell
  BY DEF Cell, FileCell
<1>2. /\ Footer(n) \in Seq(FileCell) /\ Len(Footer(n)) = 2
      /\ Footer(n)[1] = Cell("mbo", n) /\ Footer(n)[2] = Cell("magic", 0)
  BY <1>1 DEF Footer
<1>3. FooterSize = 2
  BY DEF FooterSize, Footer
<1>4. Len(<<>>) = 0
  OBVIOUS
<1> QED BY <1>2, <1>3, <1>4

LEMMA WholeIs ==
    ASSUME NEW t \in Table
    PROVE  Layout(Whole(t), Data(t)) /\ Data(t) # <<>> /\ Whole(t) # <<>>
<1> DEFINE d == Data(t)
           M == Len(d)
           f == Footer(M)
           v == d \o MetaBlock
           w == v \o f
<1>1. PICK o : Offsets(t, o)
  BY OffsetsOf
<1>2. d \in Seq(FileCell) /\ M \in Nat
  BY <1>1 DEF Offsets, Tiles
<1>3. d # <<>>
  <2> DEFINE n == Len(DataBlocks(t))
             A == o[0]
             B == o[1]
  <2>1. 1 \in 1 .. n /\ 1 - 1 = 0 /\ n \in Nat /\ n >= 1
    BY BlocksAre
  <2>2. B = A + Len(DataBlocks(t)[1]) /\ A = 0
    BY <1>1, <2>1 DEF Offsets
  <2>3. Len(DataBlocks(t)[1]) \in Nat \ {0}
    BY <2>1, BlocksAre
  <2>4. B \in 0 .. M
    <3>1. o \in [0 .. n -> 0 .. M]
      BY <1>1 DEF Offsets, Tiles
    <3>2. 1 \in 0 .. n
      BY <2>1
    <3> HIDE DEF n, M
    <3> QED BY <3>1, <3>2
  <2>5. Len(<<>>) = 0
    OBVIOUS
  <2> HIDE DEF A, B
  <2>6. M # 0
    BY <1>2, <2>2, <2>3, <2>4
  <2> QED BY <2>5, <2>6
<1> HIDE DEF d
<1>4. Joined(v, d, MetaBlock, FileCell)
  BY <1>2, MetaIs, ConcatIs
<1>5. v \in Seq(FileCell) /\ Len(v) = M + MetaLength
  BY <1>4, MetaIs DEF Joined
<1> HIDE DEF v
<1>6. f \in Seq(FileCell) /\ Len(f) = 2 /\ f[1] = Cell("mbo", M) /\ f[2] = Cell("magic", 0)
  BY <1>2, FooterIs
<1> HIDE DEF f
<1>7. Joined(w, v, f, FileCell)
  BY <1>5, <1>6, ConcatIs
<1> HIDE DEF w, M
<1>8. /\ w \in Seq(FileCell) /\ Len(w) = Len(v) + 2
      /\ (\A i \in 1 .. Len(v) : w[i] = v[i]) /\ w[Len(v) + 1] = f[1] /\ w[Len(v) + 2] = f[2]
  <2>1. 1 \in 1 .. Len(f) /\ 2 \in 1 .. Len(f)
    BY <1>6
  <2> QED BY <1>6, <1>7, <2>1 DEF Joined
<1>9. MetaLength \in Nat \ {0}
  BY Sizes
<1>10. Len(w) = M + MetaLength + 2
  BY <1>2, <1>5, <1>8, <1>9
<1>11. SubSeq(w, 1, M) = d
  <2> DEFINE a == 0
  <2>1. a \in Nat /\ a + Len(d) <= Len(w) /\ a + 1 = 1 /\ a + Len(d) = M
    BY <1>2, <1>9, <1>10 DEF M
  <2>2. \A j \in 1 .. Len(d) : w[a + j] = d[j]
    <3>1. ASSUME NEW j \in 1 .. Len(d) PROVE w[a + j] = d[j]
      <4>1. a + j = j /\ j \in 1 .. Len(v)
        BY <1>2, <1>5, <1>9 DEF M
      <4>2. v[j] = d[j]
        BY <1>4 DEF Joined
      <4> QED BY <1>8, <4>1, <4>2
    <3> QED BY <3>1
  <2> HIDE DEF a
  <2>3. d = SubSeq(w, a + 1, a + Len(d))
    BY <1>2, <1>8, <2>1, <2>2, PartIs
  <2> QED BY <2>1, <2>3
<1>12. SubSeq(w, M + 1, M + MetaLength) = MetaBlock
  <2>1. M + Len(MetaBlock) <= Len(w) /\ Len(MetaBlock) = MetaLength /\ MetaBlock \in Seq(FileCell)
    BY <1>2, <1>9, <1>10, MetaIs
  <2>2. \A j \in 1 .. Len(MetaBlock) : w[M + j] = MetaBlock[j]
    <3>1. ASSUME NEW j \in 1 .. Len(MetaBlock) PROVE w[M + j] = MetaBlock[j]
      <4>1. M + j \in 1 .. Len(v)
        BY <1>2, <1>5, <1>9, <2>1
      <4>2. v[M + j] = MetaBlock[j]
        BY <1>4 DEF Joined, M
      <4> QED BY <1>8, <4>1, <4>2
    <3> QED BY <3>1
  <2>3. MetaBlock = SubSeq(w, M + 1, M + Len(MetaBlock))
    BY <1>2, <1>8, <2>1, <2>2, PartIs
  <2> QED BY <2>1, <2>3
<1>13. w # <<>>
  <2>1. Len(<<>>) = 0
    OBVIOUS
  <2> QED BY <1>2, <1>9, <1>10, <2>1
<1>14. Whole(t) = w
  <2>1. FooterOf(t) = f
    BY DEF FooterOf, f, M, d
  <2> QED BY <2>1, Zenon DEF Whole, w, v, d
<1>15. Layout(w, d)
  BY <1>2, <1>5, <1>6, <1>8, <1>10, <1>11, <1>12 DEF Layout, M
<1> QED BY <1>3, <1>13, <1>14, <1>15 DEF d

(***************************************************************************)
(* Parsing a table                                                         *)
(***************************************************************************)
\* What is read of a file in memory, one cell, or some that are there.
LEMMA ReadCell ==
    ASSUME NEW m, NEW c, Mem(m, c), NEW off \in Nat, off < Len(c)
    PROVE  InMemRead(m, off, 1)[1] = c[off + 1]
<1>1. c \in Seq(FileCell) /\ Len(c) \in Nat
  BY ContentIs
<1> DEFINE x == IF off + 1 < Len(c) THEN off + 1 ELSE Len(c)
           j == off + 1
<1>2. x = off + 1 /\ j \in 1 .. Len(c)
  BY <1>1
<1>3. InMemRead(m, off, 1) = SubSeq(c, off + 1, x)
  BY ReadIs
<1> HIDE DEF x, j
<1>4. InMemRead(m, off, 1) = SubSeq(c, j, j)
  BY <1>2, <1>3 DEF j
<1>5. SubSeq(c, j, j) = <<c[j]>>
  BY <1>1, <1>2, OneCell
<1>6. <<c[j]>>[1] = c[j]
  OBVIOUS
<1> QED BY <1>4, <1>5, <1>6 DEF j

LEMMA ReadSome ==
    ASSUME NEW m, NEW c, Mem(m, c), NEW off \in Nat, NEW n \in Nat \ {0}, off + n <= Len(c)
    PROVE  InMemRead(m, off, n) = SubSeq(c, off + 1, off + n)
<1>1. c \in Seq(FileCell) /\ Len(c) \in Nat
  BY ContentIs
<1> DEFINE x == IF off + n < Len(c) THEN off + n ELSE Len(c)
<1>2. x = off + n /\ off < Len(c)
  BY <1>1
<1>3. InMemRead(m, off, n) = SubSeq(c, off + 1, x)
  BY <1>2, ReadIs
<1> HIDE DEF x
<1> QED BY <1>2, <1>3

\* The footer says where the meta block is, and the meta block is there.
LEMMA FooterRead ==
    ASSUME NEW m, NEW w, NEW d, Mem(m, w), Layout(w, d), d # <<>>
    PROVE  Mbo(m) = Len(d) /\ Parses(m)
<1> DEFINE M == Len(d)
           B == M + MetaLength
<1>1. /\ M \in Nat \ {0} /\ MetaLength \in Nat \ {0} /\ w \in Seq(FileCell) /\ Len(w) = B + 2
      /\ SubSeq(w, M + 1, B) = MetaBlock
      /\ w[B + 1] = Cell("mbo", M) /\ w[B + 2] = Cell("magic", 0)
  BY Sizes, EmptySeq DEF Layout
<1> HIDE DEF M
<1>2. B \in Nat \ {0} /\ M + MetaLength = B /\ M + MetaLength <= Len(w) /\ B < Len(w)
      /\ B + 2 <= Len(w) /\ B - M = MetaLength
  BY <1>1
<1> HIDE DEF B
<1>3. FooterSize = 2 /\ FooterBeg(m) = B
  <2>1. InMemSize(m) = Len(w)
    BY ContentIs
  <2>2. FooterSize = 2
    BY <1>1, FooterIs
  <2> QED BY <1>1, <1>2, <2>1, <2>2 DEF FooterBeg
<1>4. InMemRead(m, B, 1)[1] = Cell("mbo", M)
  BY <1>1, <1>2, ReadCell
<1>5. Cell("mbo", M).of = M /\ Cell("mbo", M).is = "mbo"
  BY DEF Cell
<1>6. Mbo(m) = M
  BY <1>3, <1>4, <1>5 DEF Mbo
<1> DEFINE f == InMemRead(m, B, 2)
<1>7. Len(f) = 2 /\ f[1] = Cell("mbo", M) /\ f[2] = Cell("magic", 0)
  <2>1. f = SubSeq(w, B + 1, B + 2)
    <3> DEFINE n == 2
    <3>1. n \in Nat \ {0} /\ B \in Nat /\ B + n <= Len(w)
      BY <1>2
    <3> HIDE DEF n
    <3>2. InMemRead(m, B, n) = SubSeq(w, B + 1, B + n)
      BY <3>1, ReadSome
    <3> QED BY <3>2 DEF n
  <2>2. B \in Nat /\ B + 2 \in Nat /\ B <= B + 2 /\ (B + 2) - B = 2
    BY <1>2
  <2> DEFINE e == B + 2
  <2>3. e \in Nat /\ B <= e /\ e <= Len(w) /\ e - B = 2
    BY <1>2, <2>2
  <2> HIDE DEF e
  <2>4. Slice(SubSeq(w, B + 1, e), w, B, e, FileCell)
    BY <1>1, <2>2, <2>3, SliceIs
  <2>5. Slice(f, w, B, e, FileCell)
    BY <2>1, <2>4 DEF e
  <2> HIDE DEF f
  <2>6. Len(f) = 2 /\ \A i \in 1 .. 2 : f[i] = w[B + i]
    BY <2>3, <2>5 DEF Slice
  <2>7. 1 \in 1 .. 2 /\ 2 \in 1 .. 2
    OBVIOUS
  <2> QED BY <1>1, <2>6, <2>7
<1> HIDE DEF f
<1>8. InMemRead(m, M, B - M) = MetaBlock
  <2>1. InMemRead(m, M, MetaLength) = SubSeq(w, M + 1, M + MetaLength)
    BY <1>1, <1>2, ReadSome
  <2> QED BY <1>1, <1>2, <2>1
<1>9. FooterBeg(m) > 0
  BY <1>2, <1>3
<1>10. Parses(m)
  BY <1>3, <1>5, <1>6, <1>7, <1>8, <1>9, Zenon DEF Parses, f
<1> QED BY <1>6, <1>10 DEF M

\* The blocks of a file are found from their lengths.
Finds(from, m) ==
    \A o \in 0 .. Mbo(m) :
        from[o] = IF o >= Mbo(m) \/ BtlAt(m, o) = 0 THEN <<>>
                  ELSE IF o + BtlAt(m, o) > Mbo(m) THEN <<<<o, BtlAt(m, o)>>>>
                  ELSE <<<<o, BtlAt(m, o)>>>> \o from[o + BtlAt(m, o)]

LEMMA BlockOffsetsAre ==
    ASSUME NEW m, Mbo(m) \in Nat, \A o \in 0 .. Mbo(m) : o < Mbo(m) => BtlAt(m, o) \in Nat
    PROVE  \E from : Finds(from, m) /\ BlockOffsets(m) = from[0]
<1> DEFINE M == Mbo(m)
           N == M + 1
           S == Seq(Nat \X Nat)
           Def(f) == [o \in 0 .. M |->
                        IF o >= M \/ BtlAt(m, o) = 0 THEN <<>>
                        ELSE IF o + BtlAt(m, o) > M THEN <<<<o, BtlAt(m, o)>>>>
                        ELSE <<<<o, BtlAt(m, o)>>>> \o f[o + BtlAt(m, o)]]
           from == CHOOSE f : f = Def(f)
           btl == [i \in 1 .. N |-> IF i = N THEN 0 ELSE BtlAt(m, i - 1)]
           next == [i \in 1 .. N |-> i + btl[i]]
           base == [i \in 1 .. N |-> IF btl[i] = 0 THEN <<>> ELSE <<<<i - 1, btl[i]>>>>]
           F == [p \in (1 .. N) \X S |-> <<<<p[1] - 1, btl[p[1]]>>>> \o p[2]]
<1>1. M \in Nat /\ N \in Nat /\ 0 \in 0 .. M
  OBVIOUS
<1> HIDE DEF M
<1>2. ASSUME NEW i \in 1 .. N PROVE i - 1 \in Nat /\ btl[i] \in Nat /\ i - 1 \in 0 .. M
  <2>1. i - 1 \in 0 .. M /\ (i # N => i - 1 < M)
    BY <1>1
  <2>2. i # N => BtlAt(m, i - 1) \in Nat
    BY <2>1 DEF M
  <2>3. btl[i] = IF i = N THEN 0 ELSE BtlAt(m, i - 1)
    OBVIOUS
  <2> HIDE DEF btl, N
  <2> QED BY <1>1, <2>1, <2>2, <2>3
<1>3. StepOn(F, N, S)
  <2>1. ASSUME NEW p \in (1 .. N) \X S PROVE <<<<p[1] - 1, btl[p[1]]>>>> \o p[2] \in S
    <3>1. p[1] \in 1 .. N /\ p[2] \in S
      OBVIOUS
    <3> DEFINE a == <<p[1] - 1, btl[p[1]]>>
    <3>2. a \in Nat \X Nat
      BY <1>2, <3>1
    <3> HIDE DEF a
    <3>3. <<a>> \in Seq(Nat \X Nat)
      BY <3>2
    <3>4. <<a>> \o p[2] \in Seq(Nat \X Nat)
      BY <3>1, <3>3, ConcatProperties
    <3> QED BY <3>4 DEF a
  <2> HIDE DEF N, S, btl
  <2> QED BY <2>1 DEF StepOn
<1>4. base \in [1 .. N -> S]
  <2>1. ASSUME NEW i \in 1 .. N PROVE (IF btl[i] = 0 THEN <<>> ELSE <<<<i - 1, btl[i]>>>>) \in S
    <3>1. <<i - 1, btl[i]>> \in Nat \X Nat
      BY <1>2
    <3> DEFINE a == <<i - 1, btl[i]>>
    <3> HIDE DEF a
    <3>2. <<a>> \in Seq(Nat \X Nat)
      BY <3>1 DEF a
    <3> QED BY <3>2, EmptySeq DEF a
  <2> HIDE DEF N, S, btl
  <2> QED BY <2>1
<1>5. PICK g : Backward(g, N, S, next, base, F)
  <2> HIDE DEF N, S, next, base, F
  <2> QED BY <1>1, <1>3, <1>4, BackwardRecursion
<1>6. /\ g \in [1 .. N -> S]
      /\ \A i \in 1 .. N :
            g[i] = IF next[i] \in (i + 1) .. N THEN F[<<i, g[next[i]]>>] ELSE base[i]
  <2> HIDE DEF N, S, next, base, F
  <2> QED BY <1>5 DEF Backward
<1> DEFINE h == [o \in 0 .. M |-> g[o + 1]]
<1>7. ASSUME NEW o \in 0 .. M PROVE h[o] = Def(h)[o]
  <2> DEFINE i == o + 1
             b == BtlAt(m, o)
             V(x) == IF o >= M \/ b = 0 THEN <<>>
                     ELSE IF o + b > M THEN <<<<o, b>>>> ELSE <<<<o, b>>>> \o x
  <2>1. i \in 1 .. N /\ i - 1 = o /\ (i = N <=> o >= M) /\ o \in Nat
    BY <1>1
  <2>2. btl[i] = (IF o >= M THEN 0 ELSE b) /\ btl[i] \in Nat
    BY <1>2, <2>1
  <2>3. next[i] = i + btl[i] /\ base[i] = IF btl[i] = 0 THEN <<>> ELSE <<<<o, btl[i]>>>>
    BY <2>1
  <2>4. h[o] = g[i] /\ Def(h)[o] = V(h[o + b])
    OBVIOUS
  <2>5. g[i] = IF next[i] \in (i + 1) .. N THEN F[<<i, g[next[i]]>>] ELSE base[i]
    BY <1>6, <2>1
  <2>6. CASE o >= M \/ b = 0
    <3>1. btl[i] = 0
      BY <2>2, <2>6
    <3>2. next[i] \notin (i + 1) .. N
      <4> HIDE DEF i, next, btl
      <4> QED BY <2>1, <2>3, <3>1
    <3>3. g[i] = <<>>
      BY <2>3, <2>5, <3>1, <3>2
    <3> QED BY <2>4, <2>6, <3>3
  <2>7. CASE ~(o >= M \/ b = 0) /\ o + b > M
    <3>1. btl[i] = b /\ b # 0 /\ b \in Nat
      BY <2>2, <2>7
    <3>2. next[i] \notin (i + 1) .. N
      <4> HIDE DEF next, btl, b
      <4> QED BY <1>1, <2>1, <2>3, <2>7, <3>1
    <3>3. g[i] = <<<<o, b>>>>
      BY <2>3, <2>5, <3>1, <3>2
    <3> QED BY <2>4, <2>7, <3>3
  <2>8. CASE ~(o >= M \/ b = 0) /\ ~(o + b > M)
    <3>1. btl[i] = b /\ b # 0 /\ b \in Nat
      BY <2>2, <2>8
    <3>2. next[i] \in (i + 1) .. N /\ next[i] = (o + b) + 1 /\ o + b \in 0 .. M /\ next[i] \in 1 .. N
      <4> HIDE DEF next, btl, b
      <4> QED BY <1>1, <2>1, <2>3, <2>8, <3>1
    <3>3. g[next[i]] = h[o + b] /\ g[next[i]] \in S
      <4>1. h[o + b] = g[(o + b) + 1]
        BY <3>2
      <4> HIDE DEF h, next, S
      <4> QED BY <1>6, <3>2, <4>1
    <3>4. F[<<i, g[next[i]]>>] = <<<<o, b>>>> \o g[next[i]]
      <4>1. F[<<i, g[next[i]]>>] = <<<<i - 1, btl[i]>>>> \o g[next[i]]
        <5> HIDE DEF N, S, btl, next, i
        <5> QED BY <2>1, <3>3
      <4> HIDE DEF F, btl, next, i
      <4> QED BY <2>1, <3>1, <4>1
    <3>5. g[i] = <<<<o, b>>>> \o h[o + b]
      <4> HIDE DEF F, h, next, base, b, i, N
      <4> QED BY <2>5, <3>2, <3>3, <3>4
    <3> QED BY <2>4, <2>8, <3>5
  <2> QED BY <2>6, <2>7, <2>8
<1>8. h = Def(h)
  <2>1. h = [o \in 0 .. M |-> h[o]] /\ Def(h) = [o \in 0 .. M |-> Def(h)[o]]
    OBVIOUS
  <2> HIDE DEF Def, h
  <2> QED BY <1>7, <2>1
<1>9. from = Def(from)
  BY <1>8
<1>10. ASSUME NEW o \in 0 .. M PROVE from[o] = Def(from)[o]
  BY <1>9, Zenon
<1> HIDE DEF from
<1>11. Finds(from, m)
  <2>1. ASSUME NEW o \in 0 .. M
        PROVE  from[o] = IF o >= M \/ BtlAt(m, o) = 0 THEN <<>>
                         ELSE IF o + BtlAt(m, o) > M THEN <<<<o, BtlAt(m, o)>>>>
                         ELSE <<<<o, BtlAt(m, o)>>>> \o from[o + BtlAt(m, o)]
    BY <1>10
  <2> QED BY <2>1 DEF Finds, M
<1>12. BlockOffsets(m) = from[0]
  BY Zenon DEF BlockOffsets, from, M
<1> QED BY <1>11, <1>12

\* Of a file that holds a table the blocks are read that it was built of.
LEMMA TableRead ==
    ASSUME NEW t \in Table, NEW m, Mem(m, Whole(t))
    PROVE  Parses(m) /\ BlocksRead(m) = DataBlocks(t)
<1> DEFINE w == Whole(t)
           d == Data(t)
           D == DataBlocks(t)
           n == Len(D)
           M == Len(d)
           len == [i \in 1 .. n |-> Len(D[i])]
<1>1. PICK o : Offsets(t, o)
  BY OffsetsOf
<1>2. /\ D \in Seq(Seq(FileCell)) /\ n \in Nat \ {0} /\ D = [i \in 1 .. n |-> D[i]]
      /\ \A i \in 1 .. n : /\ D[i] \in Seq(FileCell) /\ len[i] \in Nat \ {0}
                           /\ D[i][1].of = len[i] /\ len[i] = Len(D[i])
  BY BlocksAre
<1>3. /\ Layout(w, d) /\ d # <<>>
  BY WholeIs
<1>4. Mbo(m) = M /\ Parses(m)
  BY <1>3, FooterRead
<1>5. /\ o \in [0 .. n -> 0 .. M] /\ d \in Seq(FileCell) /\ M \in Nat
      /\ o[0] = 0 /\ o[n] = M
      /\ \A i \in 1 .. n : /\ o[i - 1] <= o[i] /\ D[i] = SubSeq(d, o[i - 1] + 1, o[i])
                           /\ o[i] = o[i - 1] + len[i]
  BY <1>1 DEF Offsets, Tiles
<1> HIDE DEF d, D, w, n, len, M
<1>50. ASSUME NEW i \in 0 .. n PROVE o[i] \in Nat /\ o[i] <= M
  <2>1. o \in [0 .. n -> 0 .. M] /\ M \in Nat
    BY <1>5
  <2>2. o[i] \in 0 .. M
    BY <2>1
  <2> QED BY <2>1, <2>2
<1>51. ASSUME NEW i \in 1 .. n
       PROVE  /\ o[i - 1] \in Nat /\ o[i] \in Nat /\ o[i - 1] <= o[i] /\ o[i] <= M
              /\ o[i] = o[i - 1] + len[i] /\ len[i] \in Nat \ {0}
              /\ D[i] = SubSeq(d, o[i - 1] + 1, o[i])
  <2>1. i - 1 \in 0 .. n /\ i \in 0 .. n
    BY <1>2
  <2>2. o[i - 1] \in Nat /\ o[i] \in Nat /\ o[i] <= M
    BY <1>50, <2>1
  <2>3. len[i] \in Nat \ {0}
    BY <1>2
  <2>4. o[i - 1] <= o[i] /\ o[i] = o[i - 1] + len[i] /\ D[i] = SubSeq(d, o[i - 1] + 1, o[i])
    BY <1>5
  <2> QED BY <2>2, <2>3, <2>4
<1>6. w \in Seq(FileCell) /\ M < Len(w) /\ SubSeq(w, 1, M) = d
  <2>1. w \in Seq(FileCell) /\ Len(w) = M + MetaLength + 2 /\ SubSeq(w, 1, M) = d
    BY <1>3 DEF Layout, M
  <2>2. MetaLength \in Nat \ {0}
    BY Sizes
  <2> QED BY <1>5, <2>1, <2>2
<1>7. \A j \in 1 .. M : w[j] = d[j]
  <2> DEFINE a == 0
  <2>1. a \in Nat /\ a <= M /\ M <= Len(w) /\ a + 1 = 1 /\ M - a = M
    BY <1>5, <1>6
  <2>2. \A j \in 1 .. M : a + j = j
    BY <1>5
  <2> HIDE DEF a
  <2>3. Slice(SubSeq(w, a + 1, M), w, a, M, FileCell)
    BY <1>5, <1>6, <2>1, SliceIs
  <2>4. Slice(d, w, a, M, FileCell)
    BY <1>6, <2>1, <2>3
  <2> QED BY <2>1, <2>2, <2>4 DEF Slice
<1>8. ASSUME NEW p \in 0 .. M, p < M PROVE BtlAt(m, p) = d[p + 1].of /\ BtlAt(m, p) \in Nat
  <2>1. p \in Nat /\ p < Len(w) /\ p + 1 \in 1 .. M
    BY <1>5, <1>6, <1>8
  <2>2. InMemRead(m, p, 1)[1] = w[p + 1]
    BY <2>1, ReadCell DEF w
  <2>3. w[p + 1] = d[p + 1] /\ d[p + 1] \in FileCell
    BY <1>5, <1>7, <2>1 DEF M
  <2> QED BY <2>2, <2>3 DEF BtlAt, FileCell
<1>9. PICK from : Finds(from, m) /\ BlockOffsets(m) = from[0]
  BY <1>4, <1>5, <1>8, BlockOffsetsAre
\* From the beginning of a block on, it and those behind it are found.
<1>10. ASSUME NEW i \in 1 .. n
       PROVE  from[o[i - 1]] = <<<<o[i - 1], len[i]>>>> \o from[o[i]]
  <2> DEFINE A == o[i - 1]
             B == o[i]
             k == len[i]
  <2>1. A \in Nat /\ B \in Nat /\ A <= B /\ B = A + k /\ B <= M /\ k \in Nat \ {0}
        /\ D[i] = SubSeq(d, A + 1, B)
    BY <1>51
  <2> HIDE DEF A, B, k
  <2>2. A \in 0 .. M /\ A < M
    BY <1>5, <2>1
  <2>3. D[i][1] = d[A + 1]
    <3>1. Slice(SubSeq(d, A + 1, B), d, A, B, FileCell)
      BY <1>5, <2>1, SliceIs DEF M
    <3>2. Slice(D[i], d, A, B, FileCell)
      BY <2>1, <3>1
    <3>3. 1 \in 1 .. B - A
      BY <2>1
    <3> QED BY <3>2, <3>3 DEF Slice
  <2>4. BtlAt(m, A) = k
    BY <1>2, <1>8, <2>2, <2>3 DEF k
  <2>5. from[A] = IF A >= M \/ BtlAt(m, A) = 0 THEN <<>>
                  ELSE IF A + BtlAt(m, A) > M THEN <<<<A, BtlAt(m, A)>>>>
                  ELSE <<<<A, BtlAt(m, A)>>>> \o from[A + BtlAt(m, A)]
    BY <1>4, <1>9, <2>2 DEF Finds
  <2>6. ~(A >= M) /\ k # 0 /\ ~(B > M)
    BY <1>5, <2>1, <2>2
  <2>7. from[A] = <<<<A, k>>>> \o from[B]
    BY <2>1, <2>4, <2>5, <2>6
  <2> QED BY <2>7 DEF A, B, k
<1>11. from[M] = <<>>
  <2>1. M \in 0 .. M /\ M >= M
    BY <1>5
  <2> QED BY <1>4, <1>9, <2>1 DEF Finds
<1> DEFINE Found(i) ==
             /\ from[o[i]] \in Seq(Nat \X Nat) /\ Len(from[o[i]]) = n - i
             /\ \A j \in 1 .. n - i : from[o[i]][j] = <<o[(i + j) - 1], len[i + j]>>
           T == {k \in Nat : k <= n => Found(n - k)}
<1>12. 0 \in T
  <2>1. n - 0 = n /\ n - n = 0
    BY <1>2
  <2>2. from[o[n]] = <<>>
    BY <1>5, <1>11
  <2>3. <<>> \in Seq(Nat \X Nat) /\ Len(<<>>) = 0 /\ \A j \in 1 .. 0 : FALSE
    BY EmptySeq
  <2> QED BY <2>1, <2>2, <2>3
<1>13. ASSUME NEW k \in Nat, k \in T PROVE k + 1 \in T
  <2> SUFFICES ASSUME k + 1 <= n PROVE Found(n - (k + 1))
    OBVIOUS
  <2> DEFINE i == n - k
             h == i - 1
             s == from[o[i]]
             u == from[o[h]]
             b == <<o[h], len[i]>>
  <2>1. i \in 1 .. n /\ h \in Nat /\ n - (k + 1) = h /\ h + 1 = i /\ n - h = 1 + (n - i)
        /\ h \in 0 .. n /\ k <= n
    BY <1>2
  <2>2. Found(i)
    BY <1>13, <2>1
  <2> HIDE DEF i
  <2>3. u = <<b>> \o s
    BY <1>10, <2>1
  <2>4. b \in Nat \X Nat
    <3>1. o[h] \in Nat /\ len[i] \in Nat
      BY <1>50, <1>51, <2>1
    <3> QED BY <3>1
  <2>5. s \in Seq(Nat \X Nat) /\ Len(s) = n - i
        /\ \A j \in 1 .. n - i : s[j] = <<o[(i + j) - 1], len[i + j]>>
    BY <2>2
  <2> HIDE DEF s, b, Found
  <2>6. Joined(<<b>> \o s, <<b>>, s, Nat \X Nat) /\ Len(<<b>>) = 1 /\ <<b>>[1] = b
    <3>1. <<b>> \in Seq(Nat \X Nat)
      BY <2>4
    <3> QED BY <2>5, <3>1, ConcatIs
  <2>7. Joined(u, <<b>>, s, Nat \X Nat)
    BY <2>3, <2>6
  <2> HIDE DEF u
  <2>8. u \in Seq(Nat \X Nat) /\ Len(u) = 1 + Len(s) /\ u[1] = b
        /\ \A j \in 1 .. Len(s) : u[1 + j] = s[j]
    <3>1. 1 \in 1 .. Len(<<b>>)
      BY <2>6
    <3> QED BY <2>6, <2>7, <3>1 DEF Joined
  <2>9. Len(u) = n - h
    BY <2>1, <2>5, <2>8
  <2>10. ASSUME NEW j \in 1 .. n - h PROVE u[j] = <<o[(h + j) - 1], len[h + j]>>
    <3>1. CASE j = 1
      <4>1. (h + j) - 1 = h /\ h + j = i
        BY <2>1, <3>1
      <4> QED BY <2>8, <3>1, <4>1 DEF b
    <3>2. CASE j # 1
      <4> DEFINE q == j - 1
      <4>1. q \in 1 .. n - i /\ j = 1 + q /\ i + q = h + j
        <5>1. n \in Nat /\ i \in Nat /\ h \in Nat /\ h + 1 = i /\ j \in 1 .. n - h
          BY <1>2, <2>1
        <5> HIDE DEF h
        <5> QED BY <3>2, <5>1
      <4> HIDE DEF q
      <4>2. u[1 + q] = s[q] /\ s[q] = <<o[(i + q) - 1], len[i + q]>>
        BY <2>5, <2>8, <4>1
      <4> QED BY <4>1, <4>2
    <3> QED BY <3>1, <3>2
  <2>11. Found(h)
    BY <2>8, <2>9, <2>10 DEF Found, u
  <2> QED BY <2>1, <2>11
<1> HIDE DEF T
<1>14. n \in T
  BY <1>2, <1>12, <1>13, SetInduction
<1>15. Found(0)
  <2>1. n - n = 0 /\ n <= n
    BY <1>2
  <2> HIDE DEF Found
  <2> QED BY <1>14, <2>1 DEF T
<1> DEFINE offsets == BlockOffsets(m)
<1>16. /\ offsets \in Seq(Nat \X Nat) /\ Len(offsets) = n
       /\ \A i \in 1 .. n : offsets[i] = <<o[i - 1], len[i]>>
  <2>1. offsets = from[o[0]]
    BY <1>5, <1>9
  <2>2. n - 0 = n /\ \A j \in 1 .. n : (0 + j) - 1 = j - 1 /\ 0 + j = j
    BY <1>2
  <2> HIDE DEF offsets
  <2> QED BY <1>15, <2>1, <2>2
<1> HIDE DEF offsets, Found
<1>17. DOMAIN offsets = 1 .. n
  BY <1>16, LenProperties
<1>18. ASSUME NEW i \in 1 .. n
       PROVE  InMemRead(m, offsets[i][1], offsets[i][2]) = D[i]
  <2> DEFINE A == o[i - 1]
             B == o[i]
             k == len[i]
  <2>1. A \in Nat /\ B \in Nat /\ A <= B /\ A + k = B /\ B <= M /\ k \in Nat \ {0}
        /\ D[i] = SubSeq(d, A + 1, B)
    BY <1>51
  <2>2. offsets[i][1] = A /\ offsets[i][2] = k
    BY <1>16
  <2> HIDE DEF A, B, k
  <2>3. A + k <= Len(w)
    BY <1>5, <1>6, <2>1
  <2>4. InMemRead(m, A, k) = SubSeq(w, A + 1, B)
    BY <2>1, <2>3, ReadSome DEF w
  <2>5. SubSeq(d, A + 1, B) = SubSeq(w, A + 1, B)
    <3> DEFINE a == 0
    <3>1. a \in Nat /\ a <= M /\ M <= Len(w) /\ B <= M - a /\ a + 1 = 1 /\ a + A = A /\ a + B = B
      BY <1>5, <1>6, <2>1
    <3> HIDE DEF a
    <3>2. SubSeq(SubSeq(w, a + 1, M), A + 1, B) = SubSeq(w, (a + A) + 1, a + B)
      BY <1>5, <1>6, <2>1, <3>1, SubSlice
    <3> QED BY <1>6, <3>1, <3>2
  <2> QED BY <2>1, <2>2, <2>4, <2>5
<1>19. BlocksRead(m) = [i \in 1 .. n |-> InMemRead(m, offsets[i][1], offsets[i][2])]
  <2>1. BlocksRead(m) = [i \in DOMAIN offsets |-> InMemRead(m, offsets[i][1], offsets[i][2])]
    BY DEF BlocksRead, offsets
  <2> QED BY <1>17, <2>1
<1>20. BlocksRead(m) = D
  BY <1>2, <1>18, <1>19
<1> QED BY <1>4, <1>20 DEF D

(***************************************************************************)
(* Building a table                                                        *)
(***************************************************************************)
OffsetsIn(t) == CHOOSE o : Offsets(t, o)

\* The first i blocks of a table.
FirstBlocks(t, i) == SubSeq(Data(t), 1, OffsetsIn(t)[i])

LEMMA FirstBlocksAre ==
    ASSUME NEW t \in Table
    PROVE  /\ FirstBlocks(t, 0) = <<>> /\ FirstBlocks(t, Len(DataBlocks(t))) = Data(t)
           /\ \A i \in 1 .. Len(DataBlocks(t)) :
                 FirstBlocks(t, i - 1) \o DataBlocks(t)[i] = FirstBlocks(t, i)
<1> DEFINE o == OffsetsIn(t)
           d == Data(t)
           D == DataBlocks(t)
           n == Len(D)
           M == Len(d)
<1>1. Offsets(t, o)
  BY OffsetsOf DEF OffsetsIn
<1>2. /\ o \in [0 .. n -> 0 .. M] /\ d \in Seq(FileCell) /\ M \in Nat /\ n \in Nat
      /\ o[0] = 0 /\ o[n] = M
      /\ \A i \in 1 .. n : o[i - 1] <= o[i] /\ D[i] = SubSeq(d, o[i - 1] + 1, o[i])
  BY <1>1, BlocksAre DEF Offsets, Tiles
<1>3. \A i : FirstBlocks(t, i) = SubSeq(d, 1, o[i])
  BY DEF FirstBlocks
<1> HIDE DEF o, d, D, n
<1>4. SubSeq(d, 1, o[0]) = <<>>
  <2> DEFINE z == 0
  <2>1. z \in Nat /\ z + 1 = 1 /\ o[0] = z
    BY <1>2
  <2> HIDE DEF z
  <2> QED BY <2>1, SliceNone
<1>5. SubSeq(d, 1, o[n]) = d
  BY <1>2
<1>6. ASSUME NEW i \in 1 .. n PROVE SubSeq(d, 1, o[i - 1]) \o D[i] = SubSeq(d, 1, o[i])
  <2> DEFINE A == o[i - 1]
             B == o[i]
             z == 0
  <2>1. i - 1 \in 0 .. n /\ i \in 0 .. n
    BY <1>2
  <2>2. A \in 0 .. M /\ B \in 0 .. M
    <3> HIDE DEF M
    <3> QED BY <1>2, <2>1
  <2>3. A <= B /\ D[i] = SubSeq(d, A + 1, B)
    BY <1>2
  <2> HIDE DEF A, B
  <2>4. z \in Nat /\ z + 1 = 1 /\ z <= A /\ A \in Nat /\ B \in Nat /\ B <= M
    BY <1>2, <2>2
  <2>d. d \in Seq(FileCell) /\ M = Len(d)
    BY <1>2
  <2> HIDE DEF z, M
  <2>5. SubSeq(d, z + 1, A) \o SubSeq(d, A + 1, B) = SubSeq(d, z + 1, B)
    BY <2>3, <2>4, <2>d, SliceConcat
  <2> QED BY <2>3, <2>4, <2>5 DEF A, B
<1> QED BY <1>3, <1>4, <1>5, <1>6 DEF d, D, n

LEMMA WholeParts ==
    ASSUME NEW t \in Table
    PROVE  /\ Whole(t) = (Data(t) \o MetaBlock) \o FooterOf(t)
           /\ Data(t) \in Seq(FileCell) /\ Whole(t) \in Seq(FileCell) /\ Whole(t) # <<>>
           /\ MetaBlock \in Seq(FileCell) /\ MetaBlock # <<>>
           /\ FooterOf(t) \in Seq(FileCell) /\ FooterOf(t) # <<>>
<1>1. Data(t) \in Seq(FileCell) /\ Whole(t) \in Seq(FileCell) /\ Whole(t) # <<>>
  BY WholeIs DEF Layout
<1>2. Len(Data(t)) \in Nat
  BY <1>1
<1>3. Whole(t) = (Data(t) \o MetaBlock) \o FooterOf(t)
  BY Zenon DEF Whole
<1> QED BY <1>1, <1>2, <1>3, MetaIs, FooterIs DEF FooterOf

Shapes == {Shape(x[1], x[2], x[3]) : x \in Seq(FileCell) \X Nat \X Nat}

LEMMA MemShape ==
    ASSUME NEW m, NEW c, Mem(m, c)
    PROVE  m \in Shapes
<1>1. PICK z, k : Fits(c, z, k) /\ m = Shape(c, z, k)
  BY DEF Mem
<1>2. <<c, z, k>> \in Seq(FileCell) \X Nat \X Nat
  BY <1>1 DEF Fits
<1> QED BY <1>1, <1>2 DEF Shapes

LEMMA BuiltIs ==
    ASSUME NEW t \in Table
    PROVE  Mem(BuiltInMem(t), Whole(t))
<1> DEFINE D == DataBlocks(t)
           n == Len(D)
           S == {m \in Shapes : \E c : Mem(m, c)}
           F == [p \in (1 .. n) \X S |-> InMemAppend(p[2], D[p[1]])]
           first == NewInMem(MemBlock)
           Def(f) == [i \in 0 .. n |-> IF i = 0 THEN first ELSE InMemAppend(f[i - 1], D[i])]
           built == CHOOSE f : f = Def(f)
<1>1. /\ n \in Nat \ {0} /\ n = Len(Layouts[t])
      /\ \A i \in 1 .. n : D[i] \in Seq(FileCell) /\ D[i] # <<>>
  BY BlocksAre
<1>2. Mem(first, <<>>) /\ first \in S
  <2>1. Mem(first, <<>>)
    BY Sizes, NewMem
  <2> QED BY <2>1, MemShape
<1> HIDE DEF D, n, first
<1>3. StepOn(F, n, S)
  <2>1. ASSUME NEW p \in (1 .. n) \X S PROVE InMemAppend(p[2], D[p[1]]) \in S
    <3>1. p[1] \in 1 .. n /\ p[2] \in S
      OBVIOUS
    <3>2. PICK c : Mem(p[2], c)
      BY <3>1
    <3>3. Mem(InMemAppend(p[2], D[p[1]]), c \o D[p[1]])
      BY <1>1, <3>1, <3>2, AppendIs
    <3> QED BY <3>3, MemShape
  <2> HIDE DEF S
  <2> QED BY <2>1 DEF StepOn
<1>4. PICK g : Forward(g, n, S, first, F)
  <2> HIDE DEF S, F
  <2> QED BY <1>1, <1>2, <1>3, ForwardRecursion
<1>5. g \in [0 .. n -> S] /\ \A i \in 0 .. n : g[i] = IF i = 0 THEN first ELSE F[<<i, g[i - 1]>>]
  <2> HIDE DEF S, F
  <2> QED BY <1>4 DEF Forward
<1>6. g = Def(g)
  <2>1. ASSUME NEW i \in 0 .. n PROVE g[i] = IF i = 0 THEN first ELSE InMemAppend(g[i - 1], D[i])
    <3>1. CASE i = 0
      BY <1>5, <3>1
    <3>2. CASE i # 0
      <4>1. i \in 1 .. n /\ i - 1 \in 0 .. n
        BY <1>1, <3>2
      <4>2. g[i - 1] \in S
        BY <1>5, <4>1
      <4>3. F[<<i, g[i - 1]>>] = InMemAppend(g[i - 1], D[i])
        <5> HIDE DEF S
        <5> QED BY <4>1, <4>2
      <4> HIDE DEF F
      <4> QED BY <1>5, <3>2, <4>3
    <3> QED BY <3>1, <3>2
  <2>2. g = [i \in 0 .. n |-> g[i]]
    BY <1>5
  <2> HIDE DEF S, F
  <2> QED BY <2>1, <2>2
<1>7. built = Def(built)
  BY <1>6
<1>8. ASSUME NEW i \in 0 .. n PROVE built[i] = IF i = 0 THEN first ELSE InMemAppend(built[i - 1], D[i])
  <2>1. built[i] = Def(built)[i]
    BY <1>7, Zenon
  <2> HIDE DEF built
  <2> QED BY <2>1
<1> HIDE DEF built, Def, F, S
<1> DEFINE T == {k \in Nat : k <= n => Mem(built[k], FirstBlocks(t, k))}
<1>9. 0 \in T
  <2>1. 0 \in 0 .. n
    BY <1>1
  <2>2. built[0] = first
    BY <1>8, <2>1
  <2> QED BY <1>2, <2>2, FirstBlocksAre
<1>10. ASSUME NEW k \in Nat, k \in T PROVE k + 1 \in T
  <2> SUFFICES ASSUME k + 1 <= n PROVE Mem(built[k + 1], FirstBlocks(t, k + 1))
    OBVIOUS
  <2> DEFINE i == k + 1
  <2>1. i \in 1 .. n /\ i \in 0 .. n /\ i # 0 /\ i - 1 = k /\ k <= n
    BY <1>1
  <2>2. Mem(built[k], FirstBlocks(t, k))
    BY <1>10, <2>1
  <2> HIDE DEF i
  <2>3. built[i] = InMemAppend(built[k], D[i])
    BY <1>8, <2>1
  <2>4. FirstBlocks(t, k) \o D[i] = FirstBlocks(t, i)
    BY <2>1, FirstBlocksAre DEF D, n
  <2>5. Mem(InMemAppend(built[k], D[i]), FirstBlocks(t, k) \o D[i])
    BY <1>1, <2>1, <2>2, AppendIs
  <2>6. Mem(built[i], FirstBlocks(t, i))
    BY <2>3, <2>4, <2>5
  <2> QED BY <2>6 DEF i
<1> HIDE DEF T
<1>11. n \in T
  BY <1>1, <1>9, <1>10, SetInduction
<1>12. Mem(built[n], Data(t))
  <2>1. Mem(built[n], FirstBlocks(t, n))
    BY <1>1, <1>11 DEF T
  <2> QED BY <2>1, FirstBlocksAre DEF n, D
<1>13. Mem(InMemAppend(built[n], MetaBlock), Data(t) \o MetaBlock)
  BY <1>12, WholeParts, AppendIs
<1>14. Mem(InMemAppend(InMemAppend(built[n], MetaBlock), FooterOf(t)), Whole(t))
  <2>1. Mem(InMemAppend(InMemAppend(built[n], MetaBlock), FooterOf(t)), (Data(t) \o MetaBlock) \o FooterOf(t))
    BY <1>13, WholeParts, AppendIs
  <2> QED BY <2>1, WholeParts
<1>15. BuiltInMem(t) = InMemAppend(InMemAppend(built[n], MetaBlock), FooterOf(t))
  <2> DEFINE E(x) == CHOOSE f : f = [i \in 0 .. x |-> IF i = 0 THEN NewInMem(MemBlock)
                                                    ELSE InMemAppend(f[i - 1], DataBlocks(t)[i])]
             V(x) == InMemAppend(InMemAppend(E(x)[x], MetaBlock), FooterOf(t))
  <2>1. BuiltInMem(t) = V(Len(Layouts[t]))
    BY Zenon DEF BuiltInMem
  <2>2. V(Len(Layouts[t])) = V(n)
    <3> HIDE DEF V
    <3> QED BY <1>1
  <2>3. V(n) = InMemAppend(InMemAppend(built[n], MetaBlock), FooterOf(t))
    BY Zenon DEF built, Def, first, D
  <2> HIDE DEF V
  <2> QED BY <2>1, <2>2, <2>3
<1> QED BY <1>14, <1>15

\* A file that a table is flushed to, when its last cells are appended.
LEMMA FinishedIs ==
    ASSUME NEW t \in Table, NEW w, Wrote(w, Data(t))
    PROVE  Closed(Finished(w, t)) = NewWritable(DiskBlock, Whole(t))
<1>1. Wrote(AppendFile(w, MetaBlock), Data(t) \o MetaBlock)
  BY WholeParts, AppendWrote
<1>2. Wrote(Finished(w, t), (Data(t) \o MetaBlock) \o FooterOf(t))
  BY <1>1, WholeParts, AppendWrote DEF Finished
<1>3. Wrote(Finished(w, t), Whole(t))
  BY <1>2, WholeParts
<1> QED BY <1>3, FlushWrote DEF Closed

\* The first i buffers of a file in memory that holds a table.
FirstSpans(t, m, i) == SubSeq(Whole(t), 1, Upto(i, m.size, Len(Whole(t))))

LEMMA FirstSpansAre ==
    ASSUME NEW t \in Table, NEW m, Mem(m, Whole(t))
    PROVE  /\ Len(Spans(m)) \in Nat
           /\ FirstSpans(t, m, 0) = <<>> /\ FirstSpans(t, m, Len(Spans(m))) = Whole(t)
           /\ \A i \in 1 .. Len(Spans(m)) :
                 /\ Spans(m)[i] \in Seq(FileCell)
                 /\ FirstSpans(t, m, i - 1) \o Spans(m)[i] = FirstSpans(t, m, i)
<1> DEFINE w == Whole(t)
           L == Len(w)
<1>1. PICK z, k : /\ Fits(w, z, k) /\ m = Shape(w, z, k)
                  /\ Len(Spans(m)) = k /\ \A i \in 1 .. k : Spans(m)[i] = Part(w, i, z)
  BY WholeParts, SpansIs
<1>2. /\ w \in Seq(FileCell) /\ k \in Nat \ {0} /\ z \in Nat \ {0} /\ L \in Nat
  BY <1>1 DEF Fits
<1>3. m.size = z
  BY <1>1, ShapeData
<1>4. \A i : FirstSpans(t, m, i) = SubSeq(w, 1, Upto(i, z, L))
  BY <1>3 DEF FirstSpans
<1> HIDE DEF w
<1>5. SubSeq(w, 1, Upto(0, z, L)) = <<>>
  <2>1. 0 * z = 0
    BY <1>2
  <2>2. Upto(0, z, L) = 0
    BY <1>2, <2>1 DEF Upto
  <2> DEFINE a == 0
  <2>3. a \in Nat /\ a + 1 = 1 /\ Upto(0, z, L) = a
    BY <2>2
  <2> HIDE DEF a
  <2> QED BY <2>3, SliceNone
<1>6. SubSeq(w, 1, Upto(k, z, L)) = w
  <2>1. k \in 1 .. k
    BY <1>2
  <2>2. Upto(k, z, L) = L
    BY <1>1, <2>1, PartFacts
  <2>3. SubSeq(w, 1, L) = w
    BY <1>2
  <2> HIDE DEF L
  <2> QED BY <2>2, <2>3
<1>7. ASSUME NEW i \in 1 .. k
      PROVE  /\ Spans(m)[i] \in Seq(FileCell)
             /\ SubSeq(w, 1, Upto(i - 1, z, L)) \o Spans(m)[i] = SubSeq(w, 1, Upto(i, z, L))
  <2> DEFINE A == Upto(i - 1, z, L)
             B == Upto(i, z, L)
             a == 0
  <2>1. A \in Nat /\ B \in Nat /\ A <= B /\ B <= L /\ Part(w, i, z) \in Seq(FileCell)
        /\ A = (i - 1) * z
    BY <1>1, PartFacts
  <2>2. Spans(m)[i] = SubSeq(w, A + 1, B)
    <3>1. Part(w, i, z) = SubSeq(w, (i - 1) * z + 1, B)
      BY DEF Part
    <3> HIDE DEF A, B
    <3> QED BY <1>1, <2>1, <3>1
  <2> HIDE DEF A, B
  <2>3. a \in Nat /\ a + 1 = 1 /\ a <= A
    BY <2>1
  <2> HIDE DEF a
  <2>4. SubSeq(w, a + 1, A) \o SubSeq(w, A + 1, B) = SubSeq(w, a + 1, B)
    BY <1>2, <2>1, <2>3, SliceConcat
  <2>5. Spans(m)[i] \in Seq(FileCell)
    BY <1>1, <2>1
  <2> QED BY <2>2, <2>3, <2>4, <2>5 DEF A, B
<1> HIDE DEF L
<1>8. Len(Spans(m)) \in Nat
  BY <1>1, <1>2
<1>9. FirstSpans(t, m, 0) = <<>> /\ FirstSpans(t, m, k) = w
  BY <1>4, <1>5, <1>6
<1> QED BY <1>1, <1>4, <1>7, <1>8, <1>9 DEF w

(***************************************************************************)
(* Unlinked tables                                                         *)
(***************************************************************************)
\* A guard is taken of a table in a version, and keeps it from being unlinked.
HeldAreLinked ==
    \A r \in Reader : doing[r] # "idle" => made[table[r]] \in {"published", "dropped"}

LinkInv ==
    /\ made \in [Table -> Makings]
    /\ doing \in [Reader -> Doings]
    /\ table \in [Reader -> Table]
    /\ HeldAreLinked
    /\ UnlinkedStaysGone

LEMMA LinkInit == FilesInit /\ Table # {} => LinkInv
BY DEF FilesInit, LinkInv, HeldAreLinked, UnlinkedStaysGone, Makings, Doings

\* The steps that write tables, and those of their versions.
LEMMA TableStepLinks ==
    ASSUME LinkInv, NEW t \in Table, BuildStep(t) \/ VersionStep(t) PROVE LinkInv'
<1> USE DEF LinkInv, Makings
<1>1. UNCHANGED <<doing, table>>
  BY DEF BuildStep, StartFlush, FlushBlock, FinishFlush, MergeInMem, StartDump, DumpBlock,
         SyncDump, VersionStep, Publish, DropTable, Unlink, readerVars
<1>2. CASE StartFlush(t) \/ StartDump(t)
  <2>1. /\ made[t] \in {"none", "merging"} /\ present' = present \cup {t}
        /\ made' \in {[made EXCEPT ![t] = "flushing"], [made EXCEPT ![t] = "dumping"]}
    BY <1>2 DEF StartFlush, StartDump
  <2> QED BY <1>1, <2>1 DEF HeldAreLinked, UnlinkedStaysGone
<1>3. CASE FlushBlock(t) \/ DumpBlock(t)
  BY <1>1, <1>3 DEF FlushBlock, DumpBlock, HeldAreLinked, UnlinkedStaysGone
<1>4. CASE FinishFlush(t) \/ MergeInMem(t) \/ SyncDump(t) \/ Publish(t) \/ DropTable(t)
  <2>1. \E m \in {"flushed", "merging", "dumped", "published", "dropped"} :
            /\ made' = [made EXCEPT ![t] = m]
            /\ made[t] \in {"published", "dropped"} => m = "dropped"
    BY <1>4 DEF FinishFlush, MergeInMem, SyncDump, Publish, DropTable
  <2>2. present' = present
    BY <1>4 DEF FinishFlush, MergeInMem, SyncDump, Publish, DropTable
  <2> QED BY <1>1, <2>1, <2>2 DEF HeldAreLinked, UnlinkedStaysGone
<1>5. CASE Unlink(t)
  <2>1. ~Held(t) /\ made' = [made EXCEPT ![t] = "unlinked"] /\ present' = present \ {t}
    BY <1>5 DEF Unlink, Unreferenced
  <2> QED BY <1>1, <2>1 DEF Held, HeldAreLinked, UnlinkedStaysGone
<1> QED BY <1>2, <1>3, <1>4, <1>5 DEF BuildStep, VersionStep

\* The steps of readers: opening a file may create it.
LEMMA ReaderStepLinks ==
    ASSUME LinkInv, NEW r \in Reader, ReaderStep(r) PROVE LinkInv'
<1> USE DEF LinkInv, Doings
<1>1. made' = made
  BY DEF ReaderStep, GetStep, FindCached, StartLoad, LoadPart, EndLoad, OpenFile, Release, Hold,
         Open, tableVars
<1>2. CASE StartLoad(r) \/ OpenFile(r)
  <2>1. /\ doing[r] = "held" /\ present' = present \cup {table[r]} /\ table' = table
        /\ doing' \in {[doing EXCEPT ![r] = "loading"], [doing EXCEPT ![r] = "open"]}
    BY <1>2 DEF StartLoad, OpenFile, Open, Make
  <2> QED BY <1>1, <2>1 DEF HeldAreLinked, UnlinkedStaysGone
<1>3. CASE FindCached(r) \/ LoadPart(r) \/ EndLoad(r) \/ Release(r)
  <2>1. /\ doing[r] # "idle" /\ present' = present /\ table' = table
        /\ \/ doing' \in {[doing EXCEPT ![r] = "idle"], [doing EXCEPT ![r] = "open"]}
           \/ doing' = doing
    BY <1>3 DEF FindCached, LoadPart, EndLoad, Release, Make, tableVars
  <2> QED BY <1>1, <2>1 DEF HeldAreLinked, UnlinkedStaysGone
<1>4. ASSUME NEW t \in Table, Hold(r, t) PROVE LinkInv'
  <2>1. /\ made[t] = "published" /\ present' = present
        /\ doing' = [doing EXCEPT ![r] = "held"] /\ table' = [table EXCEPT ![r] = t]
    BY <1>4 DEF Hold, tableVars
  <2> QED BY <1>1, <2>1 DEF HeldAreLinked, UnlinkedStaysGone
<1> QED BY <1>2, <1>3, <1>4 DEF ReaderStep, GetStep

\* The name of an unlinked table stays free, whatever readers open, load and
\* evict.
THEOREM UnlinkedIsGone ==
    ASSUME Table # {} PROVE FilesSpec => []UnlinkedStaysGone
<1>1. LinkInv /\ [FilesNext]_filesVars => LinkInv'
  <2>1. LinkInv /\ UNCHANGED filesVars => LinkInv'
    BY DEF filesVars, tableVars, readerVars, LinkInv, HeldAreLinked, UnlinkedStaysGone
  <2> QED BY <2>1, TableStepLinks, ReaderStepLinks DEF FilesNext
<1>2. LinkInv => UnlinkedStaysGone
  BY DEF LinkInv
<1> QED BY <1>1, <1>2, LinkInit, PTL DEF FilesSpec

(***************************************************************************)
(* What is in files, in memory and in the cache                            *)
(***************************************************************************)
Complete == {"flushed", "dumped", "published", "dropped", "unlinked"}

\* Of a table that is at s: d is its file, to which b blocks, or b buffers of
\* the file in memory m, are appended.
TableIs(t, s, d, b, m) ==
    /\ b \in Nat
    /\ s \in {"none", "merging"} => d = NoFile /\ b = 0
    /\ s = "flushing" => b <= Len(DataBlocks(t)) /\ Wrote(d, FirstBlocks(t, b))
    /\ s \in {"merging", "dumping"} => Mem(m, Whole(t))
    /\ s = "dumping" => b <= Len(Spans(m)) /\ Wrote(d, FirstSpans(t, m, b))
    /\ s \in Complete => d = NewWritable(DiskBlock, Whole(t))

OfTables ==
    /\ present \subseteq Table
    /\ disk = [t \in Table |-> disk[t]]
    /\ blocks = [t \in Table |-> blocks[t]]
    /\ inMem = [t \in Table |-> inMem[t]]
    /\ \A t \in Table : TableIs(t, made[t], disk[t], blocks[t], inMem[t])

OfCache ==
    /\ DOMAIN cache \subseteq Table
    /\ IsFiniteSet(DOMAIN cache) /\ Cardinality(DOMAIN cache) <= Capacity
    /\ \A u \in DOMAIN cache : Mem(cache[u], Whole(u))

\* Of a reader of t that is at s: l is what it has loaded, h what it parsed.
ReaderIs(t, s, l, h) ==
    /\ s = "loading" => \E x \in 0 .. Len(Whole(t)) : Mem(l, SubSeq(Whole(t), 1, x))
    /\ s = "open" => Mem(h, Whole(t))

OfReaders ==
    /\ loading = [r \in Reader |-> loading[r]]
    /\ handle = [r \in Reader |-> handle[r]]
    /\ \A r \in Reader : ReaderIs(table[r], doing[r], loading[r], handle[r])

FilesInv == LinkInv /\ OfTables /\ OfCache /\ OfReaders

LEMMA FilesInvInit == FilesInit /\ Table # {} => FilesInv
<1> SUFFICES ASSUME FilesInit, Table # {} PROVE FilesInv
  OBVIOUS
<1>1. LinkInv
  BY LinkInit
<1>2. OfTables
  <2>1. /\ present = {} /\ disk = [t \in Table |-> NoFile] /\ made = [t \in Table |-> "none"]
        /\ blocks = [t \in Table |-> 0] /\ inMem = [t \in Table |-> NoMem]
    BY DEF FilesInit
  <2>2. \A t \in Table : TableIs(t, "none", NoFile, 0, NoMem)
    BY DEF TableIs, Complete
  <2> HIDE DEF NoFile, NoMem
  <2> QED BY <2>1, <2>2 DEF OfTables
<1>3. OfCache
  <2>1. cache = <<>> /\ DOMAIN cache = {}
    BY DEF FilesInit
  <2>2. IsFiniteSet({}) /\ Cardinality({}) = 0
    BY FS_EmptySet
  <2> QED BY <2>1, <2>2, Sizes DEF OfCache
<1>4. OfReaders
  <2>1. /\ doing = [r \in Reader |-> "idle"]
        /\ loading = [r \in Reader |-> NoMem] /\ handle = [r \in Reader |-> NoMem]
    BY DEF FilesInit
  <2> HIDE DEF NoMem
  <2> QED BY <2>1 DEF OfReaders, ReaderIs
<1> QED BY <1>1, <1>2, <1>3, <1>4 DEF FilesInv

\* A step of one table.
LEMMA TableChanges ==
    ASSUME LinkInv, OfTables, NEW t \in Table, NEW s, NEW d, NEW b, NEW m,
           made' = [made EXCEPT ![t] = s], disk' = [disk EXCEPT ![t] = d],
           blocks' = [blocks EXCEPT ![t] = b], inMem' = [inMem EXCEPT ![t] = m],
           present' \subseteq Table, TableIs(t, s, d, b, m)
    PROVE  OfTables'
<1>1. DOMAIN made = Table /\ DOMAIN disk = Table /\ DOMAIN blocks = Table /\ DOMAIN inMem = Table
  BY DEF LinkInv, OfTables
<1>2. /\ disk' = [u \in Table |-> disk'[u]] /\ blocks' = [u \in Table |-> blocks'[u]]
      /\ inMem' = [u \in Table |-> inMem'[u]]
  BY <1>1
<1>3. ASSUME NEW u \in Table PROVE TableIs(u, made'[u], disk'[u], blocks'[u], inMem'[u])
  <2>1. CASE u = t
    <3>1. made'[u] = s /\ disk'[u] = d /\ blocks'[u] = b /\ inMem'[u] = m
      BY <1>1, <2>1
    <3> QED BY <2>1, <3>1
  <2>2. CASE u # t
    <3>1. made'[u] = made[u] /\ disk'[u] = disk[u] /\ blocks'[u] = blocks[u] /\ inMem'[u] = inMem[u]
      BY <1>1, <2>2
    <3>2. TableIs(u, made[u], disk[u], blocks[u], inMem[u])
      BY DEF OfTables
    <3> QED BY <3>1, <3>2
  <2> QED BY <2>1, <2>2
<1> QED BY <1>2, <1>3 DEF OfTables

\* A variable that a step leaves as it is.
LEMMA SameValue ==
    ASSUME NEW S, NEW f, f = [x \in S |-> f[x]], NEW t \in S
    PROVE  f = [f EXCEPT ![t] = f[t]]
OBVIOUS

LEMMA SameAt ==
    ASSUME LinkInv, OfTables, NEW t \in Table
    PROVE  /\ made = [made EXCEPT ![t] = made[t]] /\ disk = [disk EXCEPT ![t] = disk[t]]
           /\ blocks = [blocks EXCEPT ![t] = blocks[t]] /\ inMem = [inMem EXCEPT ![t] = inMem[t]]
           /\ TableIs(t, made[t], disk[t], blocks[t], inMem[t]) /\ made[t] \in Makings
           /\ \A u \in Table : present \cup {u} \subseteq Table /\ present \ {u} \subseteq Table
<1>1. made = [u \in Table |-> made[u]]
  BY DEF LinkInv
<1> QED BY <1>1, SameValue DEF OfTables, LinkInv

\* The steps that write a table, and those of its life in versions.
LEMMA TableStepKeeps ==
    ASSUME LinkInv, OfTables, NEW t \in Table, BuildStep(t) \/ VersionStep(t)
    PROVE  OfTables'
<1> DEFINE s == made[t]
           d == disk[t]
           b == blocks[t]
           m == inMem[t]
           At(x) == made' = [made EXCEPT ![t] = x]
           Sets(x, y, z, w) ==
               /\ At(x) /\ disk' = [disk EXCEPT ![t] = y] /\ blocks' = [blocks EXCEPT ![t] = z]
               /\ inMem' = [inMem EXCEPT ![t] = w] /\ present' \subseteq Table
<1>1. /\ made = [made EXCEPT ![t] = s] /\ disk = [disk EXCEPT ![t] = d]
      /\ blocks = [blocks EXCEPT ![t] = b] /\ inMem = [inMem EXCEPT ![t] = m]
      /\ TableIs(t, s, d, b, m) /\ s \in Makings
      /\ present \subseteq Table /\ present \cup {t} \subseteq Table /\ present \ {t} \subseteq Table
  BY SameAt
<1>2. ASSUME NEW x, NEW y, NEW z, NEW w, Sets(x, y, z, w), TableIs(t, x, y, z, w)
      PROVE  OfTables'
  BY <1>2, TableChanges
<1> HIDE DEF s, d, b, m
<1>3. CASE StartFlush(t)
  <2>1. s = "none" /\ Sets("flushing", d, b, m)
    BY <1>1, <1>3 DEF StartFlush, s
  <2>2. d = NoFile /\ b = 0
    BY <1>1, <2>1 DEF TableIs
  <2>3. Wrote(d, <<>>) /\ FirstBlocks(t, b) = <<>>
    <3>1. <<>> \in Seq(FileCell)
      BY EmptySeq
    <3> QED BY <2>2, <3>1, NewWrote, FirstBlocksAre DEF NoFile
  <2>4. 0 <= Len(DataBlocks(t))
    BY BlocksAre
  <2>5. TableIs(t, "flushing", d, b, m)
    BY <2>2, <2>3, <2>4 DEF TableIs, Complete
  <2> QED BY <1>2, <2>1, <2>5
<1>4. CASE FlushBlock(t)
  <2> DEFINE c == NextBlock(t)
             w == AppendFile(d, c)
  <2>1. s = "flushing" /\ b # Len(DataBlocks(t))
    BY <1>4, BlocksAre DEF FlushBlock, AllAppended, s, b
  <2>2. b \in Nat /\ b <= Len(DataBlocks(t)) /\ Wrote(d, FirstBlocks(t, b))
    BY <1>1, <2>1 DEF TableIs
  <2>3. b + 1 \in 1 .. Len(DataBlocks(t)) /\ (b + 1) - 1 = b
    BY <2>1, <2>2, BlocksAre
  <2>4. c = DataBlocks(t)[b + 1]
    BY DEF NextBlock, b
  <2>5. c \in Seq(FileCell) /\ FirstBlocks(t, b) \o c = FirstBlocks(t, b + 1)
    <3> DEFINE k == b + 1
    <3>1. k \in 1 .. Len(DataBlocks(t)) /\ k - 1 = b /\ c = DataBlocks(t)[k]
      BY <2>3, <2>4
    <3> HIDE DEF k, c
    <3>2. c \in Seq(FileCell) /\ FirstBlocks(t, b) \o c = FirstBlocks(t, k)
      BY <3>1, BlocksAre, FirstBlocksAre
    <3> QED BY <3>2 DEF k
  <2> HIDE DEF c
  <2>6. Wrote(w, FirstBlocks(t, b + 1)) /\ Wrote(FlushValid(w), FirstBlocks(t, b + 1))
    <3>1. Wrote(w, FirstBlocks(t, b) \o c)
      BY <2>2, <2>5, AppendWrote
    <3>2. Wrote(w, FirstBlocks(t, b + 1))
      BY <2>5, <3>1
    <3> HIDE DEF w
    <3> QED BY <3>2, FlushWrote
  <2>7. \E y \in {w, FlushValid(w)} : Sets("flushing", y, b + 1, m)
    <3>1. /\ \/ disk' = [disk EXCEPT ![t] = FlushValid(w)]
             \/ disk' = [disk EXCEPT ![t] = w]
          /\ blocks' = [blocks EXCEPT ![t] = b + 1]
          /\ UNCHANGED <<present, made, inMem>>
      BY <1>4 DEF FlushBlock, b, d, c
    <3> HIDE DEF w
    <3> QED BY <1>1, <2>1, <3>1
  <2>8. ASSUME NEW y \in {w, FlushValid(w)} PROVE TableIs(t, "flushing", y, b + 1, m)
    <3>1. Wrote(y, FirstBlocks(t, b + 1))
      BY <2>6
    <3>2. b + 1 \in Nat /\ b + 1 <= Len(DataBlocks(t))
      BY <2>3
    <3> QED BY <3>1, <3>2 DEF TableIs, Complete
  <2> QED BY <1>2, <2>7, <2>8
<1>5. CASE FinishFlush(t)
  <2> DEFINE y == Closed(Finished(d, t))
  <2>1. s = "flushing" /\ b = Len(DataBlocks(t)) /\ Sets("flushed", y, b, m)
    <3>1. made[t] = "flushing" /\ blocks[t] = Len(DataBlocks(t))
      BY <1>5, BlocksAre DEF FinishFlush, AllAppended
    <3> QED BY <1>1, <1>5, <3>1 DEF FinishFlush, s, b, d
  <2>2. b \in Nat /\ Wrote(d, Data(t))
    <3>1. b \in Nat /\ Wrote(d, FirstBlocks(t, b))
      BY <1>1, <2>1 DEF TableIs
    <3> QED BY <2>1, <3>1, FirstBlocksAre
  <2>3. y = NewWritable(DiskBlock, Whole(t))
    BY <2>2, FinishedIs
  <2> HIDE DEF y
  <2>4. TableIs(t, "flushed", y, b, m)
    BY <2>2, <2>3 DEF TableIs, Complete
  <2> QED BY <1>2, <2>1, <2>4
<1>6. CASE MergeInMem(t)
  <2> DEFINE w == BuiltInMem(t)
  <2>1. s = "none" /\ Sets("merging", d, b, w)
    BY <1>1, <1>6 DEF MergeInMem, s
  <2>2. d = NoFile /\ b = 0
    BY <1>1, <2>1 DEF TableIs
  <2>3. Mem(w, Whole(t))
    BY BuiltIs
  <2> HIDE DEF w
  <2>4. TableIs(t, "merging", d, b, w)
    BY <2>2, <2>3 DEF TableIs, Complete
  <2> QED BY <1>2, <2>1, <2>4
<1>7. CASE StartDump(t)
  <2>1. s = "merging" /\ Sets("dumping", d, b, m)
    BY <1>1, <1>7 DEF StartDump, s
  <2>2. d = NoFile /\ b = 0 /\ Mem(m, Whole(t))
    BY <1>1, <2>1 DEF TableIs
  <2>3. b <= Len(Spans(m)) /\ FirstSpans(t, m, b) = <<>>
    <3>1. Len(Spans(m)) \in Nat /\ FirstSpans(t, m, 0) = <<>>
      BY <2>2, FirstSpansAre
    <3>2. 0 <= Len(Spans(m))
      BY <3>1
    <3> QED BY <2>2, <3>1, <3>2, Zenon
  <2>4. Wrote(d, <<>>)
    <3>1. <<>> \in Seq(FileCell)
      BY EmptySeq
    <3> QED BY <2>2, <3>1, NewWrote DEF NoFile
  <2>5. TableIs(t, "dumping", d, b, m)
    BY <2>2, <2>3, <2>4 DEF TableIs, Complete
  <2> QED BY <1>2, <2>1, <2>5
<1>8. CASE DumpBlock(t)
  <2> DEFINE c == Spans(m)[b + 1]
             y == AppendFile(d, c)
  <2>1. s = "dumping" /\ b < Len(Spans(m)) /\ Sets("dumping", y, b + 1, m)
    <3>1. made[t] = "dumping" /\ blocks[t] < Len(Spans(inMem[t]))
      BY <1>8 DEF DumpBlock
    <3> QED BY <1>1, <1>8, <3>1 DEF DumpBlock, s, b, d, m
  <2>2. b \in Nat /\ Wrote(d, FirstSpans(t, m, b)) /\ Mem(m, Whole(t))
    BY <1>1, <2>1 DEF TableIs
  <2>3. b + 1 \in 1 .. Len(Spans(m)) /\ (b + 1) - 1 = b /\ b + 1 \in Nat /\ b + 1 <= Len(Spans(m))
    <3>1. Len(Spans(m)) \in Nat
      BY <2>2, FirstSpansAre
    <3> QED BY <2>1, <2>2, <3>1
  <2>4. c \in Seq(FileCell) /\ FirstSpans(t, m, b) \o c = FirstSpans(t, m, b + 1)
    <3> DEFINE k == b + 1
    <3>1. k \in 1 .. Len(Spans(m)) /\ k - 1 = b /\ c = Spans(m)[k]
      BY <2>3
    <3> HIDE DEF k, c
    <3>2. c \in Seq(FileCell) /\ FirstSpans(t, m, b) \o c = FirstSpans(t, m, k)
      BY <2>2, <3>1, FirstSpansAre
    <3> QED BY <3>2 DEF k
  <2> HIDE DEF c
  <2>5. Wrote(y, FirstSpans(t, m, b + 1))
    <3>1. Wrote(y, FirstSpans(t, m, b) \o c)
      BY <2>2, <2>4, AppendWrote
    <3> QED BY <2>4, <3>1
  <2> HIDE DEF y
  <2>6. TableIs(t, "dumping", y, b + 1, m)
    BY <2>2, <2>3, <2>5 DEF TableIs, Complete
  <2> QED BY <1>2, <2>1, <2>6
<1>9. CASE SyncDump(t)
  <2> DEFINE y == FlushValid(d)
  <2>1. s = "dumping" /\ b = Len(Spans(m)) /\ Sets("dumped", y, b, NoMem)
    <3>1. made[t] = "dumping" /\ blocks[t] = Len(Spans(inMem[t]))
      BY <1>9 DEF SyncDump
    <3> QED BY <1>1, <1>9, <3>1 DEF SyncDump, s, b, d, m
  <2>2. b \in Nat /\ Wrote(d, Whole(t))
    <3>1. b \in Nat /\ Wrote(d, FirstSpans(t, m, b)) /\ Mem(m, Whole(t))
      BY <1>1, <2>1 DEF TableIs
    <3> QED BY <2>1, <3>1, FirstSpansAre
  <2>3. y = NewWritable(DiskBlock, Whole(t))
    BY <2>2, FlushWrote
  <2> HIDE DEF y, NoMem
  <2>4. TableIs(t, "dumped", y, b, NoMem)
    BY <2>2, <2>3 DEF TableIs, Complete
  <2> QED BY <1>2, <2>1, <2>4
<1>10. CASE VersionStep(t)
  <2>1. /\ s \in Complete
        /\ \E x \in Complete \ {"flushed", "dumped"} : Sets(x, d, b, m)
    <3>1. /\ made[t] \in Complete /\ UNCHANGED <<disk, blocks, inMem>>
          /\ present' \in {present, present \ {t}}
          /\ \E x \in Complete \ {"flushed", "dumped"} : At(x)
      BY <1>10 DEF VersionStep, Publish, DropTable, Unlink, Complete
    <3> QED BY <1>1, <3>1 DEF s
  <2>2. PICK x \in Complete \ {"flushed", "dumped"} : Sets(x, d, b, m)
    BY <2>1
  <2>3. b \in Nat /\ d = NewWritable(DiskBlock, Whole(t))
    BY <1>1, <2>1 DEF TableIs
  <2>4. TableIs(t, x, d, b, m)
    BY <2>3 DEF TableIs, Complete
  <2> QED BY <1>2, <2>2, <2>4
<1> QED
  BY <1>3, <1>4, <1>5, <1>6, <1>7, <1>8, <1>9, <1>10 DEF BuildStep

\* They change nothing that readers have, nor the cache.
LEMMA TableStepLeaves ==
    ASSUME NEW t \in Table, BuildStep(t) \/ VersionStep(t)
    PROVE  UNCHANGED <<cache, doing, table, loading, handle>>
BY DEF BuildStep, StartFlush, FlushBlock, FinishFlush, MergeInMem, StartDump, DumpBlock,
       SyncDump, VersionStep, Publish, DropTable, Unlink, readerVars

\* Readers change nothing of a table, but the names in the directory.
LEMMA ReaderStepTables ==
    ASSUME LinkInv, OfTables, NEW r \in Reader, ReaderStep(r)
    PROVE  OfTables'
<1>1. UNCHANGED <<disk, made, blocks, inMem>>
  BY DEF ReaderStep, GetStep, FindCached, StartLoad, LoadPart, EndLoad, OpenFile, Release, Hold,
         Open, tableVars
<1>2. present' \subseteq Table
  <2>1. present' = present \/ present' = present \cup {table[r]}
    BY DEF ReaderStep, GetStep, FindCached, StartLoad, LoadPart, EndLoad, OpenFile, Release, Hold,
           Open, tableVars
  <2>2. table[r] \in Table /\ present \subseteq Table
    BY DEF LinkInv, OfTables
  <2> QED BY <2>1, <2>2
<1> QED BY <1>1, <1>2 DEF OfTables

\* A table that somebody holds is all in its file.
LEMMA HeldIsWhole ==
    ASSUME LinkInv, OfTables, NEW r \in Reader, doing[r] # "idle"
    PROVE  /\ table[r] \in Table /\ Content(r) = Whole(table[r])
           /\ disk[table[r]].file = Whole(table[r])
           /\ Whole(table[r]) \in Seq(FileCell) /\ Whole(table[r]) # <<>>
<1>1. table[r] \in Table /\ made[table[r]] \in {"published", "dropped"}
  BY DEF LinkInv, HeldAreLinked
<1>2. disk[table[r]] = NewWritable(DiskBlock, Whole(table[r]))
  BY <1>1 DEF OfTables, TableIs, Complete
<1>3. disk[table[r]].file = Whole(table[r])
  BY <1>2 DEF NewWritable
<1> QED BY <1>1, <1>3, WholeParts DEF Content

\* A step of one reader.
LEMMA ReaderChanges ==
    ASSUME LinkInv, OfReaders, NEW r \in Reader, NEW t, NEW s, NEW l, NEW h,
           table' = [table EXCEPT ![r] = t], doing' = [doing EXCEPT ![r] = s],
           loading' = [loading EXCEPT ![r] = l], handle' = [handle EXCEPT ![r] = h],
           ReaderIs(t, s, l, h)
    PROVE  OfReaders'
<1>1. DOMAIN table = Reader /\ DOMAIN doing = Reader /\ DOMAIN loading = Reader /\ DOMAIN handle = Reader
  BY DEF LinkInv, OfReaders
<1>2. loading' = [x \in Reader |-> loading'[x]] /\ handle' = [x \in Reader |-> handle'[x]]
  BY <1>1
<1>3. ASSUME NEW x \in Reader PROVE ReaderIs(table'[x], doing'[x], loading'[x], handle'[x])
  <2>1. CASE x = r
    <3>1. table'[x] = t /\ doing'[x] = s /\ loading'[x] = l /\ handle'[x] = h
      BY <1>1, <2>1
    <3> QED BY <3>1
  <2>2. CASE x # r
    <3>1. table'[x] = table[x] /\ doing'[x] = doing[x] /\ loading'[x] = loading[x] /\ handle'[x] = handle[x]
      BY <1>1, <2>2
    <3>2. ReaderIs(table[x], doing[x], loading[x], handle[x])
      BY DEF OfReaders
    <3> QED BY <3>1, <3>2
  <2> QED BY <2>1, <2>2
<1> QED BY <1>2, <1>3 DEF OfReaders

\* The part of a file that dump_to reads next.
LEMMA PartLoaded ==
    ASSUME NEW w \in Seq(FileCell), NEW x \in 0 .. Len(w), x < Len(w), NEW l,
           Mem(l, SubSeq(w, 1, x)), NEW n \in 1 .. Min({Room(l), Len(w) - InMemSize(l)})
    PROVE  /\ x + n \in 0 .. Len(w)
           /\ Mem(InMemCommit(l, Cells(w, InMemSize(l), n)), SubSeq(w, 1, x + n))
<1> DEFINE c == SubSeq(w, 1, x)
           L == Len(w)
           R == Room(l)
           y == x + n
           p == Cells(w, x, n)
<1>0. Mem(l, c)
  OBVIOUS
<1>1. c \in Seq(FileCell) /\ Len(c) = x /\ L \in Nat /\ x \in Nat /\ InMemSize(l) = x
  <2>1. c \in Seq(FileCell) /\ Len(c) = x /\ L \in Nat /\ x \in Nat
    OBVIOUS
  <2> HIDE DEF c, L
  <2>2. InMemSize(l) = Len(c)
    BY <1>0, ContentIs
  <2> QED BY <2>1, <2>2
<1>2. R \in Nat
  <2> HIDE DEF c, R
  <2>1. PICK z, k : Fits(c, z, k) /\ l = Shape(c, z, k)
    BY <1>0 DEF Mem
  <2>2. PICK k2 \in {k, k + 1} : Roomy(WithRoom(l), c, z, k2) /\ R = k2 * z - Len(c)
    BY <2>1, WithRoomIs DEF R
  <2>3. Len(c) < k2 * z /\ z \in Nat \ {0} /\ k2 \in Nat \ {0} /\ Len(c) \in Nat
    BY <1>1, <2>2 DEF Roomy, Fits
  <2>4. k2 * z \in Nat
    BY <2>3, Multiples
  <2> QED BY <2>2, <2>3, <2>4
<1>3. n \in Nat \ {0} /\ n <= R /\ n <= L - x
  <2>1. L - x \in Nat
    BY <1>1
  <2>2. Min({R, L - x}) = IF R < L - x THEN R ELSE L - x
    BY <1>2, <2>1, MinOfTwo
  <2>3. n \in 1 .. Min({R, L - x})
    BY <1>1
  <2> HIDE DEF R, L
  <2> QED BY <1>2, <2>1, <2>2, <2>3
<1>4. y \in 0 .. L /\ y \in Nat /\ x <= y /\ y <= L
  BY <1>1, <1>3
<1>5. p = SubSeq(w, x + 1, y) /\ p \in Seq(FileCell) /\ Len(p) = n
  <2>1. PICK e \in x .. L : p = SubSeq(w, x + 1, e) /\ e = IF x + n < L THEN x + n ELSE L
    <3>1. n \in Nat /\ x \in Nat /\ x <= Len(w)
      BY <1>1, <1>3
    <3> DEFINE k == n
    <3> HIDE DEF k
    <3>2. \E e \in x .. Len(w) :
             /\ Cells(w, x, k) = SubSeq(w, x + 1, e)
             /\ Slice(Cells(w, x, k), w, x, e, FileCell)
             /\ e = IF x + k < Len(w) THEN x + k ELSE Len(w)
      BY <3>1, CellsIs, ZenonT(20) DEF k
    <3> QED BY <3>2 DEF k
  <2>2. e = y
    BY <1>4, <2>1
  <2>3. p = SubSeq(w, x + 1, y)
    BY <2>1, <2>2
  <2>4. SubSeq(w, x + 1, y) \in Seq(FileCell) /\ Len(SubSeq(w, x + 1, y)) = n
    <3>1. x + 1 \in 1 .. Len(w) + 1 /\ y \in (x + 1) - 1 .. Len(w)
      BY <1>1, <1>4
    <3>2. Len(SubSeq(w, x + 1, y)) = y - x
      BY <1>1, <1>4
    <3> QED BY <1>1, <1>3, <1>4, <3>2
  <2> QED BY <2>3, <2>4
<1> HIDE DEF p, R
<1>6. p # <<>>
  BY <1>3, <1>5
<1>7. Mem(InMemCommit(l, p), c \o p)
  <2>1. Len(p) <= Room(l)
    BY <1>3, <1>5 DEF R
  <2> QED BY <1>5, <1>6, <2>1, CommitIs
<1>8. c \o p = SubSeq(w, 1, y)
  <2> DEFINE a == 0
  <2>1. a \in Nat /\ a + 1 = 1 /\ a <= x
    BY <1>1
  <2> HIDE DEF a, y, L
  <2>2. SubSeq(w, a + 1, x) \o SubSeq(w, x + 1, y) = SubSeq(w, a + 1, y)
    BY <1>1, <1>4, <2>1, SliceConcat DEF L
  <2> QED BY <1>5, <2>1, <2>2
<1>9. InMemCommit(l, Cells(w, InMemSize(l), n)) = InMemCommit(l, p)
  BY <1>1 DEF p
<1> QED BY <1>4, <1>7, <1>8, <1>9

\* A table is put into the cache.
LEMMA PutKeeps ==
    ASSUME OfCache, NEW t \in Table, NEW m, Mem(m, Whole(t)), Put(t, m)
    PROVE  OfCache'
<1> DEFINE D == DOMAIN cache \ {t}
<1>1. PICK S \in SUBSET D :
        /\ Cardinality(S) = Min({Capacity - 1, Cardinality(D)})
        /\ cache' = [u \in S \cup {t} |-> IF u = t THEN m ELSE cache[u]]
  BY DEF Put
<1>2. D \subseteq Table /\ IsFiniteSet(D) /\ D \subseteq DOMAIN cache
  <2>1. IsFiniteSet(DOMAIN cache) /\ DOMAIN cache \subseteq Table
    BY DEF OfCache
  <2> QED BY <2>1, FS_Subset
<1> HIDE DEF D
<1>3. IsFiniteSet(S) /\ Cardinality(S) \in Nat /\ Cardinality(D) \in Nat
  BY <1>2, FS_Subset, FS_CardinalityType
<1>4. Cardinality(S) <= Capacity - 1
  <2>1. Capacity - 1 \in Nat /\ Capacity \in Nat
    BY Sizes
  <2>2. Min({Capacity - 1, Cardinality(D)})
          = IF Capacity - 1 < Cardinality(D) THEN Capacity - 1 ELSE Cardinality(D)
    BY <1>3, <2>1, MinOfTwo
  <2> QED BY <1>1, <1>3, <2>1, <2>2
<1>5. IsFiniteSet(S \cup {t}) /\ Cardinality(S \cup {t}) <= Capacity
  <2>1. /\ IsFiniteSet(S \cup {t})
        /\ Cardinality(S \cup {t}) = IF t \in S THEN Cardinality(S) ELSE Cardinality(S) + 1
    BY <1>3, FS_AddElement
  <2>2. Capacity \in Nat
    BY Sizes
  <2> QED BY <1>3, <1>4, <2>1, <2>2
<1>6. DOMAIN cache' = S \cup {t} /\ S \cup {t} \subseteq Table
  BY <1>1, <1>2
<1>7. ASSUME NEW u \in S \cup {t} PROVE Mem(cache'[u], Whole(u))
  <2>1. CASE u = t
    BY <1>1, <2>1
  <2>2. CASE u # t
    <3>1. u \in DOMAIN cache /\ cache'[u] = cache[u]
      BY <1>1, <1>2, <2>2
    <3>2. Mem(cache[u], Whole(u))
      BY <3>1 DEF OfCache
    <3> QED BY <3>1, <3>2
  <2> QED BY <2>1, <2>2
<1> QED BY <1>5, <1>6, <1>7 DEF OfCache

\* The steps of readers.
LEMMA ReaderStepKeeps ==
    ASSUME LinkInv, OfTables, OfCache, OfReaders, NEW r \in Reader, ReaderStep(r)
    PROVE  OfCache' /\ OfReaders'
<1> DEFINE t == table[r]
           s == doing[r]
           l == loading[r]
           h == handle[r]
           w == Whole(t)
           Sets(u, x, y, z) ==
               /\ table' = [table EXCEPT ![r] = u] /\ doing' = [doing EXCEPT ![r] = x]
               /\ loading' = [loading EXCEPT ![r] = y] /\ handle' = [handle EXCEPT ![r] = z]
<1>1. /\ table = [table EXCEPT ![r] = t] /\ doing = [doing EXCEPT ![r] = s]
      /\ loading = [loading EXCEPT ![r] = l] /\ handle = [handle EXCEPT ![r] = h]
      /\ ReaderIs(t, s, l, h)
  <2>1. table = [x \in Reader |-> table[x]] /\ doing = [x \in Reader |-> doing[x]]
    BY DEF LinkInv
  <2> QED BY <2>1, SameValue DEF OfReaders
<1>2. ASSUME NEW u, NEW x, NEW y, NEW z, Sets(u, x, y, z), ReaderIs(u, x, y, z)
      PROVE  OfReaders'
  BY <1>2, ReaderChanges
<1>3. s # "idle" => /\ t \in Table /\ Content(r) = w /\ disk[t].file = w
                    /\ w \in Seq(FileCell) /\ w # <<>> /\ Len(w) \in Nat
  BY HeldIsWhole
<1>4. cache' = cache => OfCache'
  BY DEF OfCache
<1> HIDE DEF t, s, l, h, w
<1>5. ASSUME NEW u \in Table, Hold(r, u) PROVE OfCache' /\ OfReaders'
  <2>1. cache' = cache /\ Sets(u, "held", l, h)
    BY <1>1, <1>5 DEF Hold
  <2>2. ReaderIs(u, "held", l, h)
    BY DEF ReaderIs
  <2> QED BY <1>2, <1>4, <2>1, <2>2
<1>6. CASE FindCached(r)
  <2> DEFINE m == cache[t]
  <2>1. cache' = cache /\ Sets(t, "open", l, m) /\ t \in DOMAIN cache
    BY <1>1, <1>6 DEF FindCached, Make, t
  <2>2. Mem(m, Whole(t))
    BY <2>1 DEF OfCache
  <2> HIDE DEF m
  <2>3. ReaderIs(t, "open", l, m)
    BY <2>2 DEF ReaderIs
  <2> QED BY <1>2, <1>4, <2>1, <2>3
<1>7. CASE StartLoad(r)
  <2> DEFINE m == NewInMem(CacheBlock)
  <2>1. cache' = cache /\ Sets(t, "loading", m, h) /\ s # "idle"
    BY <1>1, <1>7 DEF StartLoad, Open, s
  <2>2. Mem(m, SubSeq(w, 1, 0)) /\ 0 \in 0 .. Len(w)
    <3>1. Mem(m, <<>>)
      BY Sizes, NewMem
    <3> DEFINE a == 0
    <3>2. a \in Nat /\ a + 1 = 1 /\ a = 0
      OBVIOUS
    <3> HIDE DEF a
    <3>3. SubSeq(w, a + 1, a) = <<>>
      BY <3>2, SliceNone
    <3>4. SubSeq(w, 1, 0) = <<>>
      BY <3>2, <3>3
    <3>5. 0 \in 0 .. Len(w)
      BY <1>3, <2>1
    <3> HIDE DEF m
    <3> QED BY <3>1, <3>4, <3>5, Zenon
  <2> HIDE DEF m
  <2>3. ReaderIs(t, "loading", m, h)
    BY <2>2 DEF ReaderIs, w
  <2> QED BY <1>2, <1>4, <2>1, <2>3
<1>8. CASE OpenFile(r)
  <2> DEFINE m == OfDisk(disk[t].file)
  <2>1. cache' = cache /\ Sets(t, "open", l, m) /\ s # "idle"
    BY <1>1, <1>8 DEF OpenFile, Open, Make, s, t
  <2>2. Mem(m, w)
    <3>1. Mem(OfDisk(w), w)
      BY <1>3, <2>1, OfDiskIs
    <3> QED BY <1>3, <2>1, <3>1
  <2> HIDE DEF m
  <2>3. ReaderIs(t, "open", l, m)
    BY <2>2 DEF ReaderIs, w
  <2> QED BY <1>2, <1>4, <2>1, <2>3
<1>9. CASE LoadPart(r)
  <2>1. s = "loading" /\ cache' = cache /\ InMemSize(l) < Len(w)
    BY <1>3, <1>9 DEF LoadPart, Loaded, s, l
  <2>2. PICK n \in 1 .. Min({Room(l), Len(w) - InMemSize(l)}) :
          Sets(t, s, InMemCommit(l, Cells(w, InMemSize(l), n)), h)
    <3>1. \E n \in 1 .. Min({Room(loading[r]), Len(Content(r)) - Loaded(r)}) :
             loading' = [loading EXCEPT ![r] = InMemCommit(l, Cells(Content(r), Loaded(r), n))]
      BY <1>9 DEF LoadPart, l
    <3>2. UNCHANGED <<doing, table, handle>>
      BY <1>9 DEF LoadPart
    <3> QED BY <1>1, <1>3, <2>1, <3>1, <3>2 DEF Loaded, l
  <2>3. PICK x \in 0 .. Len(w) : Mem(l, SubSeq(w, 1, x))
    BY <1>1, <2>1 DEF ReaderIs, w
  <2>4. x < Len(w) /\ w \in Seq(FileCell)
    <3>1. InMemSize(l) = Len(SubSeq(w, 1, x))
      BY <2>3, ContentIs
    <3>2. w \in Seq(FileCell)
      BY <1>3, <2>1
    <3>3. Len(SubSeq(w, 1, x)) = x
      BY <3>2
    <3> QED BY <2>1, <3>1, <3>2, <3>3
  <2> DEFINE m == InMemCommit(l, Cells(w, InMemSize(l), n))
  <2>5. x + n \in 0 .. Len(w) /\ Mem(m, SubSeq(w, 1, x + n))
    BY <2>3, <2>4, PartLoaded
  <2> HIDE DEF m
  <2>6. ReaderIs(t, "loading", m, h)
    BY <2>5 DEF ReaderIs, w
  <2>7. Sets(t, "loading", m, h)
    BY <2>1, <2>2 DEF m
  <2> QED BY <1>2, <1>4, <2>1, <2>6, <2>7
<1>10. CASE EndLoad(r)
  <2>1. /\ s = "loading" /\ InMemSize(l) = Len(w) /\ Put(t, l)
        /\ \E y : Sets(t, "open", y, l)
    BY <1>1, <1>3, <1>10 DEF EndLoad, Loaded, Make, s, l, t
  <2>2. PICK x \in 0 .. Len(w) : Mem(l, SubSeq(w, 1, x))
    BY <1>1, <2>1 DEF ReaderIs, w
  <2>3. SubSeq(w, 1, x) = w
    <3>1. InMemSize(l) = Len(SubSeq(w, 1, x))
      BY <2>2, ContentIs
    <3>2. w \in Seq(FileCell)
      BY <1>3, <2>1
    <3>3. Len(SubSeq(w, 1, x)) = x
      BY <3>2
    <3>4. x = Len(w)
      BY <2>1, <3>1, <3>3
    <3> QED BY <3>2, <3>4
  <2>4. Mem(l, Whole(t))
    BY <2>2, <2>3 DEF w
  <2>5. OfCache'
    BY <1>3, <2>1, <2>4, PutKeeps
  <2>6. PICK y : Sets(t, "open", y, l)
    BY <2>1
  <2>7. ReaderIs(t, "open", y, l)
    BY <2>4 DEF ReaderIs
  <2> QED BY <1>2, <2>5, <2>6, <2>7
<1>11. CASE Release(r)
  <2>1. cache' = cache /\ Sets(t, "idle", l, NoMem)
    BY <1>1, <1>11 DEF Release
  <2> HIDE DEF NoMem
  <2>2. ReaderIs(t, "idle", l, NoMem)
    BY DEF ReaderIs
  <2> QED BY <1>2, <1>4, <2>1, <2>2
<1> QED BY <1>5, <1>6, <1>7, <1>8, <1>9, <1>10, <1>11 DEF ReaderStep, GetStep

LEMMA FilesInvKept == FilesInv /\ [FilesNext]_filesVars => FilesInv'
<1> SUFFICES ASSUME FilesInv, [FilesNext]_filesVars PROVE FilesInv'
  OBVIOUS
<1> USE DEF FilesInv
<1>1. ASSUME NEW t \in Table, BuildStep(t) \/ VersionStep(t) PROVE FilesInv'
  <2>1. LinkInv' /\ OfTables'
    BY <1>1, TableStepLinks, TableStepKeeps
  <2>2. UNCHANGED <<cache, doing, table, loading, handle>>
    BY <1>1, TableStepLeaves
  <2>3. OfCache' /\ OfReaders'
    BY <2>2 DEF OfCache, OfReaders
  <2> QED BY <2>1, <2>3
<1>2. ASSUME NEW r \in Reader, ReaderStep(r) PROVE FilesInv'
  BY <1>2, ReaderStepLinks, ReaderStepTables, ReaderStepKeeps
<1>3. CASE UNCHANGED filesVars
  BY <1>3 DEF filesVars, tableVars, readerVars, LinkInv, HeldAreLinked, UnlinkedStaysGone,
              OfTables, OfCache, OfReaders
<1> QED BY <1>1, <1>2, <1>3 DEF FilesNext

\* What the invariant says of the properties.
LEMMA FilesInvTypes == FilesInv => FilesTypeOK
<1> SUFFICES ASSUME FilesInv PROVE FilesTypeOK
  OBVIOUS
<1>1. ASSUME NEW t \in Table
      PROVE  Len(disk[t].buffer.data) <= DiskBlock /\ made[t] \in Makings /\ blocks[t] \in Nat
  <2>1. TableIs(t, made[t], disk[t], blocks[t], inMem[t]) /\ made[t] \in Makings
    BY DEF FilesInv, OfTables, LinkInv
  <2>2. \E c : Wrote(disk[t], c)
    <3>1. CASE made[t] \in {"none", "merging"}
      <4>1. <<>> \in Seq(FileCell) /\ disk[t] = NewWritable(DiskBlock, <<>>)
        BY <2>1, <3>1, EmptySeq DEF TableIs, NoFile
      <4> QED BY <4>1, NewWrote
    <3>2. CASE made[t] \in {"flushing", "dumping"}
      BY <2>1, <3>2 DEF TableIs
    <3>3. CASE made[t] \in Complete
      <4>1. disk[t] = NewWritable(DiskBlock, Whole(t))
        BY <2>1, <3>3 DEF TableIs
      <4> QED BY <4>1, WholeParts, NewWrote
    <3> QED BY <2>1, <3>1, <3>2, <3>3 DEF Makings, Complete
  <2>3. Len(disk[t].buffer.data) <= DiskBlock
    BY <2>2, WroteSeq
  <2> QED BY <2>1, <2>3 DEF TableIs
<1> QED BY <1>1 DEF FilesTypeOK, FilesInv, LinkInv, OfTables, OfCache

LEMMA FilesInvComplete == FilesInv => PublishedComplete
BY DEF FilesInv, OfTables, TableIs, Complete, PublishedComplete

LEMMA FilesInvReaders == FilesInv => ReadersGetTheTable
<1> SUFFICES ASSUME FilesInv, NEW r \in Reader, doing[r] = "open"
             PROVE  Parses(handle[r]) /\ BlocksRead(handle[r]) = DataBlocks(table[r])
  BY DEF ReadersGetTheTable
<1>1. table[r] \in Table /\ Mem(handle[r], Whole(table[r]))
  BY DEF FilesInv, LinkInv, OfReaders, ReaderIs
<1> QED BY <1>1, TableRead

(***************************************************************************)
(* Theorems                                                                *)
(***************************************************************************)
\* No buffer of a file ever holds more than it can, however blocks, the meta
\* block and the footer are cut into appends (iouring_writable.cc), and the
\* cache has no more tables than its capacity (table_cache.cc).
THEOREM FilesKeepTypes ==
    ASSUME Table # {} PROVE FilesSpec => []FilesTypeOK
BY FilesInvInit, FilesInvKept, FilesInvTypes, PTL DEF FilesSpec

\* A table that a version has is all in its file, with nothing left in the
\* buffer, whether it was flushed block by block or built in memory and copied.
THEOREM FilesPublishComplete ==
    ASSUME Table # {} PROVE FilesSpec => []PublishedComplete
BY FilesInvInit, FilesInvKept, FilesInvComplete, PTL DEF FilesSpec

\* However a reader came to its table, by a load in parts of any size, from the
\* cache or from the file, it parses and the blocks it reads are those built,
\* for every size of the buffers and every layout of the tables.
THEOREM FilesGiveTheTable ==
    ASSUME Table # {} PROVE FilesSpec => []ReadersGetTheTable
BY FilesInvInit, FilesInvKept, FilesInvReaders, PTL DEF FilesSpec
=============================================================================
