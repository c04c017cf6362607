----------------------------- MODULE TableBytes -----------------------------
(***************************************************************************)
(* The bytes of blocks: what block_builder::finish writes of the segments  *)
(* in Tables, for data blocks and for the meta block of a table, and what  *)
(* parsing finds in them.  Where the blocks are in a file is in TableFiles.*)
(*                                                                         *)
(* A byte is <<field, value, position>>: byte i of a field that holds the  *)
(* value.  Numbers are as wide as in the code.                             *)
(***************************************************************************)
EXTENDS Tables

CONSTANTS
    FilterBytes,  \* what the filter grows by with each key
    PrefixLimit,  \* the length of a prefix has sixteen bits: this is 2^16
    FullAt        \* lengths at which the string of a block_builder has no room left

ASSUME BytesAssumption ==
    /\ FilterBytes \in Nat \ {0}
    /\ \A k \in Key : 0 < KeyBytes[k] /\ KeyBytes[k] + 2 < PrefixLimit
    /\ PrefixLimit \in Nat /\ PrefixLimit > 14   \* the prefix of "bloom_filter"
    /\ FullAt \subseteq Nat

Bytes(field, x, n) == [i \in 1 .. n |-> <<field, x, i>>]

\* The value of the field at offset o.
ValueAt(s, o) == s[o + 1][2]

\* The n bytes from offset o on.
From(s, o, n) == SubSeq(s, o + 1, o + n)

(***************************************************************************)
(* Writing.                                                                *)
(***************************************************************************)
\* serialize_user_key_as_string: the key with its length before it.
UserKey(k) == Bytes("uk", k, 2 + KeyBytes[k])

\* A sequence number, and a value with its length.
ItemOf(e) ==
    Bytes("seq", e.seq, 4)
        \o Bytes("len", ValueBytes[e.value], 4)
        \o Bytes("value", e.value, ValueBytes[e.value])

\* A segment as the bytes of its prefix and of its items.
Image(seg) ==
    [prefix |-> UserKey(seg.key), items |-> [j \in DOMAIN seg.items |-> ItemOf(seg.items[j])]]

\* block_segment_builder: the constructor, and add for every item.
OpenSegment(g) ==
    Bytes("ppl", Len(g.prefix) % PrefixLimit, 2) \o g.prefix
        \o FlattenSeq([j \in DOMAIN g.items |->
                          Bytes("ril", Len(g.items[j]), Ril) \o g.items[j]])

\* block_segment_builder::finish: a length of zero ends the segment.
SegmentBytes(g) == OpenSegment(g) \o Bytes("ril", 0, Ril)

DataArea(gs) == FlattenSeq([n \in DOMAIN gs |-> SegmentBytes(gs[n])])

\* Of n segments, those that block_builder::add notes the offsets of.
SpecialSegments(n) ==
    LET special[m \in 0 .. n] ==
            IF m = 0 THEN <<>>
            ELSE IF StartsInterval(m) THEN Append(special[m - 1], m) ELSE special[m - 1]
    IN  special[n]

\* Mutant: an offset is noted before the segment that ends was added.
SegmentBefore(gs, n) == Btl + Len(DataArea(SubSeq(gs, 1, n - 2)))

\* m_sbsos: an offset counts from the beginning of the block.
SegmentOffset(gs, n) == Btl + Len(DataArea(SubSeq(gs, 1, n - 1)))

\* The offsets, and how many there are.
SpecialBytes(gs) ==
    LET special == SpecialSegments(Len(gs))
    IN  FlattenSeq([i \in DOMAIN special |-> Bytes("sbso", SegmentOffset(gs, special[i]), 4)])
            \o Bytes("nsbs", Len(special), 2)

Content(gs) == DataArea(gs) \o SpecialBytes(gs)

\* The compressor is external: one byte stands for what it makes of c.
Compressed(c) == Bytes("compressed", c, 1)

\* The checksum is calculated after the byte before it was appended.  When the
\* string has no room for that one, it moves, and the content that the span
\* still points to was freed: it may be there or not.
Summed(body, compress, length) ==
    IF ~compress /\ length \in FullAt THEN {body, <<>>} ELSE {body}

TotalLength(body) == Btl + Len(body) + 1 + 4

\* block_builder::finish: the blocks it may write of a content.
FinishedBlocks(content, compress) ==
    LET body == IF compress THEN Compressed(content) ELSE content
    IN  {Bytes("btl", TotalLength(body), Btl) \o body
            \o Bytes("wc", compress, 1) \o Bytes("crc", summed, 4) :
           summed \in Summed(body, compress, Btl + Len(content))}

(***************************************************************************)
(* Parsing a block.                                                        *)
(***************************************************************************)
BtlValue(s) == ValueAt(s, 0)
CrcBeg(s) == BtlValue(s) - 4
WcBeg(s) == CrcBeg(s) - 1
BodyOf(s) == From(s, Btl, WcBeg(s) - Btl)

\* block_integrity_check
Intact(s) == BodyOf(s) = ValueAt(s, CrcBeg(s))

\* block_decompress_to: the last five bytes are not set.
Decompressed(s) ==
    LET content == ValueAt(s, Btl)
    IN  IF ValueAt(s, WcBeg(s))
        THEN Bytes("btl", TotalLength(content), Btl) \o content \o Bytes("unset", 0, 5)
        ELSE s

NsbsBeg(s) == WcBeg(s) - 2
MetaDataBeg(s) == NsbsBeg(s) - ValueAt(s, NsbsBeg(s)) * 4

\* block::parse_meta_data
SpecialOffsets(s) ==
    [i \in 1 .. ValueAt(s, NsbsBeg(s)) |-> ValueAt(s, MetaDataBeg(s) + 4 * (i - 1))]

\* The four bytes at o are zero, of whatever field they are.
AtZero(s, o) == ValueAt(s, o) = 0

NextItem(s, i) == i + Ril + ValueAt(s, i)

\* At i an item begins that ends before the sentinal.
ItemAt(s, i, sentinal) ==
    i < sentinal /\ ~AtZero(s, i) /\ NextItem(s, i) \in (i + 1) .. sentinal

\* Where a segment ends that has no more items at i: behind a length of zero, and
\* past the sentinal if an item goes on past it (parse_result_t::partial).
SegmentEnd(s, i, sentinal) ==
    IF AtZero(s, i) THEN i + Ril ELSE IF i < sentinal THEN sentinal + 1 ELSE i

\* The items from offset i on, and where the segment ends after them.
ItemsFrom(s, i, sentinal) ==
    LET from[j \in 1 .. sentinal] ==
            IF ItemAt(s, j, sentinal)
            THEN [from[NextItem(s, j)] EXCEPT !.items =
                     <<From(s, j + Ril, ValueAt(s, j))>> \o @]
            ELSE [items |-> <<>>, end |-> SegmentEnd(s, j, sentinal)]
    IN  from[i]

\* block_segment::parse, of the bytes from offset o to sentinal.
SegmentAt(s, o, sentinal) ==
    LET first == o + 2 + ValueAt(s, o)
        rest == ItemsFrom(s, first, sentinal)
    IN  [prefix |-> From(s, o + 2, ValueAt(s, o)), items |-> rest.items, end |-> rest.end]

\* At i a segment begins that is parsed successfully (parse_result_t::success).
SegmentIn(s, i, sentinal) ==
    /\ i < sentinal
    /\ ValueAt(s, i) # 0
    /\ i + 2 + ValueAt(s, i) \in (i + 1) .. sentinal
    /\ SegmentAt(s, i, sentinal).end \in (i + 1) .. sentinal

\* segments_in_single_interval, and segments.
SegmentsFrom(s, o, sentinal) ==
    LET from[i \in 1 .. sentinal] ==
            IF SegmentIn(s, i, sentinal)
            THEN LET seg == SegmentAt(s, i, sentinal)
                 IN  <<[prefix |-> seg.prefix, items |-> seg.items]>> \o from[seg.end]
            ELSE <<>>
    IN  from[o]

AllSegments(s) == SegmentsFrom(s, SpecialOffsets(s)[1], MetaDataBeg(s))

\* Where interval i of a block ends.
IntervalEnd(s, i) ==
    IF i = Len(SpecialOffsets(s)) THEN MetaDataBeg(s) ELSE SpecialOffsets(s)[i + 1]

\* entries_from_block_segment, and kv_user_value::parse.
KeyOf(g) == CHOOSE k \in Key : UserKey(k) = g.prefix
ValueOfItem(item) ==
    IF ValueAt(item, 4) = 0 THEN Tomb
    ELSE CHOOSE v \in Value : Bytes("value", v, ValueBytes[v]) = From(item, 8, ValueAt(item, 4))
EntriesOf(g) ==
    [j \in DOMAIN g.items |->
        [key |-> KeyOf(g), seq |-> ValueAt(g.items[j], 0), value |-> ValueOfItem(g.items[j])]]

(***************************************************************************)
(* The meta block of a table.                                              *)
(***************************************************************************)
Name(x, n) == Bytes("name", x, 2 + n)
LastUk == Name("last_uk", 7)
FirstUk == Name("first_uk", 8)
Filter == Name("bloom_filter", 12)

FilterRep(t) == Bytes("filter", t.filter, FilterBytes * Cardinality(t.filter))

\* One item of number zero.
MetaImage(name, rep) ==
    [prefix |-> name,
     items |-> <<Bytes("seq", 0, 4) \o Bytes("len", Len(rep), 4) \o rep>>]

\* sstable_builder::finish adds these to meta_builder, and moves it.
MetaImages(t) ==
    <<MetaImage(LastUk, UserKey(t.last)), MetaImage(FirstUk, UserKey(t.first)),
      MetaImage(Filter, FilterRep(t))>>

\* The builder of the last segment still refers to the string that was moved from:
\* it is there that block_builder::finish ends the segment, and not in the block.
MetaContent(gs) == DataArea(Front(gs)) \o OpenSegment(Last(gs)) \o SpecialBytes(gs)

MetaBlocks(t) == FinishedBlocks(MetaContent(MetaImages(t)), FALSE)

\* sstable::parse_meta_data reads the first interval, which must be all.  The parser
\* looks for the end of the last segment behind it, at the first of the offsets.
MetaValue(s, name) ==
    LET segs == SegmentsFrom(s, SpecialOffsets(s)[1], IntervalEnd(s, 1))
        item == (CHOOSE g \in Range(segs) : g.prefix = name).items[1]
    IN  From(item, 8, ValueAt(item, 4))

(***************************************************************************)
(* Properties.                                                             *)
(***************************************************************************)
Images(blk) == [n \in DOMAIN blk.segs |-> Image(blk.segs[n])]

\* The table that was finished last.
Newest == IF tables = <<>> THEN {} ELSE {Last(tables)}

\* What is parsed of the block that was written, compressed or not, is the block
\* as Tables has it: its entries, where its intervals start, and the length by
\* which add decided that it was full.
ParsedAsBuilt(blk) ==
    \A compress \in BOOLEAN : \A b \in FinishedBlocks(Content(Images(blk)), compress) :
        LET s == Decompressed(b)
            segs == AllSegments(s)
            at == SpecialOffsets(s)
        IN  /\ Intact(b) \/ Btl + Len(Content(Images(blk))) \in FullAt
            /\ FlattenSeq([n \in DOMAIN segs |-> EntriesOf(segs[n])]) = BlockEntries(blk)
            /\ [i \in DOMAIN at |-> SegmentAt(s, at[i], MetaDataBeg(s)).prefix]
                  = [i \in DOMAIN blk.special |-> UserKey(blk.segs[blk.special[i]].key)]
            /\ MetaDataBeg(s) - Ril = blk.bytes

BlocksParse == \A t \in Newest : \A i \in DOMAIN t.blocks : ParsedAsBuilt(t.blocks[i])

\* A finished table can be opened, although nothing ends the last segment of its meta
\* block: the block is intact and has one interval, which gives the first key, the
\* last key and the filter of its entries.
Opens(t) ==
    \A s \in MetaBlocks(t) :
        /\ Intact(s) \/ Btl + Len(MetaContent(MetaImages(t))) \in FullAt
        /\ Len(SpecialOffsets(s)) = 1
        /\ MetaValue(s, FirstUk) = UserKey(Min(KeysOf(t)))
        /\ MetaValue(s, LastUk) = UserKey(Max(KeysOf(t)))
        /\ MetaValue(s, Filter) = Bytes("filter", KeysOf(t), FilterBytes * Cardinality(KeysOf(t)))

TablesOpen == \A t \in Newest : Opens(t)
=============================================================================
