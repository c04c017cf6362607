------------------------------- MODULE Tables -------------------------------
(***************************************************************************)
(* How a sorted list of entries, the storage of a memtable or the result   *)
(* of a merge, becomes tables, and how tables are read.                    *)
(*                                                                         *)
(* A table is a list of blocks, a block a list of segments, and a segment  *)
(* has the entries of one key.  Keys are numbered in the order of their    *)
(* serialised form, which is that of their lengths first.                  *)
(***************************************************************************)
EXTENDS Entries, SequencesExt

CONSTANTS
    SeqNum,       \* sequence numbers
    Value,        \* values, with
    Tomb,         \* the tombstone, and
    Empty,        \* the value of length zero
    KeyBytes,     \* the length of a key,
    ValueBytes,   \* and of a value
    BlockSize,    \* options::block_size
    SizeLimit,    \* options::level_file_size of the level
    Interval,     \* options::max_block_segments_number
    Hashes,       \* the number of hashes of the bloom filter
    Listed        \* entries the list may have

\* The meta block has three segments and must have one interval (parse_meta_data
\* asserts it): with an interval below five no table can be opened.
ASSUME TableAssumption ==
    /\ SeqNum \subseteq Nat
    /\ Tomb \in Value /\ Empty \in Value /\ Tomb # Empty
    /\ KeyBytes \in [Key -> Nat]
    /\ ValueBytes \in [Value -> Nat]
    /\ \A v \in Value : ValueBytes[v] = 0 <=> v \in {Tomb, Empty}
    /\ BlockSize \in Nat
    /\ SizeLimit \in Nat \ {0}
    /\ Interval \in Nat /\ Interval >= 5
    /\ Hashes \in Nat
    /\ Listed \subseteq [key : Key, seq : SeqNum, value : Value]

VARIABLES
    builder,    \* the sstable_builder in use
    tables,     \* the tables finished, in turn
    given,      \* history: the entries added, in turn
    finished

tablesVars == <<builder, tables, given, finished>>

Written == [key : Key, seq : SeqNum, value : Value]
Segment == [key : Key, items : Seq(Written)]
\* The segments, the numbers of those at the start of an interval, and the
\* length of the storage.
Block == [segs : Seq(Segment), special : Seq(Nat), bytes : Nat]
Table == [blocks : Seq(Block), filter : SUBSET Key, first : Nat, last : Nat]
Builder == [block : Block, blocks : Seq(Block), flushed : Nat,
            filter : SUBSET Key, first : Nat, last : Nat]

\* Entries of the same key are next to each other, the oldest first.
Before(d, e) == d.key < e.key \/ (d.key = e.key /\ d.seq < e.seq)

(***************************************************************************)
(* Building.                                                               *)
(***************************************************************************)
Ril == 4   \* a length before an item; zero ends a segment
Btl == 4   \* the length before a block

\* A prefix with its length, and the key in it with its own.
HeadBytes(k) == 2 + 2 + KeyBytes[k]
\* The length, the sequence number, the length of the value, the value.
ItemBytes(e) == Ril + 4 + 4 + ValueBytes[e.value]

EmptyBlock == [segs |-> <<>>, special |-> <<>>, bytes |-> Btl]

\* Mutant: segments are counted from one too many.
StartsEarlier(n) == n = 1 \/ (n + 2) % Interval = 0

\* Which segments of a block are special.
StartsInterval(n) == n = 1 \/ (n + 1) % Interval = 0

\* block_segment_builder::add takes entries of its own key only.
Continues(blk, e) == blk.segs # <<>> /\ Last(blk.segs).key = e.key

\* block_builder::add
AddToBlock(blk, e) ==
    LET n == Len(blk.segs)
    IN  IF Continues(blk, e)
        THEN [blk EXCEPT !.segs[n].items = Append(@, e),
                         !.bytes = @ + ItemBytes(e)]
        ELSE [segs |-> Append(blk.segs, [key |-> e.key, items |-> <<e>>]),
              special |-> IF StartsInterval(n + 1)
                          THEN Append(blk.special, n + 1) ELSE blk.special,
              bytes |-> blk.bytes + (IF n = 0 THEN 0 ELSE Ril)
                        + HeadBytes(e.key) + ItemBytes(e)]

NewBuilder == [block |-> EmptyBlock, blocks |-> <<>>, flushed |-> 0,
               filter |-> {}, first |-> 0, last |-> 0]

\* m_size_flushed grows by the bytes of the block builder, which is a new
\* one by then.
ReachesTheSizeLimit(b) == b.flushed >= SizeLimit

\* Mutant: a full block goes to the file and the builder keeps its contents.
BlockKept(blk) == blk

\* flush_current_block leaves a new block builder.
BlockAfterFlush(blk) == EmptyBlock

\* Mutant: the filter is given the key followed by its sequence number.
FilterOfSequenced(b, e) == b.filter \cup {10 * e.key + e.seq}

\* append_new_filter
FilterWith(b, e) == b.filter \cup {e.key}

\* Mutant: the last key is set once, like the first one.
LastSetOnce(b, e) == IF b.filter = {} THEN e.key ELSE b.last

\* m_last_uk
LastWith(b, e) == e.key

\* sstable_builder::add, below the size limit
AddTo(b, e) ==
    LET blk == AddToBlock(b.block, e)
        full == blk.bytes >= BlockSize
        next == IF full THEN BlockAfterFlush(blk) ELSE blk
    IN  [block |-> next,
         blocks |-> IF full THEN Append(b.blocks, blk) ELSE b.blocks,
         flushed |-> IF full THEN b.flushed + next.bytes ELSE b.flushed,
         filter |-> FilterWith(b, e),
         first |-> IF b.filter = {} THEN e.key ELSE b.first,
         last |-> LastWith(b, e)]

\* sstable_builder::finish: the last block may be empty, and is not written.
FinishTable(b) ==
    [blocks |-> IF b.block.segs = <<>> THEN b.blocks ELSE Append(b.blocks, b.block),
     filter |-> b.filter, first |-> b.first, last |-> b.last]

TablesInit ==
    /\ builder = NewBuilder
    /\ tables = <<>>
    /\ given = <<>>
    /\ finished = FALSE

\* The next entry of the list.
Give(e) ==
    /\ ~finished
    /\ given # <<>> => Before(Last(given), e)
    /\ given' = Append(given, e)
    /\ UNCHANGED finished

\* add returns true.
Add(e) ==
    /\ Give(e)
    /\ ~ReachesTheSizeLimit(builder)
    /\ builder' = AddTo(builder, e)
    /\ UNCHANGED tables

\* add returns false: the table is finished, the entry goes to the next one.
AddToNext(e) ==
    /\ Give(e)
    /\ ReachesTheSizeLimit(builder)
    /\ tables' = Append(tables, FinishTable(builder))
    /\ builder' = AddTo(NewBuilder, e)

\* The end of the list, which is not empty.
Finish ==
    /\ ~finished
    /\ given # <<>>
    /\ tables' = Append(tables, FinishTable(builder))
    /\ builder' = NewBuilder
    /\ finished' = TRUE
    /\ UNCHANGED given

TablesNext ==
    \/ \E e \in Listed : Add(e) \/ AddToNext(e)
    \/ Finish

TablesSpec == TablesInit /\ [][TablesNext]_tablesVars

(***************************************************************************)
(* Reading.                                                                *)
(***************************************************************************)
\* kv_user_value::parse: a length of zero is a tombstone.
Parsed(e) == IF e.value = Empty THEN [e EXCEPT !.value = Tomb] ELSE e

\* block_segment::larger_equal_than_this_public_prefix
NotAfter(seg, k) == seg.key <= k

\* The segments from a special one to the next.
SegmentsInInterval(blk, i) ==
    LET end == IF i = Len(blk.special) THEN Len(blk.segs) ELSE blk.special[i + 1] - 1
    IN  {blk.segs[j] : j \in blk.special[i] .. end}

\* Mutant: a key that starts an interval is looked for in the one before.
SearchesUpTo(blk, i, k) ==
    /\ NotAfter(blk.segs[blk.special[i]], k)
    /\ i < Len(blk.special) => k <= blk.segs[blk.special[i + 1]].key
    /\ i > 1 => k # blk.segs[blk.special[i]].key

\* The intervals block::get searches.
Searches(blk, i, k) ==
    /\ NotAfter(blk.segs[blk.special[i]], k)
    /\ i < Len(blk.special) => ~NotAfter(blk.segs[blk.special[i + 1]], k)

\* block::get
GetFromBlock(blk, k) ==
    {seg \in UNION {SegmentsInInterval(blk, i) :
                      i \in {i \in DOMAIN blk.special : Searches(blk, i, k)}} :
        seg.key = k}

\* The block sstable::get_segment searches: that with the last first key up to k.
SearchesBlock(t, i, k) ==
    /\ NotAfter(t.blocks[i].segs[1], k)
    /\ i < Len(t.blocks) => ~NotAfter(t.blocks[i + 1].segs[1], k)

GetSegment(t, k) ==
    UNION {GetFromBlock(t.blocks[i], k) :
             i \in {i \in DOMAIN t.blocks : SearchesBlock(t, i, k)}}

\* bloom_filter::may_match takes what append_new_filter wrote for every key
\* for one filter, unless there are more than thirty hashes.
MayMatch(t, k) ==
    IF Hashes > 30 \/ t.filter = {k} THEN {TRUE} ELSE BOOLEAN

\* sstable::get_kv_entry: what it may return, none or one entry.
GetKvEntry(t, k, s) ==
    LET upTo(seg) == {j \in DOMAIN seg.items : seg.items[j].seq <= s}
        found == {Parsed(seg.items[Max(upTo(seg))]) :
                    seg \in {seg \in GetSegment(t, k) : upTo(seg) # {}}}
    IN  {IF match THEN found ELSE {} : match \in MayMatch(t, k)}

\* entries_from_block_segment, block::entries, get_entries_from_sstable
SegmentEntries(seg) == [j \in DOMAIN seg.items |-> Parsed(seg.items[j])]
BlockEntries(blk) == FlattenSeq([i \in DOMAIN blk.segs |-> SegmentEntries(blk.segs[i])])
TableEntries(t) == FlattenSeq([i \in DOMAIN t.blocks |-> BlockEntries(t.blocks[i])])

\* sstable::disjoint, from the keys in the meta block
Disjoint(t, u) ==
    \/ t.first < u.first /\ t.last < u.first
    \/ u.first < t.first /\ u.last < t.first

(***************************************************************************)
(* Properties.                                                             *)
(***************************************************************************)
\* What the blocks hold, in whatever order.
BlockHolds(blk) == UNION {Range(blk.segs[i].items) : i \in DOMAIN blk.segs}
Holds(blocks) == UNION {BlockHolds(blocks[i]) : i \in DOMAIN blocks}

TablesTypeOK ==
    /\ builder \in Builder
    /\ tables \in Seq(Table)
    /\ given \in Seq(Written)
    /\ finished \in BOOLEAN

KeysOf(t) == {e.key : e \in Holds(t.blocks)}

\* The entries of k go on in another block of t.
Split(t, k) ==
    \E i, j \in DOMAIN t.blocks :
        /\ i # j
        /\ \A n \in {i, j} : k \in {e.key : e \in BlockHolds(t.blocks[n])}

\* "Assume that the kv_entry range is sorted": reading the tables one after
\* the other, as a compaction does, gives back the list they were built from,
\* in its order, whatever blocks, segments and tables it was cut into; only a
\* value of length zero comes back as a deletion.
ReadBack ==
    finished =>
        FlattenSeq([i \in DOMAIN tables |-> TableEntries(tables[i])])
            = [i \in DOMAIN given |-> Parsed(given[i])]

\* get_kv_entry searches one block, one interval of it and one segment: that is
\* where the newest entry of the key up to the number is, if the table has
\* one.  When a block became full between two entries of the key, this holds
\* for numbers from its newest entry on only.
LookupsFind ==
    \A i \in DOMAIN tables, k \in Key, s \in SeqNum :
        LET t == tables[i]
            E == {Parsed(e) : e \in Holds(t.blocks)}
        IN  ~Split(t, k) \/ (\A e \in E : e.key = k => e.seq <= s)
            => GetKvEntry(t, k, s) = {NewestOf(E, k, s)}

\* What sstable::disjoint concludes from the meta blocks is what the entries
\* say; the choice of tables for a compaction relies on it.
DisjointExact ==
    \A i, j \in DOMAIN tables :
        LET A == KeysOf(tables[i])
            B == KeysOf(tables[j])
        IN  Disjoint(tables[i], tables[j])
            <=> (\A a \in A, b \in B : a < b) \/ (\A a \in A, b \in B : b < a)
=============================================================================
