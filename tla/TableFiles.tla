----------------------------- MODULE TableFiles -----------------------------
(***************************************************************************)
(* The files of tables, as bytes: a flush writes one through the buffer of *)
(* a file, a compaction builds one in memory and then copies it to disk,   *)
(* and gets and compactions open them, through the cache or not, while     *)
(* others are dropped and unlinked.                                        *)
(*                                                                         *)
(* A table is its layout, the lengths of its data blocks; what the blocks  *)
(* hold is in Tables, and which tables a version has in VersionStore.      *)
(***************************************************************************)
EXTENDS Buffers

CONSTANTS
    Table,       \* names of tables, each used once
    Reader,      \* gets and compactions
    Layouts,     \* of each table, the lengths of its data blocks
    MetaLength,  \* the length of a meta block
    DiskBlock,   \* disk_block_bytes: the buffer of a file
    MemBlock,    \* the buffers of a table built by a compaction
    CacheBlock,  \* the buffers of a table in the cache: 4096
    Capacity     \* how many tables the cache may hold

ASSUME TableFilesAssumption ==
    /\ Layouts \in [Table -> Seq(Nat \ {0}) \ {<<>>}]
    /\ MetaLength \in Nat \ {0}
    /\ DiskBlock \in Nat \ {0} /\ MemBlock \in Nat \ {0} /\ CacheBlock \in Nat \ {0}
    /\ Capacity \in Nat \ {0}

VARIABLES
    disk,        \* the file of each table: its buffer and what is written
    present,     \* the tables whose names are in the directory
    made,        \* where each table is, from its building to its unlinking
    blocks,      \* how many of its data blocks are appended
    inMem,       \* the file in memory that a compaction builds it in
    cache,       \* m_tables: the files in memory of the tables it has
    doing,       \* what each reader does
    table,       \* the table it reads
    loading,     \* the file in memory it loads it to
    handle       \* the file it parsed

tableVars == <<disk, present, made, blocks, inMem>>
readerVars == <<doing, table, loading, handle>>
filesVars == <<tableVars, cache, readerVars>>

NoFile == NewWritable(DiskBlock, <<>>)
NoMem == NewInMem(1)

(***************************************************************************)
(* The bytes of a table.                                                   *)
(***************************************************************************)
Cell(f, n) == [is |-> f, of |-> n]

\* A block of n cells begins with its length.
DataBlock(i, n) == [j \in 1 .. n |-> IF j = 1 THEN Cell("btl", n) ELSE Cell("data", i)]
MetaBlock == [j \in 1 .. MetaLength |-> IF j = 1 THEN Cell("btl", MetaLength) ELSE Cell("meta", 0)]

\* The offset of the meta block, and the magic number.
Footer(mbo) == <<Cell("mbo", mbo), Cell("magic", 0)>>
FooterSize == Len(Footer(0))

DataBlocks(t) == [i \in DOMAIN Layouts[t] |-> DataBlock(i, Layouts[t][i])]
Data(t) == FlattenSeq(DataBlocks(t))
FooterOf(t) == Footer(Len(Data(t)))
Whole(t) == Data(t) \o MetaBlock \o FooterOf(t)

(***************************************************************************)
(* Parsing a file m.                                                       *)
(***************************************************************************)
FooterBeg(m) == InMemSize(m) - FooterSize
Mbo(m) == InMemRead(m, FooterBeg(m), 1)[1].of

\* btl_value_impl
BtlAt(m, o) == InMemRead(m, o, 1)[1].of

\* generate_block_offsets_impl reads the length of each block from the block.
BlockOffsets(m) ==
    LET from[o \in 0 .. Mbo(m)] ==
            IF o >= Mbo(m) \/ BtlAt(m, o) = 0 THEN <<>>
            ELSE IF o + BtlAt(m, o) > Mbo(m) THEN <<<<o, BtlAt(m, o)>>>>
            ELSE <<<<o, BtlAt(m, o)>>>> \o from[o + BtlAt(m, o)]
    IN  from[0]

\* parse_meta_data succeeds.
Parses(m) ==
    /\ FooterBeg(m) > 0
    /\ LET footer == InMemRead(m, FooterBeg(m), FooterSize)
       IN  /\ Len(footer) = FooterSize /\ footer[2] = Cell("magic", 0)
           /\ footer[1].is = "mbo"
           /\ InMemRead(m, Mbo(m), FooterBeg(m) - Mbo(m)) = MetaBlock

\* get_block, of all blocks.
BlocksRead(m) ==
    LET offsets == BlockOffsets(m)
    IN  [i \in DOMAIN offsets |-> InMemRead(m, offsets[i][1], offsets[i][2])]

\* A file on disk is read as one block.
OfDisk(content) == [size |-> Len(content), blocks |-> <<[capa |-> Len(content), data |-> content]>>]

(***************************************************************************)
(* Types                                                                   *)
(***************************************************************************)
Makings == {"none", "flushing", "flushed", "merging", "dumping", "dumped", "published",
            "dropped", "unlinked"}
Doings == {"idle", "held", "loading", "open"}

FilesTypeOK ==
    /\ \A t \in Table :
          /\ Len(disk[t].buffer.data) <= DiskBlock
          /\ made[t] \in Makings
          /\ blocks[t] \in Nat
    /\ present \subseteq Table
    /\ DOMAIN cache \subseteq Table /\ Cardinality(DOMAIN cache) <= Capacity
    /\ doing \in [Reader -> Doings]
    /\ table \in [Reader -> Table]

FilesInit ==
    /\ disk = [t \in Table |-> NoFile]
    /\ present = {}
    /\ made = [t \in Table |-> "none"]
    /\ blocks = [t \in Table |-> 0]
    /\ inMem = [t \in Table |-> NoMem]
    /\ cache = <<>>
    /\ doing = [r \in Reader |-> "idle"]
    /\ table = [r \in Reader |-> CHOOSE t \in Table : TRUE]
    /\ loading = [r \in Reader |-> NoMem]
    /\ handle = [r \in Reader |-> NoMem]

(***************************************************************************)
(* A flush writes a table.                                                 *)
(***************************************************************************)
\* get_file, and open for writing.
StartFlush(t) ==
    /\ made[t] = "none"
    /\ made' = [made EXCEPT ![t] = "flushing"]
    /\ present' = present \cup {t}
    /\ UNCHANGED <<disk, blocks, inMem, cache, readerVars>>

AllAppended(t) == blocks[t] = Len(Layouts[t])
NextBlock(t) == DataBlocks(t)[blocks[t] + 1]

\* flush_current_block: a block is appended, and flushed if it was full; the
\* last one need not be.
FlushBlock(t) ==
    /\ made[t] = "flushing"
    /\ ~AllAppended(t)
    /\ LET w == AppendFile(disk[t], NextBlock(t))
       IN  \/ disk' = [disk EXCEPT ![t] = FlushValid(w)]
           \/ blocks[t] + 1 = Len(Layouts[t]) /\ disk' = [disk EXCEPT ![t] = w]
    /\ blocks' = [blocks EXCEPT ![t] = @ + 1]
    /\ UNCHANGED <<present, made, inMem, cache, readerVars>>

\* The meta block and the footer of a finished table.
Finished(w, t) == AppendFile(AppendFile(w, MetaBlock), FooterOf(t))

\* Mutant: the file is closed with its buffer unwritten.
ClosedUnwritten(w) == w

\* close
Closed(w) == FlushValid(w)

\* finish, which closes the file; sync then has no file to sync.
FinishFlush(t) ==
    /\ made[t] = "flushing"
    /\ AllAppended(t)
    /\ disk' = [disk EXCEPT ![t] = Closed(Finished(disk[t], t))]
    /\ made' = [made EXCEPT ![t] = "flushed"]
    /\ UNCHANGED <<present, blocks, inMem, cache, readerVars>>

(***************************************************************************)
(* A compaction builds a table in memory, and copies it.                   *)
(***************************************************************************)
BuiltInMem(t) ==
    LET built[i \in 0 .. Len(Layouts[t])] ==
            IF i = 0 THEN NewInMem(MemBlock)
            ELSE InMemAppend(built[i - 1], DataBlocks(t)[i])
    IN  InMemAppend(InMemAppend(built[Len(Layouts[t])], MetaBlock), FooterOf(t))

\* merged_list_to_sst
MergeInMem(t) ==
    /\ made[t] = "none"
    /\ made' = [made EXCEPT ![t] = "merging"]
    /\ inMem' = [inMem EXCEPT ![t] = BuiltInMem(t)]
    /\ UNCHANGED <<disk, present, blocks, cache, readerVars>>

\* fake_file_to_disk opens the file ...
StartDump(t) ==
    /\ made[t] = "merging"
    /\ InMemSize(inMem[t]) > 0
    /\ made' = [made EXCEPT ![t] = "dumping"]
    /\ present' = present \cup {t}
    /\ UNCHANGED <<disk, blocks, inMem, cache, readerVars>>

\* ... appends buffer after buffer ...
DumpBlock(t) ==
    /\ made[t] = "dumping"
    /\ blocks[t] < Len(Spans(inMem[t]))
    /\ disk' = [disk EXCEPT ![t] = AppendFile(@, Spans(inMem[t])[blocks[t] + 1])]
    /\ blocks' = [blocks EXCEPT ![t] = @ + 1]
    /\ UNCHANGED <<present, made, inMem, cache, readerVars>>

\* ... and syncs it, which writes what the buffer has.
SyncDump(t) ==
    /\ made[t] = "dumping"
    /\ blocks[t] = Len(Spans(inMem[t]))
    /\ disk' = [disk EXCEPT ![t] = FlushValid(@)]
    /\ made' = [made EXCEPT ![t] = "dumped"]
    /\ inMem' = [inMem EXCEPT ![t] = NoMem]
    /\ UNCHANGED <<present, blocks, cache, readerVars>>

(***************************************************************************)
(* The life of a table in versions: external to this module.               *)
(***************************************************************************)
Publish(t) ==
    /\ made[t] \in {"flushed", "dumped"}
    /\ made' = [made EXCEPT ![t] = "published"]
    /\ UNCHANGED <<disk, present, blocks, inMem, cache, readerVars>>

DropTable(t) ==
    /\ made[t] = "published"
    /\ made' = [made EXCEPT ![t] = "dropped"]
    /\ UNCHANGED <<disk, present, blocks, inMem, cache, readerVars>>

Held(t) == \E r \in Reader : doing[r] # "idle" /\ table[r] = t

\* Mutant: a table that no version has is unlinked.
AnyHolder(t) == TRUE

\* file_center::GC unlinks tables that have no guard.
Unreferenced(t) == ~Held(t)

Unlink(t) ==
    /\ made[t] = "dropped"
    /\ Unreferenced(t)
    /\ made' = [made EXCEPT ![t] = "unlinked"]
    /\ present' = present \ {t}
    /\ UNCHANGED <<disk, blocks, inMem, cache, readerVars>>

(***************************************************************************)
(* Readers                                                                 *)
(***************************************************************************)
\* The reader takes a guard of a table of the current version.
Hold(r, t) ==
    /\ doing[r] = "idle"
    /\ made[t] = "published"
    /\ doing' = [doing EXCEPT ![r] = "held"]
    /\ table' = [table EXCEPT ![r] = t]
    /\ UNCHANGED <<tableVars, cache, loading, handle>>

\* sstable::make parses the file.  It asserts that it can, which
\* ReadersGetTheTable says.
Make(r, m) ==
    /\ doing' = [doing EXCEPT ![r] = "open"]
    /\ handle' = [handle EXCEPT ![r] = m]

\* The table is in the cache, parsed.
FindCached(r) ==
    /\ doing[r] = "held"
    /\ table[r] \in DOMAIN cache
    /\ Make(r, cache[table[r]])
    /\ UNCHANGED <<tableVars, cache, table, loading>>

\* It is not, and its file is opened, which creates it if it is not there.
Open(r) ==
    /\ doing[r] = "held"
    /\ table[r] \notin DOMAIN cache
    /\ present' = present \cup {table[r]}
    /\ UNCHANGED <<disk, made, blocks, inMem, cache, table>>

\* finsert, of a get, loads the file, ...
StartLoad(r) ==
    /\ Open(r)
    /\ doing' = [doing EXCEPT ![r] = "loading"]
    /\ loading' = [loading EXCEPT ![r] = NewInMem(CacheBlock)]
    /\ UNCHANGED handle

\* ... and the getter of a compaction parses it as it is.
OpenFile(r) ==
    /\ Open(r)
    /\ Make(r, OfDisk(disk[table[r]].file))
    /\ UNCHANGED loading

Loaded(r) == InMemSize(loading[r])
Content(r) == disk[table[r]].file

\* dump_to reads as much as fits in a buffer, or less.
LoadPart(r) ==
    /\ doing[r] = "loading"
    /\ Loaded(r) < Len(Content(r))
    /\ \E n \in 1 .. Min({Room(loading[r]), Len(Content(r)) - Loaded(r)}) :
          loading' = [loading EXCEPT ![r] =
                        InMemCommit(@, Cells(Content(r), Loaded(r), n))]
    /\ UNCHANGED <<tableVars, cache, doing, table, handle>>

\* put: other tables leave the cache when it is full.
Put(t, m) ==
    \E S \in SUBSET (DOMAIN cache \ {t}) :
        /\ Cardinality(S) = Min({Capacity - 1, Cardinality(DOMAIN cache \ {t})})
        /\ cache' = [u \in S \cup {t} |-> IF u = t THEN m ELSE cache[u]]

\* All is read: it is parsed and put into the cache.
EndLoad(r) ==
    /\ doing[r] = "loading"
    /\ Loaded(r) = Len(Content(r))
    /\ Make(r, loading[r])
    /\ Put(table[r], loading[r])
    /\ loading' = [loading EXCEPT ![r] = NoMem]
    /\ UNCHANGED <<tableVars, table>>

\* The reader is done with the table and drops its guard.
Release(r) ==
    /\ doing[r] = "open"
    /\ doing' = [doing EXCEPT ![r] = "idle"]
    /\ handle' = [handle EXCEPT ![r] = NoMem]
    /\ UNCHANGED <<tableVars, cache, table, loading>>

BuildStep(t) ==
    \/ StartFlush(t) \/ FlushBlock(t) \/ FinishFlush(t)
    \/ MergeInMem(t) \/ StartDump(t) \/ DumpBlock(t) \/ SyncDump(t)

VersionStep(t) == Publish(t) \/ DropTable(t) \/ Unlink(t)

GetStep(r) == FindCached(r) \/ StartLoad(r) \/ LoadPart(r) \/ EndLoad(r)

ReaderStep(r) ==
    \/ GetStep(r)
    \/ OpenFile(r)
    \/ Release(r)
    \/ \E t \in Table : Hold(r, t)

FilesNext ==
    \/ \E t \in Table : BuildStep(t) \/ VersionStep(t)
    \/ \E r \in Reader : ReaderStep(r)

FilesSpec == FilesInit /\ [][FilesNext]_filesVars

\* A coroutine that can run does run.
FairFilesSpec == FilesSpec /\ \A r \in Reader : WF_filesVars(GetStep(r))

(***************************************************************************)
(* Properties.                                                             *)
(***************************************************************************)
\* Whatever way a reader got a table, by a load in parts, from the cache or
\* from the file, and whatever others load, put or evict meanwhile, its blocks
\* are those that were built.
ReadersGetTheTable ==
    \A r \in Reader :
        doing[r] = "open" =>
            Parses(handle[r]) /\ BlocksRead(handle[r]) = DataBlocks(table[r])

\* All of a table is in its file, nothing in a buffer, before a version has it.
PublishedComplete ==
    \A t \in Table : made[t] \in {"published", "dropped"} =>
        disk[t] = NewWritable(DiskBlock, Whole(t))

\* Nobody opens, and thereby creates again, empty, a file that was unlinked.
UnlinkedStaysGone == \A t \in Table : made[t] = "unlinked" => t \notin present

\* A reader that has a guard gets its table in the end.
OpeningEnds == \A r \in Reader : doing[r] = "held" ~> doing[r] = "open"
=============================================================================
