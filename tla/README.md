# FrenzyKV: a verification project

FrenzyKV is a persistent key-value store in C++, an LSM tree written with
coroutines: `db/db_local.cc` is the store, and around it are a memtable, a
write-ahead log, SSTables in levels, versions and snapshots, compaction, a
garbage collector and a layer of files over io_uring. This directory holds TLA+
models of it, the TLC configurations that check them on small instances, and
proofs checked by TLAPS.

Source paths below are relative to `src/`.

## Inventory

| Component | Source | State | Operations | What is hard |
|---|---|---|---|---|
| Store | `db/db_local.cc` | memtable, memtable mutex, GC hint, status | `init`, `insert`, `get`, `get_snapshot`, `may_compact`, `close`, background loop | a write and a read suspend many times; the memtable is replaced inside an insert |
| Snapshots and sequence numbers | `db/snapshot.*` | next unused number | take a range, snapshot, set initial number | the number is taken before the lock is |
| Memtable | `table/memtable.cc` | sorted entries, bytes | `insert`, `get`, `get_storage` | refuses a batch that does not fit |
| Write-ahead log | `log/write_ahead_logger.cc` | file, buffer | `insert`, `truncate_file`, `recover` | written in the middle of a batch; truncated before what it held is in a table |
| Flusher | `db/memtable_flusher.cc` | none | `flush_to_disk` | builds tables, then publishes a version |
| Version store | `db/version.*` | list of versions, the current one, modify lock | add, pin, release, collect, load | reference counts read without the lock |
| File store | `util/file_center.*`, `file_guard.h`, `file_rep.*` | representations by name, file mutex | `get_file`, `GC`, `load_files` | guards outlive locks |
| Version descriptors | `db/version_descriptor.cc` | one file per version, one naming the current version, one with the last number | write, replace, read | replaced by truncate then append, by several tasks, with crashes in between |
| Garbage collector | `db/garbage_collector.cc` | its mutex | `do_GC` | runs beside everything else |
| Compaction | `persistent/compaction*.cc` | a flag per level | choose tables, merge, build | works on a version that may be superseded |
| SSTable, block, builder | `table/sstable*.cc`, `persistent/block.cc` | bytes | build, look up, iterate | prefix compression, block boundaries, size bounds |
| Table cache | `table/table_cache.cc` | LRU of open tables | `find_table`, `finsert` | evicts while tables are read |
| Entries, batches | `db/kv_entry.cc`, `util/write_batch.cc` | bytes | order, serialise, parse | a value of length zero |
| File layer | `io/*`, `util/env.cc` | buffers, descriptors | append, commit, flush, read | a write that does not fit the buffer; opening creates |
| Options, statistics, errors, filters, compressors, file locks, logging sinks | `util/*`, `db/statistics.cc` | small | configuration | bounds in the options |

What makes each of them correct:

- Store: what an insert acknowledged is found by every later get; every insert that
  can fit returns. Snapshots: a batch is seen as a whole.
- Log and recovery: what is read back is what was logged, in order; what an insert
  acknowledged survives a crash; numbers go on after a restart.
- Versions, file store, collector: what a version lists can be read as long as
  somebody holds the version; the rest goes in the end; what was condemned is never
  used again.
- Compaction: the newest entry of a key stays, and is found first; a level over its
  bound is compacted.
- Tables: a list that was built is the list that is read; a lookup finds the newest
  entry up to its number; every table that was finished can be opened.
- Table files and cache: whoever opens a table gets the blocks that were built.
- Buffers: the content of a file is what was appended, in order.
- Batches: the last word on a key is what is stored.

How they interact:

- **insert** takes numbers from the snapshot centre (an atomic counter, no lock),
  appends the batch to the log (log mutex), then takes the memtable mutex and
  inserts. When the batch does not fit, it moves the memtable out, flushes it,
  now and then compacts, and tries again, all with the mutex held.
- **get** takes a snapshot (a version guard, then a number), takes the memtable
  mutex to look in the memtable, and then searches the tables of the
  snapshot's version level by level without any lock.
- **A flush or a compaction** builds files, registers them with the file store,
  adds a version under the modify lock, writes its descriptor, and replaces the
  file that names the current version.
- **The background loop** and **inserts** compact; both start the collector, which
  removes versions and tables nobody references.
- **init** loads the tables and the version, then replays the log; **close**
  flushes, writes the last number, and deletes the log.

## Modules

| Module | Models | Composed of |
|---|---|---|
| `VersionStore` | versions, guards, file representations, the collector, descriptors and files on disk; crash and reopening | |
| `Entries` | keys, entries, the newest of a key, numbering of a batch | |
| `Levels` | the tables of the current version, the choice of tables, merging and publication by overlapping tasks | `Entries` |
| `DbLocal` | writers, readers with snapshots, memtable, forced and background compactions | `Levels` |
| `KeyValue` | what the store promises: batches stored as a whole, snapshots as numbers | `Entries` |
| `DbValues` | history of what `DbLocal` stored, and its refinement of `KeyValue` | `DbLocal`, `KeyValue` |
| `Recovery` | the log and its buffer, the memtable, `init`, `close`, crashes | `Entries` |
| `Tables` | building tables from a sorted list, and reading them: segments, intervals, blocks, sizes, filters, first and last keys | `Entries` |
| `TableBytes` | the bytes of data and meta blocks, and their parsing | `Tables` |
| `Batches` | a write batch while a client fills it, and its numbering | `Entries` |
| `Buffers` | the buffers of files, on disk and in memory, as operators | |
| `EntryLog` | what a log promises: entries in order, durable and pending | |
| `LogFile` | the log as bytes: numbering, serialising, buffering, torn writes, recovery; its refinement of `EntryLog` | `Batches`, `Buffers`, `EntryLog` |
| `TableFiles` | the files of tables: written by flushes and compactions, opened by the cache and by compactions, unlinked | `Buffers` |
| `*Proofs` | invariants and theorems of the module they are named after; `DbLocalProofs` has those of `DbValues` too, `LogFileProofs` those of `Batches` | |
| `DataProofs` | lemmas about numbers, recursive functions and sequences | `Entries` |
| `MC*` | values for the constants in TLC's runs | |

### VersionStore

`center` is `version_center` (`alive` its list, `current` its back, `files` the
lists of the versions); `reps` is `file_center`; `held`, `added`, `compacted` and
`building` are the guards and the delta on the stack of an update. An update is
the sequence `GetFile`, `FinishFile`, `AddNewVersion`, `CreateDescriptor`,
`WriteDescriptor`, `TruncateCurrentFile`, `AppendCurrentFile`, one action per
suspension point; `do_GC` is `GCStart`, a `GCVisitVersion` per descriptor,
`GCEraseVersions`, `GCPartition`, a `GCUnlinkFile` per file and `GCFinish`. A
reference count is the number of holders of a guard. `Crash` loses memory and
unwritten buffers; `Reopen` is `load_files` and `load_current_version`.

### Levels

A table is its time of writing, its level and its set of entries. `may_compact` is
`Need` (`need_compaction` returns the version it looked at), `Choose` or `Refused`
(the flag of the level, then the policy on that older version), `Merge` (the flag
is cleared when `compact` returns) and `Publish` (the delta is applied to the
version current then). `CompactingFiles` is the policy with the cut by ratio, and
`FindFromSsts` is the search.

### DbLocal

Extends `Levels` by the memtable (`mem`), the one being flushed (`flushing`) and the
number counter. A writer goes through `Insert` (numbers, log), `AcquireMem`,
`InsertMem` or `MoveMem`, `FlushMem`, `ForceCompaction`, `EndForced`, and back. A
reader takes the version (`Pin`) and the number (`TakeSeq`), asks for a key
(`Get`), looks in the memtable (`GetFromMem`) and in the tables of its version
(`GetFromTables`), and may ask again with the same snapshot. `acked`, `floor` and
`raced` are history: what inserts have returned, what they had when the snapshot
was begun, and whether a memtable was flushed since.

### KeyValue and DbValues

`KeyValue` has one map of what is stored and another of what is durable. A snapshot
is begun (`BeginSnapshot`), when it keeps what is durable (`asOf`), and then numbered
(`EndSnapshot`). A get looks (`Look`) and returns (`AnswerLater`), or does both at once
(`Answer`). It returns the newest entry of what was stored when it looked; if
something was made durable since the snapshot began, it may also be the newest of `asOf`,
which is the race of `DbLocalRaced` made part of the promise (`LateContents`).

`DbValues` adds the history that the mapping needs, since compactions drop hidden
entries: `stored` grows by what enters the memtable, `durable` by what a flush moves
to a table, `asOf` and `sees` are copies of these at the pin and at the search of the
memtable. `KV` maps the rest: the pending batch is the one of a writer that is not
idle, and the search of the memtable is `Look`, or `Answer` if it finds the key.
Flushes, merges, publications and the writer's waits are stutters or `Persist`.

### Recovery

The entries of the tables of a version are one set: `disk` has those of the current
version of the process, `named` those of the version that the current-version file
names, which the next `init` loads. `Insert`, `WriteLog` (the buffer is full),
`LogEntry`, and the memtable steps as above, `Start`, `TruncateLog` and
`FlushRecovered` for `init`, `Close`, `TruncateSeqFile`, `WriteSeqFile` and
`DeleteLog` for `close`. The flush of an insert, of `init` or of `close`, and a
compaction, only add a version and write its descriptor (`AddVersion`). Then the
current-version file is truncated (`TruncateCurrent`) and the name appended
(`AppendCurrent`), and until it is truncated a collector may unlink the descriptor
that it names (`UnlinkNamed`): from either of these steps to the last one, `named` is
empty.

`Crash` may come at every stage; what a process holds is lost, what was written to a
file stays. `lost` is history: what was in a table of the current version, or about to
be, and is in no file that the next `init` reads, when a crash comes while the file
names no version (`Unnamed`) or after `init` truncated the log (`Unlogged`). `dropped`
is what `init` recovered and did not insert. The buffer of the log is written after
every batch because the data scale that would delay it is never increased.

An entry has the lifetime of its process, because after a crash a number may be handed
out again for another write.

### Tables

`builder` is the `sstable_builder` with its `block_builder`, `tables` what it has
finished. `Add` is an `add` that returns true, `AddToNext` one that returns false and
the new builder its callers (the flusher, `merged_list_to_sst`) make, `Finish` the
end of the list. A block has its segments, which of them start an interval, and the
bytes that decide when it is full. `GetFromBlock`, `GetSegment` and `GetKvEntry` are the
search of an interval, a block and a table; `TableEntries` reads all of it; `Parsed`
says what becomes of a value on the way. Keys are numbered in the order of their
serialised form; `Disjoint` compares the keys of the meta block. `Levels` takes from all
this that a table is its set of entries, which `ReadBack`, `LookupsFind` and
`DisjointExact` justify, for lookups up to the limits below.

### TableBytes

Extends `Tables` by what `block_builder::finish` writes of a block and what
`block::parse_meta_data`, `block_segment::parse` and `block_integrity_check` make of it.
A byte says which field it is of, so that a parser that is off by one reads something
else. `FinishedBlocks` is a set: when the string that a block is built in has no room
for the byte that says whether it is compressed, the string moves, and the checksum is
calculated over freed memory (`persistent/block.cc:555-594`); `FullAt` are the lengths
at which this happens. The compressor
is external: what it makes of a content is one byte that stands for it.

The meta block of a table is built by the same code and parsed by
`sstable::parse_meta_data`, which looks at its first interval only. But
`sstable_builder::finish` moves the builder of this block
(`table/sstable_builder.cc:165`) when its last segment is still open, and the builder
of the segment goes on referring to the string that was moved from
(`include/frenzykv/persistent/block.h:221`). There `block_builder::finish` appends the
length of zero that ends the segment (`persistent/block.cc:541`); the block has none
(`MetaContent`). It is parsed nevertheless: the last segment ends where the offsets
begin, and the parser, which looks for a length at that place, finds the first offset,
4, which is not zero, and then that nothing is left before the sentinal (`SegmentEnd`).

`ItemsFrom` and `SegmentsFrom` are the loops of `block_segment::parse` and
`segments_in_single_interval`, from an offset on: `ItemAt` and `SegmentIn` are their
conditions, and `SegmentEnd` is where a segment ends: behind a length of zero, or past the
sentinal when an item goes on beyond it, which makes the parse partial and ends the loop
over segments. Of the numbers only the length of a prefix wraps (`PrefixLimit`);
the length of a block and of an item (32 bits) and the number of intervals (16 bits) are
taken to fit, which holds for values far below 2^32 bytes and a `BlockSize` such as the default,
4096 bytes (`util/options.cc:23`), but is not checked by the code.

### Batches

`entries` and `seqnumber` are the members. `Write`, `WriteBatch`, `RemoveOther` and
`RemoveOwn` (`remove_from_db` without and with an entry of the key) and `SetFirst`, the
store's numbering. `LeftBehind` is the entry `std::remove_if` leaves where the
tombstone goes.

### LogFile and Buffers

`Buffers` has `buffer` (`AppendTo` copies all or nothing), `iouring_writable` (`AppendFile`,
`FlushValid`) and `in_mem_rw` (`InMemAppend`, `InMemCommit`, `InMemRead`, `Spans`).
`LogFile` composes the log's buffer with `Batches`: a client fills a batch (`Fill`), it
is numbered (`Insert`) and its entries are serialised one by one (`LogEntry`), with a
`Flush` where the code has one: the buffer is full, the next entry has no room, or the
batch is over. `Throw` is an entry larger than the buffer. `Crash` may come anywhere,
and in the middle of a write it leaves a part of it (`cut`). `Recover` parses: an entry
that is not all there is read past the end of the buffer, so that `Overread` is a set
of entries; the parser may also fail an assertion (`Abort`). `Truncate` empties the log.
`EntryLog` maps the entries in the file to `durable` and those in the buffer to `pending`.

### TableFiles

A table is the list of the lengths of its blocks. `StartFlush`, `FlushBlock`,
`FinishFlush` are a flush, which writes through the buffer of the file; `MergeInMem`,
`StartDump`, `DumpBlock`, `SyncDump` a compaction, which builds the table in memory and
copies it. `Publish`, `DropTable` and `Unlink` stand for `VersionStore`, and are external.
A reader takes a guard (`Hold`), and finds the table in the cache (`FindCached`), loads
it in parts (`StartLoad`, `LoadPart`, `EndLoad`, which puts it into the cache and evicts
others), or opens the file itself, as compactions do (`OpenFile`). Two readers may
load the same table, and opening a file creates it.

## Runs

| Run | Instance | Shows |
|---|---|---|
| `VersionStoreLifetime` | 3 tables, 3 versions, 2 overlapping updates, 2 readers | no guard dangles, no reachable table is gone, nothing condemned is referenced again, no count rises from zero |
| `VersionStoreSerialCrash` | 2 tables, 3 versions, one update at a time, a crash, a fair collector | the version loaded is complete, the persisted version is the current one when nothing runs, garbage is collected |
| `LevelsTasks` | 2 keys, levels 0 to 3, up to 8 tables, a background loop and a forced compaction | the newest entry is in some table; a search finds it as long as no two compactions of a level overlapped; a level over its bound is compacted |
| `DbValues` | 1 writer with forced compactions, 1 reader, batches of up to 3 | the store implements `KeyValue`; no snapshot inside a batch; reads are fresh unless a flush raced |
| `DbLocalWriters` | 2 writers, 1 loop, 1 key, a memtable of one entry, batches of one entry, which fit, and of two, which never do | nothing acknowledged is lost, also when a forced and a background compaction merge the same tables at once; an insert that can fit returns, unless it waits for one that holds the mutex for ever |
| `DbLocalRaced` | violation: 1 writer, 1 reader | a get misses an acknowledged write that is flushed meanwhile |
| `RecoveryCrash` | 2 writers, 3 stops, crashes at any stage, batches of one to four entries, a memtable of 3, a log buffer of 2 | what inserts acknowledged is stored, but for what `init` dropped and for the tables that a crash loses at the two moments named in `lost`; of a small batch all is stored or nothing; numbers go on when nothing crashed |
| `RecoveryDropped` | violation: 1 writer, a memtable of 2 | `init` drops a log larger than a memtable |
| `TablesBuild` | every sorted list of up to 14 entries of 6 keys; blocks of up to 5 segments, the fourth of which starts an interval; tables of 2 blocks | a list read back is the list built; lookups find the newest entry; `disjoint` is exact; every block that was written is parsed as it was built, compressed or not, and every finished table can be opened |
| `LogFile` | 2 keys, 3 values of 0, 2 and 8 characters, batches of up to 3 entries, a buffer of 12 cells, crashes | the numbered batch has the last word on each key, or nothing on a removed one; what is recovered is what was logged, and begins with all that inserts acknowledged; the database opens again; the bytes implement `EntryLog` |
| `TableFiles` | 2 tables, 2 readers, a cache of 1, buffers of 3 and 4 cells | every reader gets the blocks that were built, however it got the table; a table is complete in its file before a version has it; nobody creates an unlinked file again; opening ends |
| `BatchesRemoved` | violation: 3 keys, 2 values, 4 entries | the tombstone of a removed key has the empty key |

### What the passing runs are limited to

Each restriction below stands in a cfg, in a property or in an assumption of a theorem
because the property fails without it. Changing the named constant or definition makes
TLC show how.

| Run | Restriction | Without it |
|---|---|---|
| `VersionStoreSerialCrash` | `Updater` has one member | the current-version file is written after the modify lock is released (`db/version_descriptor.cc:113-121`): of two updates the older may be the one it names. With `Updater <- TwoUpdaters` and `MaxCrashes = 1`, `PinnedTablesReadable` fails: the reopened version lists tables that are gone |
| `LevelsTasks` | `NewestWinsAlone` speaks of calls that do not overlap | the flag of a level is cleared before the result is published (`persistent/compaction.cc:89`): `NewestWins` fails, because two compactions of a level bring an older entry back |
| `LevelsTasks` | `Allowed` lets level 2 and beyond grow | with `Top = 2`, `MaxLevel = 5`, bounds of 2 everywhere, three keys and more tables, only the tables that overlap the oldest one are merged (`persistent/compaction_policy_oldest.cc:43`), and an older entry is found first |
| `LevelsTasks`, `DbLocalWriters` | a bound of three on level zero | with a bound of two the ratio of the background loop leaves one table to merge (`persistent/compaction.cc:106`), which `merge_tables` asserts against |
| `DbValues` | `Loops = {}` | a background compaction that overlaps a forced one brings an older entry back, as in `LevelsTasks`: `StoresValues` fails |
| `DbValues` | one writer (`OneWriterAssumption`) | numbers are taken before the memtable mutex (`db/db_local.cc:261`): of two writers the later number may be inserted and flushed first, and the older entry in the memtable hides it |
| `DbValues` | `LateContents` in `KeyValue` | the version of a snapshot is taken before the memtable is searched (`db/db_local.cc:353`): what is flushed in between is in neither |
| `DbValues` | `BatchNotSplit` speaks of numbers | a batch whose numbers a snapshot covers may be inserted between two gets with this snapshot |
| `DbLocalWriters` | `HoldsForEver` in `InsertReturns` | an insert tries again, with the memtable mutex held, until its batch fits (`db/db_local.cc:266-268`): a batch larger than a memtable never does, and no other insert or get goes on |
| `RecoveryCrash` | `lost`, while `Unnamed` | `set_current_version_file` opens the file, which truncates it, and then appends (`db/version_descriptor.cc:116-117`), and from `db/db_local.cc:163` on a collection may unlink the descriptor that the file names: after a crash an opening loads a version without tables, and all that was flushed is gone, of earlier lifetimes too, whose log `close` has deleted |
| `RecoveryCrash` | `lost`, while `Unlogged` | `init` truncates the log before what it held is in a table (`db/db_local.cc:113`): a crash loses what it recovered |
| `RecoveryCrash` | one publication at a time (`AddVersion`) | as in `VersionStoreSerialCrash`, of two updates that overlap the file may name the older version: what the newer one flushed is loaded by the next opening only if another publication follows |
| `RecoveryCrash` | `BatchWhole` speaks of batches up to `LogRoom` | the buffer is written in the middle of a larger batch (`log/write_ahead_logger.cc:46`), and part of it is recovered |
| `RecoveryCrash` | `dropped` | a log longer than a memtable is dropped (`RecoveryDropped`), with the batches in it |
| `RecoveryCrash` | `crashed` | neither the log nor `seqnum` has the last number after a recovery (`db/db_local.cc:234`): `StoredAreOlder` fails |
| `TablesBuild` | `Split` in `LookupsFind` | when a block is full in the middle of a key's entries, a lookup at an older number searches the last block with the key only, and misses an older entry in the one before (`table/sstable.cc:204`) |
| `TablesBuild` | `Hashes = 44`, as the store has it | with 30 hashes or less `may_match` takes the filters of all keys for one (`util/bloom_filter.cc:65`), and a lookup may miss |
| `TablesBuild` | `ReadBack` speaks of `Parsed` entries | an empty value comes back as a deletion (`db/kv_entry.cc:175`) |
| `TablesBuild` | `Interval >= 5` in `TableAssumption` | the meta block has two intervals, and no table can be opened (`table/sstable.cc:89`): `TablesOpen` fails |
| `TablesBuild` | `FullAt` in `BlocksParse` and `TablesOpen` | the checksum of an uncompressed block may be that of freed memory, and the block fails its integrity check (`persistent/block.cc:555-594`) |
| `TablesBuild` | keys shorter than `PrefixLimit - 2` in `BytesAssumption` | the length of a prefix has sixteen bits and is two more than that of the key (`persistent/block.cc:421`): a block with a longer key is not parsed as it was built |
| `LogFile` | a removed key may have no entry in `LastWordOrNothing` | the tombstone may have the empty key (`BatchesRemoved`) |
| `LogFile` | `cut` and the empty key in `OpensAgain` | an entry with the empty key, or a torn one, ends the process in `recover` on each start |
| `LogFile` | keys shorter than `LengthLimit` in `LogAssumption` | the length of a key has sixteen bits (`db/kv_entry.cc:24`) |
| `TableFiles` | `Unreferenced` keeps a table that a reader has a guard of | opening an unlinked file creates it again, empty (`UnlinkedStaysGone`); that the store holds such guards is in `VersionStore` |

### Bounds

The constants of the cfgs bound what would grow for ever: names of files and
versions (`File`, `Version`), crashes and stops (`MaxCrashes`, `MaxStops`), sequence
numbers (`MaxSeq`), tables (`MaxTables`, `MaxTop`), entries
(`Listed`, `MaxEntries`). They suffice for the cases that
matter: a level passes its bound and is compacted twice, a table moves through
all levels, a key is written in three tables at least; a memtable overflows and is
flushed while a snapshot is held; a process crashes, recovers, and stops again.
The bounds are also small enough that the states that disturb a property without
its mutants are reached, which the mutants show: each property of a passing run is
broken by a small change to one definition, such as a dropped guard, an
off-by-one, or a missing reset. The definitions marked `Mutant:` are those changes
and are used by nothing else. Deadlock is checked except in `Recovery`, where the
bound on stops lets the process end for good, in `Tables` and `Batches`, which end,
in `LogFile`, where `recover` may end the process and the numbers run out, and in
`TableFiles`, where every table has been unlinked in the end.

In `LogFile` an entry has five to seven cells, or thirteen and more, and the buffer
twelve: an entry fits, fills the buffer, has to wait for a flush, or can never fit. In
`TableFiles` a layout has blocks smaller than, as large as and larger than the buffers
of files; both ways of building run for both tables, and the cache of one table evicts
whenever the other is loaded. In `TablesBuild` the two members of `FullAt` are a
length of a data block and one of a meta block. In `DbLocalWriters` a memtable of one
entry makes every insert but the first flush, so that six numbers suffice for a forced and a
background compaction that have chosen the same table and are both to publish. In
`RecoveryCrash` a batch of four entries does not fit in a memtable, one of three does
not fit in the buffer of the log, and smaller ones fit in both.

### Fairness

`FairSpec`, `FairLevelsSpec`, `FairDbSpec` and `FairFilesSpec` assume that a coroutine that
can run does run in the end (weak fairness), which is what the scheduler of koios
does, and that the background loops start again (`background_compacting_GC` is a
loop over a sleep). `FairDbSpec` also assumes that `koios::mutex` grants the
memtable mutex to every waiter in the end (strong fairness of `AcquireMem`); koios
is a submodule that is not in the repository, so this is taken from how the
store uses it. `FairFilesSpec` has the steps of a get only (`GetStep`): nobody has to build, compact or
release. Nothing is assumed about clients: no insert has to come.

## Proofs

Checked by TLAPS for all values of the constants that satisfy the modules' `ASSUME`s.

- `VersionStoreProofs`: `TypeCorrect`, through crashes. For one process lifetime
  `GuardsNeverDangle`, `TablesStayReadable`, `DoomedTablesStayDoomed` and
  `CountsNeverRevive`. The invariant `IInv` says more than the properties do: the
  tables of unreferenced versions must be registered and complete too, since a
  collection begins from them, fresh names are outside everything in use, and a
  delta holds registered tables only. With one update at a time, and any number of
  crashes and reopenings, `TablesReadableAfterCrashes` and `CurrentIsPersisted`.
  After a crash the list may hold versions whose tables are gone, so `CInv` asks for
  complete tables of referenced versions only; what opening loads is complete
  because the tables of the version that the current-version file names are those
  of the current version, or held by the update that replaces it (`NamedTablesKept`).
- `LevelsProofs`: `LevelsTypeCorrect` and `NoWriteLost`, in general; `AloneNewestWins`
  as long as no two calls overlapped, when only levels zero and one have bounds. The invariant orders the tables: an entry of a table above, or
  later on the same level, is newer; a task holds the oldest tables of its level.
  Neither condition can be dropped (see the limits above).
- `DbLocalProofs`: `DbTypeCorrect`, `NoSnapshotSplitsABatch` and `AckedIsKept`, with
  any number of writers, readers and overlapping compactions. `AckedIsKept` needs
  that every stored entry is at most the acknowledged one of its key (`Inserted`),
  because a compaction drops an entry only for a newer one, and that one writer
  holds the mutex while a memtable is out (`OneHolder`).
  Also of `DbValues`: `GetsAreFresh` and `DbStoresValues`, the refinement of `KeyValue`, for
  one writer (`OneWriterAssumption`) whose forced compactions are the only ones
  (`OnlyWritersCompact`) and when only levels zero and one have bounds
  (`TopLevelsOnly`). A memtable holds what is newer than every table (`MemIsNewer`), so
  that a flush keeps the order of the tables; a pinned version is ordered as well, and
  the last write before a snapshot stays in the memtable or in the pinned version until
  a flush (`FloorHeld`). The refinement needs the history too (`HistInv`): what is
  stored is in memory or durable, and the pinned version has the newest entry of each key of
  what was durable when it was pinned.
- `RecoveryProofs`: `RecoveryTypeCorrect`; `CleanRestartsNumberOn`, from an invariant
  of databases that never crashed (`CleanInv`: at every stage the stored numbers are
  below the next one or at most the one in `seqnum`); and `InsertsAreDurable`: whatever
  crashes and restarts follow, what an insert acknowledged is stored, in `lost` or in
  `dropped`. The invariant says at every stage where an acknowledged entry is safe
  (`Persisted`) and that a batch on its way to the memtable is in the file of the log
  (`Logged`). It has to say too what a crash in the middle of a publication finds
  (`Named`): between publications the file names the current version, and from
  `AddVersion` on what the file does not name is in the log, unless init truncated
  the log or the file names nothing, which are the two moments of `lost`.
  `BatchesStayWhole` adds that the buffer of the log holds all that is logged of a small
  batch (`LogBufInv`), that a new batch has entries that are nowhere yet (`Fresh`,
  which needs their lifetimes), and that every file and memtable has all of a small
  batch or nothing (`Kept`), so that a crash takes all of it or nothing.
- `TablesProofs`: `TablesTypeCorrect`, `DisjointIsExact`, `TablesReadBack` and, for a
  filter of more than 30 hashes, `LookupsAreRight`. A lookup searches one block of a table and one
  interval of the block, so the invariant `Inv` orders the entries of a list from
  the outside in (blocks by `Before`, segments by key, items by number, intervals by where
  they start), for the builder and for every finished table, and keeps
  what was built up to the last entry given (`UpTo`), after which the next one comes.
  `ReadBack` needs none of this order, but an invariant of its own (`BackInv`): at every
  moment the tables read one after the other, then the blocks of the builder, then its
  unfinished block give the list so far. It follows from how `FlattenSeq` grows with one
  part more (`FlattenMore`) or with a longer last part (`FlattenOther`).
  Of `TableBytes`: `WrittenBlocksParse` and `FinishedTablesOpen`, for blocks, intervals, keys
  and values of any size. The parser starts from offsets and a length that
  `block_builder::add` has counted, not from what is written, so the invariant
  (`BytesInv`) is that every block, finished or not, is `Measured`: the segments it notes are
  those that start an interval, and the bytes it counts are those that the segments take when
  written; and that the filter of a table is that of its keys. The rest is about one block.
  What `finish` writes is a frame (`FinishedIsFramed`): data, offsets and their number lie where
  their pointers say, whether or not it went through the compressor. From where a segment lies, its
  items are parsed one by one up to the length of zero (`ItemsFound`), from where the segments lie
  each is parsed up to the next or to the end of the interval (`SegmentsFound`), and an item gives
  back its entry (`ItemOfIs`), since the bytes of two keys differ (`SameUserKey`). The last
  segment of a meta block is not ended; it is found because it ends where the data end and the
  number behind it, the first offset, is not zero (`OpenFound`, `OpenAreFound`, `MetaParses`).
- `LogFileProofs`: `BatchKeepsTypes`, `BatchKeepsLastWord`, `LogKeepsTypes`,
  `LogRecoversAsLogged`, `LogOpensAgain`, and the refinement of `EntryLog`,
  `LogImplementsEntryLog`, for entries of any length, any buffer and crashes anywhere. What
  the parser finds depends on all cells before, so the invariant (`BytesInv`) says that the
  file with the buffer behind it is a `Frame` of serialised entries, one after the other
  with nothing between, of which the file holds the first (`Written`), and after a crash as many as
  were written and perhaps a part of the next (`KeptUpTo`). An entry in a frame is parsed as it was
  serialised (`EntryAtIs`), and the parser goes from one to the next and stops at the end or
  at the part; batches have an invariant of their own (`BatchInv`).
- `TableFilesProofs`: `UnlinkedIsGone`, from: a reader who may open a file has a guard of
  a table that is not unlinked (`HeldAreLinked`); and `FilesKeepTypes`,
  `FilesPublishComplete` and `FilesGiveTheTable`, for any tables, layouts, sizes of buffers
  and capacity of the cache. The invariant `FilesInv` says of a file on disk what was appended
  to it, in file and buffer (`Wrote`): the first blocks of the table, or the first buffers of
  the file in memory it is copied from; and of a file in memory that it holds some cells in
  full buffers with at most one behind them that is not (`Mem`). Every way to write keeps these
  (`AppendWrote`, `FlushWrote`, `AppendIs`, `CommitIs`), a load holds the beginning of the
  file it reads (`ReaderIs`), since the file of a table somebody holds is complete
  (`HeldIsWhole`), and whatever the sizes of its buffers, a file in memory that holds a
  whole table is parsed as that table (`TableRead`).
- `DataProofs`: lemmas the others cite: maxima, minima and numberings; induction over numbers
  as the absence of a least counterexample (`SetInduction`), and with it that functions defined by
  recursion exist (`ForwardRecursion`, `BackwardRecursion`), what `FlattenSeq` returns
  (`FlattenIs`), and where its parts lie in it.

The library's induction theorems take an operator as a parameter, which the provers cannot
instantiate. `SetInduction` says the same of a set, so that what recursive functions and
`FlattenSeq` compute is proved for every input here; the modules have such functions and no
`RECURSIVE` operators for this reason.

The assumptions of these theorems are those the modules state of their constants, and in
`TableFilesProofs` that there is a table (`Table # {}`), without which nobody can say which
table an idle reader has.

Only model-checked: liveness (`GarbageVersionErased`, `GarbageTableUnlinked`,
`OverfullLevelCompacted`, `InsertReturns`, `OpeningEnds`), because fairness is out of the
prover's reach. Every other property of a passing run is proved.

## Not modelled

- Compressors, hashes and the comparison of keys: pure functions on bytes, of which
  the models take that they are what their names say.
- Errors of io_uring: `append_all` and `read` of koios, which is not in the repository,
  are taken to write and read all they are given, or to throw; what becomes of the store
  after such an exception is not modelled. A write that a crash cuts short is in `LogFile`.
- File locks: `db_local` does not take any, so nothing else in the system depends on
  them.
- Record writers, logging, the error category, the example program.
- Directories, configuration files, error messages.
- Calls on a closed database, which the code does not guard against.
- In `Levels`: a merged table split in several by size, and equal times of writing.
- In `LogFile`: two writers (the mutex of the log is in `Recovery`).
- In `Recovery`: two publications at a time, and the descriptors that a crash leaves
  behind (both are in `VersionStore`). `QuiescentCurrentPersisted` and
  `PinnedTablesReadable` speak of the versions there, and hold of an opening without
  tables as well; that such an opening loses acknowledged inserts is said in `Recovery`.
- One run with the mutex of the memtable, the flags, the modify lock and the file mutex:
  the first two are in `DbLocal` and `Levels`, the others in `VersionStore`. While the
  store is open no task waits for one of the latter two with the other held.

## Plan

In this order:

1. done: `VersionStore`, `Levels`, `DbLocal`, `Recovery` and `Tables`, each with its
   proofs, and `Batches`.
2. done: the abstract store and its refinement by `DbLocal`, with the proofs for one
   writer.
3. done: the log as bytes, the file buffers, the files of tables with the cache, the
   bytes of blocks.
4. `Levels` with merges that split into several tables, by composing `Tables`.
5. done: proofs of `BatchWhole` and, with one update at a time, of
   `QuiescentCurrentPersisted` and `PinnedTablesReadable` through crashes; of the bytes of
   the log and of the files of tables, and of `ReadBack`.
6. done: proofs of `BlocksParse` and `TablesOpen`: the parser of `TableBytes` on what
   `FinishedBlocks` writes.
7. The file locks (`util/flock`), when the store takes them.
