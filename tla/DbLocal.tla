------------------------------ MODULE DbLocal -------------------------------
(***************************************************************************)
(* An open db_local: inserts, snapshots and gets over one memtable and the *)
(* tree of Levels, with the compaction an insert forces and those of the   *)
(* background loops.                                                       *)
(*                                                                         *)
(* An entry stands for its value, which its sequence number identifies.    *)
(* The pre-write log is in module Recovery.                                *)
(***************************************************************************)
EXTENDS Levels

CONSTANTS
    Writer,      \* callers of insert; each may also have to compact
    Reader,      \* callers of get_snapshot and get
    Writes,      \* the batches written: sequences of keys
    MemBound,    \* the entries a memtable may hold
    MaxSeq       \* bound on the sequence numbers used

ASSUME DbLocalAssumption ==
    /\ Key # {}
    /\ Writer \subseteq Task \ Loops
    /\ \A w \in Writer : From[w] = 0
    /\ Writes \subseteq Seq(Key) \ {<<>>}
    /\ Top = 0
    /\ Allowed[0] > 1
    /\ MemBound \in Nat /\ MaxSeq \in Nat

VARIABLES
    nextSeq,     \* m_newest_unused_seq
    mem,         \* m_mem
    flushing,    \* the memtable that was moved out to be flushed
    hint,        \* m_force_GC_hint, modulo m_num_bound_level0 - 1
    step,        \* where each writer is in insert
    batch,       \* the entries of its last batch
    acked,       \* of each key, the largest sequence number inserted
    stage,       \* where each reader is
    pin,         \* the version of its snapshot
    view,        \* the sequence number of its snapshot
    query,       \* the key and sequence number it looks for
    read,        \* the keys it has looked for in this snapshot
    got,         \* what it found last: a sequence number, or 0
    floor,       \* acked when it took the snapshot
    raced        \* whether a memtable was flushed since

storeVars == <<nextSeq, mem, flushing, hint>>
writerVars == <<step, batch, acked>>
readerVars == <<stage, pin, view, query, read, got, floor, raced>>
dbVars == <<levelsVars, storeVars, writerVars, readerVars>>

Steps == {"idle", "waiting", "inserting", "flushing", "forced", "compacting"}
Stages == {"idle", "pinned", "held", "asked", "tables"}

DbTypeOK ==
    /\ LevelsTypeOK
    /\ nextSeq \in Nat \ {0}
    /\ mem \subseteq Entry
    /\ flushing \subseteq Entry
    /\ hint \in 0 .. (Allowed[0] - 2)
    /\ step \in [Writer -> Steps]
    /\ batch \in [Writer -> SUBSET Entry]
    /\ acked \in [Key -> Nat]
    /\ stage \in [Reader -> Stages]
    /\ pin \in [Reader -> SUBSET Table]
    /\ view \in [Reader -> Nat]
    /\ query \in [Reader -> Entry]
    /\ read \in [Reader -> SUBSET Key]
    /\ got \in [Reader -> [Key -> Nat]]
    /\ floor \in [Reader -> [Key -> Nat]]
    /\ raced \in [Reader -> BOOLEAN]

\* m_mem_mutex is held by the writer that inserts, flushes or compacts.
MemMutexFree == \A w \in Writer : step[w] \in {"idle", "waiting"}

Zeros == [k \in Key |-> 0]
Nowhere == [key |-> CHOOSE k \in Key : TRUE, seq |-> 0]

DbInit ==
    /\ LevelsInit
    /\ nextSeq = 1
    /\ mem = {}
    /\ flushing = {}
    /\ hint = 0
    /\ step = [w \in Writer |-> "idle"]
    /\ batch = [w \in Writer |-> {}]
    /\ acked = Zeros
    /\ stage = [r \in Reader |-> "idle"]
    /\ pin = [r \in Reader |-> {}]
    /\ view = [r \in Reader |-> 0]
    /\ query = [r \in Reader |-> Nowhere]
    /\ read = [r \in Reader |-> {}]
    /\ got = [r \in Reader |-> Zeros]
    /\ floor = [r \in Reader |-> Zeros]
    /\ raced = [r \in Reader |-> FALSE]

(***************************************************************************)
(* insert                                                                  *)
(***************************************************************************)
\* Mutant: one number for a batch.
OneNumber(n) == 1

\* get_next_unused_sequence_number reserves a number for each entry.
Reserved(n) == n

\* The numbers are taken, without a lock, and the batch is logged.
Insert(w) ==
    /\ step[w] = "idle"
    /\ \E keys \in Writes :
          /\ nextSeq + Len(keys) - 1 <= MaxSeq
          /\ batch' = [batch EXCEPT ![w] = Numbered(keys, nextSeq)]
          /\ nextSeq' = nextSeq + Reserved(Len(keys))
    /\ step' = [step EXCEPT ![w] = "waiting"]
    /\ UNCHANGED <<levelsVars, mem, flushing, hint, acked, readerVars>>

AcquireMem(w) ==
    /\ step[w] = "waiting"
    /\ MemMutexFree
    /\ step' = [step EXCEPT ![w] = "inserting"]
    /\ UNCHANGED <<levelsVars, storeVars, batch, acked, readerVars>>

\* Mutant: a batch must leave some room.
FitsBelow(w) == Cardinality(mem) + Cardinality(batch[w]) < MemBound

\* memtable::could_fit_in
CouldFitIn(w) == Cardinality(mem) + Cardinality(batch[w]) <= MemBound

\* memtable::insert takes the batch; insert unlocks and returns.
InsertMem(w) ==
    /\ step[w] = "inserting"
    /\ CouldFitIn(w)
    /\ mem' = mem \cup batch[w]
    /\ acked' = [k \in Key |-> Max({acked[k], LargestSeq(batch[w], k)})]
    /\ step' = [step EXCEPT ![w] = "idle"]
    /\ UNCHANGED <<levelsVars, nextSeq, flushing, hint, batch, readerVars>>

\* Mutant: the bound itself.
OfBound(n) == n % Allowed[0]

OfBoundMinusOne(n) == n % (Allowed[0] - 1)

\* It does not fit: the memtable is moved out, and an empty one put in place.
MoveMem(w) ==
    /\ step[w] = "inserting"
    /\ ~CouldFitIn(w)
    /\ flushing' = mem
    /\ mem' = {}
    /\ hint' = OfBoundMinusOne(hint + 1)
    /\ step' = [step EXCEPT ![w] = "flushing"]
    /\ UNCHANGED <<levelsVars, nextSeq, batch, acked, readerVars>>

\* Every m_num_bound_level0 - 1 flushes, from the first on.
ForcesCompaction == hint = 1 % (Allowed[0] - 1)

\* Mutant: the entries of the memtable do not all reach the table.
AllButLast(E) == {e \in E : \E d \in E : e.seq < d.seq}

\* flush_to_disk writes what get_storage returns.
Storage(E) == E

\* flush_to_disk publishes the table and returns.
FlushMem(w) ==
    /\ step[w] = "flushing"
    /\ IF flushing = {}
       THEN UNCHANGED <<levelsVars, raced>>
       ELSE /\ AddTable(Storage(flushing))
            /\ newest' = [k \in Key |-> Max({newest[k], LargestSeq(flushing, k)})]
            /\ raced' = [r \in Reader |-> raced[r] \/ stage[r] # "idle"]
    /\ flushing' = {}
    /\ step' = [step EXCEPT ![w] = IF ForcesCompaction THEN "forced" ELSE "inserting"]
    /\ UNCHANGED <<nextSeq, mem, hint, batch, acked,
                   stage, pin, view, query, read, got, floor>>

\* The insert calls may_compact, ...
ForceCompaction(w) ==
    /\ step[w] = "forced"
    /\ Call(w)
    /\ step' = [step EXCEPT ![w] = "compacting"]
    /\ UNCHANGED <<storeVars, batch, acked, readerVars>>

\* ... which returns, and the insert tries again.
EndForced(w) ==
    /\ step[w] = "compacting"
    /\ phase[w] = "idle"
    /\ step' = [step EXCEPT ![w] = "inserting"]
    /\ UNCHANGED <<levelsVars, storeVars, batch, acked, readerVars>>

HolderStep(w) ==
    \/ InsertMem(w)
    \/ MoveMem(w)
    \/ FlushMem(w)
    \/ ForceCompaction(w)
    \/ EndForced(w)

(***************************************************************************)
(* get_snapshot and get                                                    *)
(***************************************************************************)
\* get_snapshot takes the current version ...
Pin(r) ==
    /\ stage[r] = "idle"
    /\ stage' = [stage EXCEPT ![r] = "pinned"]
    /\ pin' = [pin EXCEPT ![r] = tables]
    /\ floor' = [floor EXCEPT ![r] = acked]
    /\ UNCHANGED <<levelsVars, storeVars, writerVars, view, query, read, got, raced>>

\* ... and then the latest sequence number.
TakeSeq(r) ==
    /\ stage[r] = "pinned"
    /\ stage' = [stage EXCEPT ![r] = "held"]
    /\ view' = [view EXCEPT ![r] = nextSeq - 1]
    /\ UNCHANGED <<levelsVars, storeVars, writerVars, pin, query, read, got, floor, raced>>

\* get: make_query_key.  Without a valid snapshot it reads the latest number;
\* a get that is given an invalid snapshot takes a new one, as Pin does.
Get(r, k) ==
    /\ stage[r] = "held"
    /\ view[r] = 0 => read[r] = {}
    /\ stage' = [stage EXCEPT ![r] = "asked"]
    /\ query' = [query EXCEPT ![r] =
                   [key |-> k, seq |-> IF view[r] = 0 THEN nextSeq - 1 ELSE view[r]]]
    /\ UNCHANGED <<levelsVars, storeVars, writerVars, pin, view, read, got, floor, raced>>

\* get returns the newest of the entries E, or nothing.
Found(r, E) ==
    /\ read' = [read EXCEPT ![r] = @ \cup {query[r].key}]
    /\ got' = [got EXCEPT ![r][query[r].key] = LargestSeq(E, query[r].key)]
    /\ stage' = [stage EXCEPT ![r] = "held"]

\* Mutant: get searches the memtable without the lock.
AnyTime == TRUE

\* get holds m_mem_mutex while it searches the memtable.
MayRead == MemMutexFree

\* What the memtable holds is the answer.
GetFromMem(r) ==
    /\ stage[r] = "asked"
    /\ MayRead
    /\ LET E == NewestOf(mem, query[r].key, query[r].seq)
       IN  \/ E # {} /\ Found(r, E)
           \/ /\ E = {}
              /\ stage' = [stage EXCEPT ![r] = "tables"]
              /\ UNCHANGED <<read, got>>
    /\ UNCHANGED <<levelsVars, storeVars, writerVars, pin, view, query, floor, raced>>

\* Mutant: the tables of the current version are searched.
SearchedCurrent(r) == tables

\* A valid snapshot brings its version.
SearchedVersion(r) == IF view[r] = 0 THEN tables ELSE pin[r]

GetFromTables(r) ==
    /\ stage[r] = "tables"
    /\ Found(r, FindFromSsts(SearchedVersion(r), query[r].key, query[r].seq))
    /\ UNCHANGED <<levelsVars, storeVars, writerVars, pin, view, query, floor, raced>>

\* The snapshot is dropped.
Drop(r) ==
    /\ stage[r] = "held"
    /\ stage' = [stage EXCEPT ![r] = "idle"]
    /\ pin' = [pin EXCEPT ![r] = {}]
    /\ view' = [view EXCEPT ![r] = 0]
    /\ query' = [query EXCEPT ![r] = Nowhere]
    /\ read' = [read EXCEPT ![r] = {}]
    /\ got' = [got EXCEPT ![r] = Zeros]
    /\ floor' = [floor EXCEPT ![r] = Zeros]
    /\ raced' = [raced EXCEPT ![r] = FALSE]
    /\ UNCHANGED <<levelsVars, storeVars, writerVars>>

WriterStep(w) == Insert(w) \/ AcquireMem(w) \/ HolderStep(w)

ReaderStep(r) ==
    \/ Pin(r)
    \/ TakeSeq(r)
    \/ \E k \in Key : Get(r, k)
    \/ GetFromMem(r)
    \/ GetFromTables(r)
    \/ Drop(r)

\* Compactions run as in Levels: those of the loops, and the forced ones.
Compact(c) == CompactionStep(c) /\ UNCHANGED <<storeVars, writerVars, readerVars>>
LoopAgain(c) == Call(c) /\ UNCHANGED <<storeVars, writerVars, readerVars>>

DbNext ==
    \/ \E w \in Writer : WriterStep(w)
    \/ \E r \in Reader : ReaderStep(r)
    \/ \E c \in Loops : LoopAgain(c)
    \/ \E c \in Task : Compact(c)

DbSpec == DbInit /\ [][DbNext]_dbVars

\* Coroutines that can run do run, and m_mem_mutex is granted to a writer that
\* finds it free again and again.
FairDbSpec ==
    /\ DbSpec
    /\ \A w \in Writer : WF_dbVars(HolderStep(w)) /\ SF_dbVars(AcquireMem(w))
    /\ \A c \in Task : WF_dbVars(Compact(c))

(***************************************************************************)
(* Properties.                                                             *)
(***************************************************************************)
\* Of every key, the last write whose insert returned is in the memtable, in
\* the one being flushed, or in a table of the current version.
AckedKept ==
    \A k \in Key : acked[k] # 0 =>
        [key |-> k, seq |-> acked[k]] \in mem \cup flushing \cup EntriesOf(tables)

\* "this `write_batch` batch those writing operations into a single atomic
\* write": no snapshot has a sequence number between those of a batch.
BatchNotSplit ==
    \A r \in Reader, w \in Writer : \A d, e \in batch[w] :
        stage[r] \notin {"idle", "pinned"} => (d.seq <= view[r] <=> e.seq <= view[r])

\* A get finds what was inserted before its snapshot was taken, or something
\* newer, ...
Fresh(r) == \A k \in read[r] : floor[r][k] <= got[r][k]

\* ... if no memtable was flushed since; ...
FreshUnlessRaced == \A r \in Reader : raced[r] \/ Fresh(r)

\* ... and whether or not one was: "the snapshot mechinaism keep those files
\* of version alive".
AlwaysFresh == \A r \in Reader : Fresh(r)

\* A memtable that is too small for a batch is flushed, even when it is empty: the
\* insert of a batch larger than a memtable holds m_mem_mutex for ever.
Oversized(w) == Cardinality(batch[w]) > MemBound
HoldsForEver(w) == step[w] \notin {"idle", "waiting"} /\ Oversized(w)

\* An insert of any other batch returns, unless it waits for one of those.
InsertReturns ==
    \A w \in Writer :
        step[w] = "waiting" /\ ~Oversized(w)
            ~> step[w] = "idle" \/ \E v \in Writer : HoldsForEver(v)
=============================================================================
