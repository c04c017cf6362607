--------------------------- MODULE DbLocalProofs ----------------------------
(***************************************************************************)
(* What holds of an open database for any number of writers, readers and   *)
(* compactions: types, no snapshot splits a batch, and no insert that      *)
(* returned is lost from memory and tables.                                *)
(*                                                                         *)
(* Then, with one writer, no background compaction, and bounds on levels 0 *)
(* and 1 only: a get finds what was inserted before its snapshot, as long  *)
(* as no memtable was flushed since, and the open store implements the     *)
(* abstract one.                                                           *)
(***************************************************************************)
EXTENDS DbValues, LevelsProofs, DataProofs

\* Numbers in use are below the next one.
Used ==
    /\ \A w \in Writer : \A e \in batch[w] : e.seq < nextSeq
    /\ \A k \in Key : acked[k] < nextSeq
    /\ \A r \in Reader : view[r] < nextSeq

\* One writer holds the mutex, and only while it flushes is a memtable out.
Holding(w) == step[w] \notin {"idle", "waiting"}

OneHolder ==
    /\ \A v, w \in Writer : Holding(v) /\ Holding(w) => v = w
    /\ flushing # {} => \E w \in Writer : step[w] = "flushing"

\* What is in the store was inserted.
Old(E) == \A e \in E : e.seq <= acked[e.key]
OldTables(T) == \A t \in T : Old(t.entries)

Inserted ==
    /\ Old(mem) /\ Old(flushing)
    /\ OldTables(tables)
    /\ \A c \in Task : OldTables(seen[c]) /\ OldTables(chosen[c])
    /\ \A r \in Reader : OldTables(pin[r])

DbInv ==
    /\ DbTypeOK /\ LevelRoom
    /\ Used
    /\ OneHolder
    /\ Inserted
    /\ BatchNotSplit
    /\ AckedKept

-----------------------------------------------------------------------------
(***************************************************************************)
(* The operators.                                                          *)
(***************************************************************************)
\* A search returns entries of the tables searched.
LEMMA FoundInTables ==
    ASSUME NEW T, NEW k, NEW s
    PROVE  FindFromSsts(T, k, s) \subseteq EntriesOf(T)
BY DEF FindFromSsts, NewestOf, OfKey, EntriesOf, AtLevel

-----------------------------------------------------------------------------
(***************************************************************************)
(* The steps that matter most.                                             *)
(***************************************************************************)
\* The numbers of a new batch are above every snapshot's.
LEMMA InsertNumbers ==
    ASSUME DbInv, NEW w \in Writer, Insert(w)
    PROVE  /\ batch' \in [Writer -> SUBSET Entry] /\ nextSeq' \in Nat \ {0}
           /\ Used' /\ BatchNotSplit'
<1> USE DEF DbInv, DbTypeOK
<1>1. PICK keys \in Writes :
         /\ batch' = [batch EXCEPT ![w] = Numbered(keys, nextSeq)]
         /\ nextSeq' = nextSeq + Len(keys)
  BY DEF Insert, Reserved
<1> DEFINE B == Numbered(keys, nextSeq)
<1>2. /\ B \subseteq Entry /\ Len(keys) \in Nat
      /\ \A e \in B : nextSeq <= e.seq /\ e.seq < nextSeq + Len(keys)
  BY DbLocalAssumption, NumberedIs
<1>3. \A w2 \in Writer : batch'[w2] = IF w2 = w THEN B ELSE batch[w2]
  BY <1>1
<1> HIDE DEF B
<1>4. batch' \in [Writer -> SUBSET Entry] /\ nextSeq' \in Nat \ {0}
  BY <1>1, <1>2 DEF B
<1>5. \A n \in Nat : n < nextSeq => n < nextSeq'
  BY <1>1, <1>2
<1>6. \A e \in Entry : e.seq \in Nat
  BY DEF Entry
<1>7. \A w2 \in Writer : \A e \in batch'[w2] : e.seq < nextSeq'
  BY <1>1, <1>2, <1>3, <1>5, <1>6 DEF Used
<1>8. Used'
  BY <1>5, <1>7 DEF Used, Insert, readerVars
<1>9. BatchNotSplit'
  <2>1. \A r \in Reader : \A e \in B : ~(e.seq <= view[r])
    <3>1. SUFFICES ASSUME NEW r \in Reader, NEW e \in B, e.seq <= view[r] PROVE FALSE
      OBVIOUS
    <3>2. view[r] < nextSeq /\ view[r] \in Nat /\ e.seq \in Nat /\ nextSeq <= e.seq
      BY <1>2, <1>6 DEF Used
    <3> QED BY <3>1, <3>2
  <2> QED BY <1>3, <2>1 DEF BatchNotSplit, Insert, readerVars
<1> QED BY <1>4, <1>8, <1>9

\* A snapshot's number is above those of every batch there is.
LEMMA TakeSeqNumbers ==
    ASSUME DbInv, NEW r \in Reader, TakeSeq(r)
    PROVE  view' \in [Reader -> Nat] /\ Used' /\ BatchNotSplit'
<1> USE DEF DbInv, DbTypeOK
<1>1. /\ UNCHANGED <<batch, nextSeq, acked>>
      /\ view' = [view EXCEPT ![r] = nextSeq - 1]
      /\ stage' = [stage EXCEPT ![r] = "held"]
  BY DEF TakeSeq, writerVars, storeVars
<1>2. nextSeq - 1 \in Nat /\ nextSeq - 1 < nextSeq
  OBVIOUS
<1>3. view' \in [Reader -> Nat] /\ Used'
  BY <1>1, <1>2 DEF Used
<1>4. \A w \in Writer : \A e \in batch[w] : e.seq <= nextSeq - 1
  BY DEF Used, Entry
<1>5. BatchNotSplit'
  <2>1. SUFFICES ASSUME NEW q \in Reader, NEW w \in Writer, NEW d \in batch[w],
                        NEW e \in batch[w], stage'[q] \notin {"idle", "pinned"}
                 PROVE  d.seq <= view'[q] <=> e.seq <= view'[q]
    BY <1>1 DEF BatchNotSplit
  <2>2. CASE q = r
    BY <1>1, <1>4, <2>2
  <2>3. CASE q # r
    BY <1>1, <2>1, <2>3 DEF BatchNotSplit
  <2> QED BY <2>2, <2>3
<1> QED BY <1>3, <1>5

\* An inserted batch is in the memtable, and raises acked to its entries.
LEMMA InsertMemKeeps ==
    ASSUME DbInv, NEW w \in Writer, InsertMem(w)
    PROVE  acked' \in [Key -> Nat] /\ Used' /\ Inserted' /\ AckedKept'
<1> USE DEF DbInv, DbTypeOK
<1> DEFINE B == batch[w]
           n(k) == LargestSeq(B, k)
<1>1. /\ mem' = mem \cup B
      /\ acked' = [k \in Key |-> Max({acked[k], n(k)})]
      /\ UNCHANGED <<tables, seen, chosen, pin, flushing, batch, nextSeq, view>>
  BY DEF InsertMem, levelsVars, tree, taskVars, readerVars
<1>2. B \in SUBSET Entry /\ nextSeq - 1 \in Nat /\ \A e \in B : e.seq <= nextSeq - 1
  BY DEF Used, Entry
<1>3. \A k \in Key : /\ n(k) \in Nat /\ n(k) <= nextSeq - 1
                     /\ \A e \in B : e.key = k => e.seq <= n(k)
                     /\ n(k) # 0 => [key |-> k, seq |-> n(k)] \in B
  BY <1>2, LargestSeqIs
<1> HIDE DEF n
<1>4. \A k \in Key : /\ acked[k] \in Nat /\ acked[k] <= acked'[k] /\ n(k) <= acked'[k]
                     /\ acked'[k] \in {acked[k], n(k)}
  BY <1>1, <1>3, MaxOfTwo
<1>5. acked' \in [Key -> Nat]
  BY <1>1, <1>3, <1>4
<1>6. \A k \in Key : acked'[k] < nextSeq
  <2>1. SUFFICES ASSUME NEW k \in Key PROVE acked'[k] < nextSeq
    OBVIOUS
  <2>2. n(k) < nextSeq
    <3>1. n(k) \in Nat /\ n(k) <= nextSeq - 1
      BY <1>3
    <3>2. nextSeq \in Nat
      OBVIOUS
    <3> QED BY <3>1, <3>2
  <2>3. acked[k] < nextSeq
    BY DEF Used
  <2> QED BY <1>4, <2>2, <2>3
<1>7. Used'
  BY <1>1, <1>6 DEF Used
<1>8. ASSUME NEW E \in SUBSET Entry, Old(E) PROVE \A e \in E : e.seq <= acked'[e.key]
  <2>1. SUFFICES ASSUME NEW e \in E PROVE e.seq <= acked'[e.key]
    OBVIOUS
  <2>2. e.key \in Key /\ e.seq \in Nat
    BY DEF Entry
  <2>3. e.seq <= acked[e.key]
    BY <1>8 DEF Old
  <2> QED BY <1>4, <1>5, <2>2, <2>3
<1>9. \A e \in B : e.seq <= acked'[e.key]
  <2>1. SUFFICES ASSUME NEW e \in B PROVE e.seq <= acked'[e.key]
    OBVIOUS
  <2>2. e.key \in Key /\ e.seq \in Nat
    BY <1>2 DEF Entry
  <2>3. e.seq <= n(e.key) /\ n(e.key) <= acked'[e.key] /\ n(e.key) \in Nat
    BY <1>3, <1>4, <2>2
  <2>4. acked'[e.key] \in Nat
    BY <1>5, <2>2
  <2> QED BY <2>2, <2>3, <2>4
<1>10. ASSUME NEW T \in SUBSET Table, OldTables(T)
       PROVE  \A t \in T : \A e \in t.entries : e.seq <= acked'[e.key]
  BY <1>8, <1>10 DEF OldTables, Table
<1>11. Inserted'
  <2>1. Old(mem)' /\ Old(flushing)'
    BY <1>1, <1>8, <1>9 DEF Inserted, Old
  <2>2. OldTables(tables)'
    BY <1>1, <1>10 DEF Inserted, OldTables, Old, LevelsTypeOK
  <2>3. \A c \in Task : OldTables(seen[c])' /\ OldTables(chosen[c])'
    BY <1>1, <1>10 DEF Inserted, OldTables, Old, LevelsTypeOK
  <2>4. \A r \in Reader : OldTables(pin[r])'
    BY <1>1, <1>10 DEF Inserted, OldTables, Old
  <2> QED BY <2>1, <2>2, <2>3, <2>4 DEF Inserted
<1>12. AckedKept'
  <2>1. SUFFICES ASSUME NEW k \in Key, acked'[k] # 0
                 PROVE  [key |-> k, seq |-> acked'[k]]
                          \in mem' \cup flushing' \cup EntriesOf(tables')
    BY DEF AckedKept
  <2>2. CASE acked'[k] = n(k)
    BY <1>1, <1>3, <2>1, <2>2
  <2>3. CASE acked'[k] = acked[k]
    BY <1>1, <2>1, <2>3 DEF AckedKept
  <2> QED BY <1>4, <2>2, <2>3
<1> QED BY <1>5, <1>7, <1>11, <1>12

\* The memtable is moved out while no other is.
LEMMA MoveMemKeeps ==
    ASSUME DbInv, NEW w \in Writer, MoveMem(w)
    PROVE  OneHolder' /\ Inserted' /\ AckedKept'
<1> USE DEF DbInv, DbTypeOK
<1>1. /\ flushing' = mem /\ mem' = {} /\ step[w] = "inserting"
      /\ step' = [step EXCEPT ![w] = "flushing"]
      /\ UNCHANGED <<tables, seen, chosen, pin, acked>>
  BY DEF MoveMem, levelsVars, tree, taskVars, readerVars
<1>2. \A v \in Writer : Holding(v) => v = w
  BY <1>1 DEF OneHolder, Holding
<1>3. flushing = {}
  BY <1>1, <1>2 DEF OneHolder, Holding
<1>4. OneHolder'
  BY <1>1, <1>2 DEF OneHolder, Holding
<1>5. Inserted'
  BY <1>1 DEF Inserted, Old, OldTables
<1>6. AckedKept'
  BY <1>1, <1>3 DEF AckedKept
<1> QED BY <1>4, <1>5, <1>6

\* The table holds the memtable that was out.
LEMMA FlushMemKeeps ==
    ASSUME DbInv, NEW w \in Writer, FlushMem(w)
    PROVE  LevelsTypeOK' /\ LevelRoom' /\ OneHolder' /\ Inserted' /\ AckedKept'
<1> USE DEF DbInv, DbTypeOK
<1>1. /\ flushing' = {} /\ mem' = mem /\ acked' = acked /\ step[w] = "flushing"
      /\ UNCHANGED <<pin, acked>>
      /\ \/ step' = [step EXCEPT ![w] = "forced"]
         \/ step' = [step EXCEPT ![w] = "inserting"]
  BY DEF FlushMem
<1>2. OneHolder'
  BY <1>1 DEF OneHolder, Holding
<1>3. CASE flushing = {}
  <2>1. UNCHANGED levelsVars
    BY <1>3 DEF FlushMem
  <2>2. LevelsTypeOK' /\ LevelRoom'
    BY <2>1, LevelsTypeStep
  <2>3. UNCHANGED <<tables, seen, chosen, flushing>>
    BY <1>1, <1>3, <2>1 DEF levelsVars, tree, taskVars
  <2> QED BY <1>1, <1>2, <2>2, <2>3 DEF Inserted, Old, OldTables, AckedKept
<1>4. CASE flushing # {}
  <2>1. /\ AddTable(flushing)
        /\ newest' = [k \in Key |-> Max({newest[k], LargestSeq(flushing, k)})]
    BY <1>4 DEF FlushMem, Storage
  <2>2. \A e \in flushing : e.seq <= nextSeq
    <3>1. SUFFICES ASSUME NEW e \in flushing PROVE e.seq <= nextSeq
      OBVIOUS
    <3>2. e.key \in Key /\ e.seq \in Nat /\ acked[e.key] \in Nat
      BY DEF Entry
    <3>3. e.seq <= acked[e.key] /\ acked[e.key] < nextSeq
      BY <3>2 DEF Inserted, Old, Used
    <3> QED BY <3>2, <3>3
  <2>3. \A k \in Key : LargestSeq(flushing, k) \in Nat
    BY <2>2, LargestSeqIs
  <2>4. newest' \in [Key -> Nat]
    <3>1. \A k \in Key : Max({newest[k], LargestSeq(flushing, k)}) \in Nat
      <4>1. SUFFICES ASSUME NEW k \in Key
                     PROVE  Max({newest[k], LargestSeq(flushing, k)}) \in Nat
        OBVIOUS
      <4>2. newest[k] \in Nat /\ LargestSeq(flushing, k) \in Nat
        BY <2>3 DEF LevelsTypeOK
      <4>3. Max({newest[k], LargestSeq(flushing, k)}) \in {newest[k], LargestSeq(flushing, k)}
        BY <4>2, MaxOfTwo
      <4> QED BY <4>2, <4>3
    <3> QED BY <2>1, <3>1
  <2>5. LevelsTypeOK' /\ LevelRoom'
    BY <2>1, <2>4, AddTableType
  <2> DEFINE n == [time |-> written + 1, level |-> Top, entries |-> flushing]
  <2>6. n.entries = flushing /\ tables' = tables \cup {n} /\ UNCHANGED <<seen, chosen>>
    BY <2>1 DEF AddTable, taskVars
  <2> HIDE DEF n
  <2>7. Inserted'
    BY <1>1, <2>6 DEF Inserted, Old, OldTables
  <2>8. AckedKept'
    BY <1>1, <2>6 DEF AckedKept, EntriesOf
  <2> QED BY <1>2, <2>5, <2>7, <2>8
<1> QED BY <1>3, <1>4

\* A compaction drops only entries that a newer one replaces.
LEMMA CompactKeeps ==
    ASSUME DbInv, NEW c \in Task, Compact(c)
    PROVE  LevelsTypeOK' /\ LevelRoom' /\ Inserted' /\ AckedKept'
<1> USE DEF DbInv, DbTypeOK
<1>1. CompactionStep(c) /\ UNCHANGED <<acked, mem, flushing, pin>>
  BY DEF Compact, storeVars, writerVars, readerVars
<1>2. LevelsTypeOK' /\ LevelRoom'
  BY <1>1, LevelsTypeStep DEF LevelsNext
<1> USE DEF LevelsTypeOK
<1>3. CASE Publish(c)
  <2> DEFINE C == chosen[c]
             n == Merged(c)
  <2>1. /\ tables' = (tables \ C) \cup {n} /\ n.entries = MergeTables(C)
        /\ \A d \in Task : seen'[d] \subseteq seen[d] /\ chosen'[d] \subseteq chosen[d]
    BY <1>3 DEF Publish, Return, TablesAfter, Merged
  <2> HIDE DEF n
  <2>2. \A e \in EntriesOf(C) : e.seq <= acked[e.key]
    BY DEF Inserted, OldTables, Old, EntriesOf
  <2>3. Old(n.entries)
    BY <2>1, <2>2 DEF Old, MergeTables
  <2>4. Inserted'
    BY <1>1, <2>1, <2>3 DEF Inserted, OldTables, Old
  <2>5. AckedKept'
    <3>1. SUFFICES ASSUME NEW k \in Key, acked[k] # 0,
                          [key |-> k, seq |-> acked[k]] \in EntriesOf(tables)
                   PROVE  [key |-> k, seq |-> acked[k]] \in EntriesOf(tables')
      BY <1>1 DEF AckedKept
    <3> DEFINE e == [key |-> k, seq |-> acked[k]]
    <3>2. PICK t \in tables : e \in t.entries
      BY <3>1 DEF EntriesOf
    <3>3. CASE t \notin C
      BY <2>1, <3>2, <3>3 DEF EntriesOf
    <3>4. CASE t \in C
      <4>1. e \in MergeTables(C)
        BY <2>2, <3>2, <3>4 DEF MergeTables, EntriesOf
      <4> QED BY <2>1, <4>1 DEF EntriesOf
    <3> QED BY <3>3, <3>4
  <2> QED BY <1>2, <2>4, <2>5
<1>4. CASE Choose(c)
  <2>1. PICK C \in CompactingFiles(seen[c], at[c], Percent[c]) :
           chosen' = [chosen EXCEPT ![c] = C]
    BY <1>4 DEF Choose
  <2>2. C \subseteq seen[c]
    BY DEF CompactingFiles, OwnTables, NextTables, AtLevel
  <2>3. tables' = tables /\ seen' = [seen EXCEPT ![c] = {}]
    BY <1>4 DEF Choose
  <2>4. Inserted'
    BY <1>1, <2>1, <2>2, <2>3 DEF Inserted, OldTables, Old
  <2> QED BY <1>1, <1>2, <2>3, <2>4 DEF AckedKept
<1>5. CASE Skip(c) \/ EndLoop(c) \/ Need(c) \/ Refused(c) \/ Merge(c)
  <2>1. tables' = tables
    BY <1>5 DEF Skip, EndLoop, Need, Refused, Merge, tree
  <2>2. \A d \in Task : seen'[d] \in {seen[d], tables, {}} /\ chosen'[d] \in {chosen[d], {}}
    BY <1>5 DEF Skip, EndLoop, Need, Refused, Merge, Return
  <2>3. Inserted'
    BY <1>1, <2>1, <2>2 DEF Inserted, OldTables, Old
  <2> QED BY <1>1, <1>2, <2>1, <2>3 DEF AckedKept
<1> QED BY <1>1, <1>3, <1>4, <1>5 DEF CompactionStep

\* What a reader finds has a number.
LEMMA FoundType ==
    ASSUME DbInv, NEW r \in Reader, NEW E \in SUBSET Entry, Old(E), Found(r, E)
    PROVE  /\ got' \in [Reader -> [Key -> Nat]] /\ read' \in [Reader -> SUBSET Key]
           /\ stage' = [stage EXCEPT ![r] = "held"]
<1> USE DEF DbInv, DbTypeOK
<1>1. query[r].key \in Key
  BY DEF Entry
<1>2. \A e \in E : e.seq <= nextSeq
  <2>1. SUFFICES ASSUME NEW e \in E PROVE e.seq <= nextSeq
    OBVIOUS
  <2>2. e.key \in Key /\ e.seq \in Nat /\ acked[e.key] \in Nat /\ nextSeq \in Nat
    BY DEF Entry
  <2>3. e.seq <= acked[e.key] /\ acked[e.key] < nextSeq
    BY <2>2 DEF Old, Used
  <2> QED BY <2>2, <2>3
<1>3. LargestSeq(E, query[r].key) \in Nat
  <2>1. nextSeq \in Nat
    OBVIOUS
  <2> QED BY <1>1, <1>2, <2>1, LargestSeqIs
<1> QED BY <1>1, <1>3 DEF Found

ReaderInv ==
    /\ stage \in [Reader -> Stages]
    /\ pin \in [Reader -> SUBSET Table]
    /\ view \in [Reader -> Nat]
    /\ query \in [Reader -> Entry]
    /\ read \in [Reader -> SUBSET Key]
    /\ got \in [Reader -> [Key -> Nat]]
    /\ floor \in [Reader -> [Key -> Nat]]
    /\ raced \in [Reader -> BOOLEAN]

\* Readers change nothing but their snapshots.
LEMMA ReaderKeeps ==
    ASSUME DbInv, NEW r \in Reader, ReaderStep(r)
    PROVE  /\ ReaderInv' /\ Used' /\ BatchNotSplit'
           /\ \A q \in Reader : OldTables(pin'[q])
<1> USE DEF DbInv, DbTypeOK, ReaderInv
<1>1. UNCHANGED <<nextSeq, mem, acked, batch, tables>>
  BY DEF ReaderStep, Pin, TakeSeq, Get, GetFromMem, GetFromTables, Drop,
         levelsVars, tree, storeVars, writerVars
<1>2. CASE Pin(r)
  <2>1. pin' = [pin EXCEPT ![r] = tables] /\ stage' = [stage EXCEPT ![r] = "pinned"]
        /\ floor' = [floor EXCEPT ![r] = acked] /\ UNCHANGED <<view, query, read, got, raced>>
    BY <1>2 DEF Pin
  <2>2. ReaderInv'
    BY <2>1 DEF Stages, LevelsTypeOK
  <2>3. \A q \in Reader : OldTables(pin'[q])
    BY <2>1 DEF Inserted
  <2>4. Used' /\ BatchNotSplit'
    BY <1>1, <2>1 DEF Used, BatchNotSplit
  <2> QED BY <2>2, <2>3, <2>4
<1>3. CASE TakeSeq(r)
  <2>1. view' \in [Reader -> Nat] /\ Used' /\ BatchNotSplit'
    BY <1>3, TakeSeqNumbers
  <2>2. UNCHANGED <<pin, query, read, got, floor, raced>>
        /\ stage' = [stage EXCEPT ![r] = "held"]
    BY <1>3 DEF TakeSeq
  <2> QED BY <2>1, <2>2 DEF Stages, Inserted
<1>4. CASE \E k \in Key : Get(r, k)
  <2>1. PICK k \in Key : Get(r, k)
    BY <1>4
  <2> DEFINE e == [key |-> k, seq |-> IF view[r] = 0 THEN nextSeq - 1 ELSE view[r]]
  <2>2. e \in Entry
    BY DEF Entry
  <2> HIDE DEF e
  <2>3. query' = [query EXCEPT ![r] = e] /\ UNCHANGED <<pin, view, read, got, floor, raced>>
        /\ stage' = [stage EXCEPT ![r] = "asked"] /\ stage[r] = "held"
    BY <2>1 DEF Get, e
  <2>4. ReaderInv'
    BY <2>2, <2>3 DEF Stages
  <2>5. Used' /\ BatchNotSplit'
    BY <1>1, <2>3 DEF Used, BatchNotSplit
  <2> QED BY <2>3, <2>4, <2>5 DEF Inserted
<1>5. ASSUME stage' = [stage EXCEPT ![r] = "held"], stage[r] \in {"asked", "tables"},
             got' \in [Reader -> [Key -> Nat]], read' \in [Reader -> SUBSET Key],
             UNCHANGED <<pin, view, query, floor, raced>>
      PROVE  /\ ReaderInv' /\ Used' /\ BatchNotSplit'
             /\ \A q \in Reader : OldTables(pin'[q])
  <2>1. ReaderInv'
    BY <1>5 DEF Stages
  <2>2. Used' /\ BatchNotSplit'
    BY <1>1, <1>5 DEF Used, BatchNotSplit
  <2> QED BY <1>5, <2>1, <2>2 DEF Inserted
<1>6. CASE GetFromMem(r)
  <2> DEFINE E == NewestOf(mem, query[r].key, query[r].seq)
  <2>1. UNCHANGED <<pin, view, query, floor, raced>> /\ stage[r] = "asked"
    BY <1>6 DEF GetFromMem
  <2>2. CASE Found(r, E)
    <3>1. E \in SUBSET Entry /\ Old(E)
      BY DEF NewestOf, OfKey, Inserted, Old
    <3> QED BY <1>5, <2>1, <2>2, <3>1, FoundType
  <2>3. CASE stage' = [stage EXCEPT ![r] = "tables"] /\ UNCHANGED <<read, got>>
    <3>1. ReaderInv'
      BY <2>1, <2>3 DEF Stages
    <3>2. Used' /\ BatchNotSplit'
      BY <1>1, <2>1, <2>3 DEF Used, BatchNotSplit
    <3> QED BY <2>1, <3>1, <3>2 DEF Inserted
  <2> QED BY <1>6, <2>2, <2>3 DEF GetFromMem
<1>7. CASE GetFromTables(r)
  <2> DEFINE T == SearchedVersion(r)
             E == FindFromSsts(T, query[r].key, query[r].seq)
  <2>1. UNCHANGED <<pin, view, query, floor, raced>> /\ stage[r] = "tables" /\ Found(r, E)
    BY <1>7 DEF GetFromTables
  <2>2. T \in SUBSET Table /\ OldTables(T)
    BY DEF SearchedVersion, Inserted, LevelsTypeOK
  <2> HIDE DEF T
  <2>3. E \subseteq EntriesOf(T)
    BY FoundInTables
  <2>4. E \in SUBSET Entry /\ Old(E)
    BY <2>2, <2>3 DEF EntriesOf, OldTables, Old, Table
  <2> QED BY <1>5, <2>1, <2>4, FoundType
<1>8. CASE Drop(r)
  <2>1. /\ pin' = [pin EXCEPT ![r] = {}] /\ stage' = [stage EXCEPT ![r] = "idle"]
        /\ view' = [view EXCEPT ![r] = 0] /\ query' = [query EXCEPT ![r] = Nowhere]
        /\ read' = [read EXCEPT ![r] = {}] /\ got' = [got EXCEPT ![r] = Zeros]
        /\ floor' = [floor EXCEPT ![r] = Zeros] /\ raced' = [raced EXCEPT ![r] = FALSE]
    BY <1>8 DEF Drop
  <2>2. Zeros \in [Key -> Nat] /\ Nowhere \in Entry
    BY DbLocalAssumption DEF Zeros, Nowhere, Entry
  <2>3. ReaderInv'
    BY <2>1, <2>2 DEF Stages
  <2>4. \A q \in Reader : OldTables(pin'[q])
    BY <2>1 DEF Inserted, OldTables
  <2>5. Used' /\ BatchNotSplit'
    <3>1. 0 < nextSeq
      OBVIOUS
    <3> QED BY <1>1, <2>1, <3>1 DEF Used, BatchNotSplit
  <2> QED BY <2>3, <2>4, <2>5
<1> QED BY <1>2, <1>3, <1>4, <1>6, <1>7, <1>8 DEF ReaderStep

-----------------------------------------------------------------------------
(***************************************************************************)
(* The invariant.                                                          *)
(***************************************************************************)
LEMMA DbInvInit == DbInit => DbInv
<1> SUFFICES ASSUME DbInit PROVE DbInv
  OBVIOUS
<1> USE DEF DbInit
<1>1. LevelsTypeOK /\ LevelRoom
  BY LevelsTypeInit
<1>2. Zeros \in [Key -> Nat] /\ Nowhere \in Entry
  BY DbLocalAssumption DEF Zeros, Nowhere, Entry
<1>3. Allowed[0] - 2 \in Nat
  BY LevelsAssumption, DbLocalAssumption DEF Level
<1>4. DbTypeOK
  BY <1>1, <1>2, <1>3 DEF DbTypeOK, Steps, Stages
<1>5. Used
  BY DEF Used, Zeros
<1>6. OneHolder
  BY DEF OneHolder, Holding
<1>7. Inserted
  BY DEF Inserted, Old, OldTables, LevelsInit
<1>8. BatchNotSplit /\ AckedKept
  BY DEF BatchNotSplit, AckedKept, Zeros
<1> QED BY <1>1, <1>4, <1>5, <1>6, <1>7, <1>8 DEF DbInv

LEMMA DbInvStep == DbInv /\ [DbNext]_dbVars => DbInv'
<1> SUFFICES ASSUME DbInv, [DbNext]_dbVars PROVE DbInv'
  OBVIOUS
<1> USE DEF DbInv, DbTypeOK
<1>0. Allowed[0] \in Nat /\ Allowed[0] - 1 \in Nat \ {0}
  BY LevelsAssumption, DbLocalAssumption DEF Level
<1>1. ASSUME UNCHANGED readerVars PROVE ReaderInv'
  BY <1>1 DEF ReaderInv, readerVars
<1>2. ASSUME UNCHANGED levelsVars PROVE LevelsTypeOK' /\ LevelRoom'
  BY <1>2, LevelsTypeStep
<1>3. ASSUME UNCHANGED <<levelsVars, mem, flushing, acked, pin>>
      PROVE  Inserted' /\ AckedKept'
  BY <1>3 DEF Inserted, Old, OldTables, AckedKept, levelsVars, tree, taskVars
<1>4. ASSUME UNCHANGED <<batch, nextSeq, acked, view, stage>>
      PROVE  Used' /\ BatchNotSplit'
  BY <1>4 DEF Used, BatchNotSplit
<1>5. ASSUME NEW w \in Writer, Insert(w) PROVE DbInv'
  <2>1. UNCHANGED <<levelsVars, mem, flushing, hint, acked, readerVars>>
        /\ step[w] = "idle" /\ step' = [step EXCEPT ![w] = "waiting"]
    BY <1>5 DEF Insert
  <2>2. OneHolder'
    BY <2>1 DEF OneHolder, Holding
  <2>3. step' \in [Writer -> Steps]
    BY <2>1 DEF Steps
  <2>4. UNCHANGED <<pin, view, stage>>
    BY <2>1 DEF readerVars
  <2>5. Inserted' /\ AckedKept'
    BY <1>3, <2>1, <2>4
  <2>6. /\ batch' \in [Writer -> SUBSET Entry] /\ nextSeq' \in Nat \ {0}
        /\ Used' /\ BatchNotSplit'
    BY <1>5, InsertNumbers
  <2> QED BY <1>1, <1>2, <2>1, <2>2, <2>3, <2>5, <2>6 DEF ReaderInv
<1>6. ASSUME NEW w \in Writer, AcquireMem(w) \/ ForceCompaction(w) \/ EndForced(w)
      PROVE  DbInv'
  <2>1. /\ UNCHANGED <<storeVars, batch, acked, readerVars, tables, seen, chosen>>
        /\ \/ step' = [step EXCEPT ![w] = "inserting"] /\ MemMutexFree
           \/ step' = [step EXCEPT ![w] = "inserting"] /\ step[w] = "compacting"
           \/ step' = [step EXCEPT ![w] = "compacting"] /\ step[w] = "forced"
    BY <1>6 DEF AcquireMem, ForceCompaction, EndForced, Call, levelsVars, tree, taskVars
  <2>2. OneHolder'
    BY <2>1 DEF OneHolder, Holding, MemMutexFree, storeVars
  <2>3. step' \in [Writer -> Steps]
    BY <2>1 DEF Steps
  <2>4. LevelsTypeOK' /\ LevelRoom'
    <3>1. w \in Task
      BY DbLocalAssumption
    <3>2. [LevelsNext]_levelsVars
      BY <1>6, <3>1 DEF AcquireMem, ForceCompaction, EndForced, LevelsNext
    <3> QED BY <3>2, LevelsTypeStep
  <2>5. UNCHANGED <<batch, nextSeq, acked, view, stage, pin, mem, flushing, hint>>
    BY <2>1 DEF readerVars, storeVars
  <2>6. Inserted' /\ AckedKept'
    BY <2>1, <2>5 DEF Inserted, Old, OldTables, AckedKept
  <2> QED BY <1>1, <1>4, <2>1, <2>2, <2>3, <2>4, <2>5, <2>6 DEF ReaderInv
<1>7. ASSUME NEW w \in Writer, InsertMem(w) PROVE DbInv'
  <2>1. /\ UNCHANGED <<levelsVars, nextSeq, flushing, hint, batch, readerVars>>
        /\ step[w] = "inserting" /\ step' = [step EXCEPT ![w] = "idle"]
        /\ mem' = mem \cup batch[w]
    BY <1>7 DEF InsertMem
  <2>2. OneHolder'
    BY <2>1 DEF OneHolder, Holding
  <2>3. step' \in [Writer -> Steps] /\ mem' \subseteq Entry
    BY <2>1 DEF Steps
  <2>4. acked' \in [Key -> Nat] /\ Used' /\ Inserted' /\ AckedKept'
    BY <1>7, InsertMemKeeps
  <2>5. BatchNotSplit'
    BY <2>1 DEF BatchNotSplit, readerVars
  <2> QED BY <1>1, <1>2, <2>1, <2>2, <2>3, <2>4, <2>5 DEF ReaderInv
<1>8. ASSUME NEW w \in Writer, MoveMem(w) PROVE DbInv'
  <2>1. /\ UNCHANGED <<levelsVars, nextSeq, batch, acked, readerVars>>
        /\ flushing' = mem /\ mem' = {} /\ hint' = (hint + 1) % (Allowed[0] - 1)
        /\ step' = [step EXCEPT ![w] = "flushing"]
    BY <1>8 DEF MoveMem, OfBoundMinusOne
  <2>2. hint' \in 0 .. (Allowed[0] - 2)
    BY <1>0, <2>1
  <2>3. step' \in [Writer -> Steps]
    BY <2>1 DEF Steps
  <2>4. OneHolder' /\ Inserted' /\ AckedKept'
    BY <1>8, MoveMemKeeps
  <2>5. UNCHANGED <<view, stage>>
    BY <2>1 DEF readerVars
  <2> QED BY <1>1, <1>2, <1>4, <2>1, <2>2, <2>3, <2>4, <2>5 DEF ReaderInv
<1>9. ASSUME NEW w \in Writer, FlushMem(w) PROVE DbInv'
  <2>1. /\ UNCHANGED <<nextSeq, mem, hint, batch, acked>>
        /\ UNCHANGED <<stage, pin, view, query, read, got, floor>>
        /\ flushing' = {} /\ step' \in [Writer -> Steps]
    BY <1>9 DEF FlushMem, Steps
  <2>2. raced' \in [Reader -> BOOLEAN]
    BY <1>9 DEF FlushMem
  <2>3. LevelsTypeOK' /\ LevelRoom' /\ OneHolder' /\ Inserted' /\ AckedKept'
    BY <1>9, FlushMemKeeps
  <2> QED BY <1>4, <2>1, <2>2, <2>3
<1>10. ASSUME NEW r \in Reader, ReaderStep(r) PROVE DbInv'
  <2>1. UNCHANGED <<levelsVars, storeVars, writerVars>>
    BY <1>10 DEF ReaderStep, Pin, TakeSeq, Get, GetFromMem, GetFromTables, Drop
  <2>2. /\ ReaderInv' /\ Used' /\ BatchNotSplit'
        /\ \A q \in Reader : OldTables(pin'[q])
    BY <1>10, ReaderKeeps
  <2>3. OneHolder'
    BY <2>1 DEF OneHolder, Holding, storeVars, writerVars
  <2>4. UNCHANGED <<tables, seen, chosen, mem, flushing, acked>>
    BY <2>1 DEF levelsVars, tree, taskVars, storeVars, writerVars
  <2>5. Inserted' /\ AckedKept'
    BY <2>2, <2>4 DEF Inserted, Old, OldTables, AckedKept
  <2> QED BY <1>2, <2>1, <2>2, <2>3, <2>5 DEF storeVars, writerVars, ReaderInv
<1>11. ASSUME UNCHANGED <<storeVars, writerVars, readerVars>>
       PROVE  ReaderInv' /\ Used' /\ BatchNotSplit' /\ OneHolder'
  BY <1>1, <1>4, <1>11 DEF storeVars, writerVars, readerVars, OneHolder, Holding
<1>12. ASSUME NEW c \in Task, Compact(c) PROVE DbInv'
  <2>1. LevelsTypeOK' /\ LevelRoom' /\ Inserted' /\ AckedKept'
    BY <1>12, CompactKeeps
  <2>2. UNCHANGED <<storeVars, writerVars, readerVars>>
    BY <1>12 DEF Compact
  <2> QED BY <1>11, <2>1, <2>2 DEF storeVars, writerVars, ReaderInv
<1>13. ASSUME NEW c \in Loops, LoopAgain(c) PROVE DbInv'
  <2>1. UNCHANGED <<storeVars, writerVars, readerVars>> /\ Call(c) /\ c \in Task
    BY <1>13, LevelsAssumption DEF LoopAgain
  <2>2. LevelsTypeOK' /\ LevelRoom'
    BY <2>1, LevelsTypeStep DEF LevelsNext
  <2>3. UNCHANGED <<tables, seen, chosen, mem, flushing, acked, pin>>
    BY <2>1 DEF Call, tree, storeVars, writerVars, readerVars
  <2>4. Inserted' /\ AckedKept'
    BY <2>3 DEF Inserted, Old, OldTables, AckedKept
  <2> QED BY <1>11, <2>1, <2>2, <2>4 DEF storeVars, writerVars, ReaderInv
<1>14. CASE UNCHANGED dbVars
  <2>1. UNCHANGED <<levelsVars, storeVars, writerVars, readerVars>>
    BY <1>14 DEF dbVars
  <2>2. UNCHANGED <<levelsVars, mem, flushing, acked, pin>>
    BY <2>1 DEF storeVars, writerVars, readerVars
  <2> QED BY <1>2, <1>3, <1>11, <2>1, <2>2 DEF storeVars, writerVars, ReaderInv
<1> QED BY <1>5, <1>6, <1>7, <1>8, <1>9, <1>10, <1>12, <1>13, <1>14
        DEF DbNext, WriterStep, HolderStep

\* The variables of an open database keep their types.
THEOREM DbTypeCorrect == DbSpec => []DbTypeOK
<1>1. DbInv => DbTypeOK
  BY DEF DbInv
<1> QED BY <1>1, DbInvInit, DbInvStep, PTL DEF DbSpec

\* No snapshot splits a batch, however inserts and snapshots interleave.
THEOREM NoSnapshotSplitsABatch == DbSpec => []BatchNotSplit
<1>1. DbInv => BatchNotSplit
  BY DEF DbInv
<1> QED BY <1>1, DbInvInit, DbInvStep, PTL DEF DbSpec

\* The last write of a key stays in memory or in a table, through flushes and
\* overlapping compactions.
THEOREM AckedIsKept == DbSpec => []AckedKept
<1>1. DbInv => AckedKept
  BY DEF DbInv
<1> QED BY <1>1, DbInvInit, DbInvStep, PTL DEF DbSpec

-----------------------------------------------------------------------------
(***************************************************************************)
(* One writer.                                                             *)
(***************************************************************************)
OnlyWritersCompact == Task = Writer

\* Tables are ordered, so that a search from the top finds the newest entry.
OrderedIn(T) == \A t, u \in T : Above(t, u) => Newer(t, u)

\* The memtables hold what is newer than any table, a batch what is newer than
\* any insert that returned.
MemIsNewer == \A e \in mem \cup flushing : newest[e.key] < e.seq
BatchIsNewer ==
    \A w \in Writer : step[w] # "idle" => \A e \in batch[w] : acked[e.key] < e.seq
MemIsEmpty == \A w \in Writer : step[w] = "flushing" => mem = {}

\* What a snapshot holds.
Snapped(r) == stage[r] # "idle"
HasNumber(r) == stage[r] \notin {"idle", "pinned"}

PinFit == \A r \in Reader :
    /\ OrderedIn(pin[r])
    /\ \A e \in EntriesOf(pin[r]) : e.seq <= newest[e.key]

NumbersFit == \A r \in Reader :
    /\ Snapped(r) => \A k \in Key : floor[r][k] <= acked[k]
    /\ HasNumber(r) => \A k \in Key : floor[r][k] <= view[r]
    /\ stage[r] \in {"asked", "tables"} => view[r] <= query[r].seq

\* Where the last write before the snapshot is, if no memtable was flushed.
FloorOf(r, k) == [key |-> k, seq |-> floor[r][k]]
FloorHeld == \A r \in Reader :
    Snapped(r) /\ ~raced[r] =>
        /\ \A k \in Key : floor[r][k] # 0 =>
               FloorOf(r, k) \in mem \cup flushing \cup EntriesOf(pin[r])
        /\ LET k == query[r].key
           IN  stage[r] = "tables" /\ floor[r][k] # 0 => FloorOf(r, k) \in EntriesOf(pin[r])

NothingRead == \A r \in Reader : ~HasNumber(r) => read[r] = {}

StoreInv ==
    /\ DbInv
    /\ IInv
    /\ MemIsNewer
    /\ BatchIsNewer
    /\ MemIsEmpty

FreshInv ==
    /\ PinFit
    /\ NumbersFit
    /\ FloorHeld
    /\ NothingRead
    /\ FreshUnlessRaced

-----------------------------------------------------------------------------
(***************************************************************************)
(* Searching ordered tables.                                               *)
(***************************************************************************)
LEMMA SearchFinds ==
    ASSUME NEW T \in SUBSET Table, OrderedIn(T), NEW k \in Key, NEW s \in Nat,
           NEW d \in OfKey(EntriesOf(T), k, s)
    PROVE  \E e \in FindFromSsts(T, k, s) : d.seq <= e.seq
<1> DEFINE A(l) == OfKey(EntriesOf(AtLevel(T, l)), k, s)
           L == {l \in Level : A(l) # {}}
<1>1. PICK t \in T : d \in t.entries
  BY DEF OfKey, EntriesOf
<1>2. t.level \in Level /\ d \in Entry /\ d.key = k /\ d.seq <= s /\ d.seq \in Nat
  BY <1>1 DEF Table, Entry, OfKey
<1>3. d \in A(t.level)
  BY <1>1, <1>2 DEF OfKey, EntriesOf, AtLevel
<1>4. L \in SUBSET Nat /\ L # {}
  BY <1>2, <1>3 DEF Level
<1>5. PICK l \in L : \A m \in L : l <= m
  <2> HIDE DEF L
  <2> QED BY <1>4, LeastOf
<1>6. l \in Level /\ l \in Nat /\ A(l) # {} /\ l <= t.level
  BY <1>2, <1>3, <1>4, <1>5
<1>7. \A m \in 0 .. (l - 1) : A(m) = {}
  <2>1. SUFFICES ASSUME NEW m \in 0 .. (l - 1), A(m) # {} PROVE FALSE
    OBVIOUS
  <2>2. m \in Level /\ m < l
    BY <1>6, <2>1, LevelsAssumption DEF Level
  <2> QED BY <1>5, <1>6, <2>1, <2>2
<1>8. A(l) \in SUBSET Entry /\ \A e \in A(l) : e.seq <= s
  BY DEF OfKey, EntriesOf, AtLevel, Table
<1>9. PICK e \in A(l) : \A c \in A(l) : c.seq <= e.seq
  <2> HIDE DEF A
  <2> QED BY <1>6, <1>8, LastOf
<1>10. e \in FindFromSsts(T, k, s)
  <2>1. e \in NewestOf(EntriesOf(AtLevel(T, l)), k, s)
    BY <1>9 DEF NewestOf
  <2> QED BY <1>6, <1>7, <2>1 DEF FindFromSsts
<1>11. CASE l = t.level
  BY <1>3, <1>9, <1>10, <1>11
<1>12. CASE l # t.level
  <2>1. PICK u \in T : u.level = l /\ e \in u.entries /\ e.key = k
    BY DEF OfKey, EntriesOf, AtLevel
  <2>2. Above(u, t)
    BY <1>2, <1>6, <1>12, <2>1 DEF Above, Level
  <2>3. d.seq < e.seq
    BY <1>1, <1>2, <2>1, <2>2 DEF OrderedIn, Newer
  <2>4. e.seq \in Nat
    BY <1>8 DEF Entry
  <2> QED BY <1>2, <1>10, <2>3, <2>4
<1> QED BY <1>11, <1>12

LEMMA SearchFindsOnly ==
    ASSUME NEW T, NEW k, NEW s
    PROVE  FindFromSsts(T, k, s) \subseteq OfKey(EntriesOf(T), k, s)
BY DEF FindFromSsts, NewestOf, OfKey, EntriesOf, AtLevel

-----------------------------------------------------------------------------
(***************************************************************************)
(* The store.                                                              *)
(***************************************************************************)
LEMMA StoreInit == DbInit => StoreInv /\ FreshInv
<1> SUFFICES ASSUME DbInit PROVE StoreInv /\ FreshInv
  OBVIOUS
<1>1. DbInv
  BY DbInvInit
<1>2. IInv
  BY IInvInit DEF DbInit
<1>3. MemIsNewer /\ BatchIsNewer /\ MemIsEmpty
  BY DEF DbInit, MemIsNewer, BatchIsNewer, MemIsEmpty
<1>4. FreshInv
  BY DEF DbInit, FreshInv, PinFit, OrderedIn, EntriesOf, NumbersFit, FloorHeld, Snapped,
         HasNumber, NothingRead, FreshUnlessRaced, Fresh
<1> QED BY <1>1, <1>2, <1>3, <1>4 DEF StoreInv

\* What was flushed was inserted.
LEMMA NewestIsAcked ==
    ASSUME StoreInv PROVE \A k \in Key : newest[k] \in Nat /\ newest[k] <= acked[k]
<1> SUFFICES ASSUME NEW k \in Key PROVE newest[k] \in Nat /\ newest[k] <= acked[k]
  OBVIOUS
<1>1. newest[k] \in Nat /\ acked[k] \in Nat
  BY DEF StoreInv, DbInv, DbTypeOK, LevelsTypeOK
<1>2. CASE newest[k] = 0
  BY <1>1, <1>2
<1>3. CASE newest[k] # 0
  <2>1. PICK t \in tables : [key |-> k, seq |-> newest[k]] \in t.entries
    BY <1>3 DEF StoreInv, IInv, NothingLost, EntriesOf
  <2> QED BY <1>1, <2>1 DEF StoreInv, DbInv, Inserted, OldTables, Old
<1> QED BY <1>2, <1>3

\* A flush adds a table to the tree as those of Levels do.
LEMMA FlushMemAddsTable ==
    ASSUME StoreInv, NEW w \in Writer, FlushMem(w), flushing # {}
    PROVE  flushing \in SUBSET Entry /\ Flushes(flushing)
<1> USE DEF StoreInv, DbInv, DbTypeOK, LevelsTypeOK
<1> DEFINE n(k) == LargestSeq(flushing, k)
<1>1. /\ AddTable(flushing)
      /\ newest' = [k \in Key |-> Max({newest[k], n(k)})]
  BY DEF FlushMem, Storage
<1>2. \A e \in flushing : e.key \in Key /\ e.seq \in Nat /\ e.seq <= nextSeq
  <2>1. SUFFICES ASSUME NEW e \in flushing PROVE e.key \in Key /\ e.seq \in Nat /\ e.seq <= nextSeq
    OBVIOUS
  <2>2. e.key \in Key /\ e.seq \in Nat /\ acked[e.key] \in Nat
    BY DEF Entry
  <2>3. e.seq <= acked[e.key] /\ acked[e.key] < nextSeq
    BY <2>2 DEF Inserted, Old, Used
  <2> QED BY <2>2, <2>3
<1>3. \A k \in Key : /\ n(k) \in Nat
                     /\ \A e \in flushing : e.key = k => e.seq <= n(k)
                     /\ n(k) # 0 => [key |-> k, seq |-> n(k)] \in flushing
  BY <1>2, LargestSeqIs
<1> HIDE DEF n
<1>4. \A k \in Key : /\ newest[k] \in Nat /\ newest'[k] \in {newest[k], n(k)}
                     /\ newest[k] <= newest'[k] /\ n(k) <= newest'[k]
  BY <1>1, <1>3, MaxOfTwo
<1>5. newest' \in [Key -> Nat]
  <2>1. \A k \in Key : newest'[k] \in Nat
    BY <1>3, <1>4
  <2>2. newest' = [k \in Key |-> newest'[k]]
    <3> DEFINE f == [k \in Key |-> Max({newest[k], n(k)})]
    <3>1. f = [k \in Key |-> f[k]]
      OBVIOUS
    <3> QED BY <1>1, <3>1
  <2> QED BY <2>1, <2>2
<1>6. \A e \in flushing : newest[e.key] < e.seq /\ e.seq <= newest'[e.key]
  <2>1. SUFFICES ASSUME NEW e \in flushing PROVE newest[e.key] < e.seq /\ e.seq <= newest'[e.key]
    OBVIOUS
  <2>2. newest[e.key] < e.seq
    BY DEF MemIsNewer
  <2>3. e.seq <= n(e.key) /\ n(e.key) <= newest'[e.key] /\ n(e.key) \in Nat
    BY <1>2, <1>3, <1>4
  <2>4. newest'[e.key] \in Nat
    BY <1>2, <1>5
  <2> QED BY <1>2, <2>2, <2>3, <2>4
<1>7. \A k \in Key : newest'[k] # newest[k] => [key |-> k, seq |-> newest'[k]] \in flushing
  <2>1. SUFFICES ASSUME NEW k \in Key, newest'[k] # newest[k]
                 PROVE  [key |-> k, seq |-> newest'[k]] \in flushing
    OBVIOUS
  <2>2. newest'[k] = n(k) /\ newest[k] <= n(k) /\ newest[k] # n(k)
    BY <1>4, <2>1
  <2>3. n(k) # 0
    BY <1>3, <1>4, <2>2
  <2> QED BY <1>3, <2>2, <2>3
<1> QED BY <1>1, <1>4, <1>5, <1>6, <1>7 DEF Flushes

\* The tree keeps its order.
LEMMA TreeStep ==
    ASSUME OnlyWritersCompact, TopLevelsOnly, StoreInv, [DbNext]_dbVars
    PROVE  IInv'
<1>1. OneAtATime /\ OneAtATime'
  BY OneWriterAssumption DEF OnlyWritersCompact, OneAtATime
<1>2. IInv
  BY DEF StoreInv
<1>3. CASE [LevelsNext]_levelsVars
  BY <1>1, <1>2, <1>3, IInvStep
<1>4. ASSUME NEW w \in Writer, FlushMem(w) PROVE IInv'
  <2>1. CASE flushing = {}
    BY <1>3, <1>4, <2>1 DEF FlushMem
  <2>2. CASE flushing # {}
    <3>1. LevelsTypeOK' /\ LevelRoom'
      BY <1>4, FlushMemKeeps DEF StoreInv
    <3>2. flushing \in SUBSET Entry /\ Flushes(flushing)
      BY <1>4, <2>2, FlushMemAddsTable
    <3> QED BY <1>2, <3>1, <3>2, FlushKeeps, FlushKeepsTasks DEF IInv
  <2> QED BY <2>1, <2>2
<1>5. ASSUME NEW w \in Writer, WriterStep(w), ~FlushMem(w) PROVE [LevelsNext]_levelsVars
  <2>1. w \in Task
    BY DbLocalAssumption
  <2> QED BY <1>5, <2>1 DEF WriterStep, HolderStep, Insert, AcquireMem, InsertMem, MoveMem,
                            ForceCompaction, EndForced, LevelsNext
<1>6. ASSUME NEW r \in Reader, ReaderStep(r) PROVE [LevelsNext]_levelsVars
  BY <1>6 DEF ReaderStep, Pin, TakeSeq, Get, GetFromMem, GetFromTables, Drop
<1>7. CASE UNCHANGED dbVars
  BY <1>3, <1>7 DEF dbVars
<1>8. ASSUME NEW c \in Task, Compact(c) \/ (c \in Loops /\ LoopAgain(c))
      PROVE  [LevelsNext]_levelsVars
  BY <1>8 DEF Compact, LoopAgain, LevelsNext
<1> QED BY <1>3, <1>4, <1>5, <1>6, <1>7, <1>8, LevelsAssumption DEF DbNext, WriterStep, HolderStep

\* What is in memory stays newer than the tables, for one writer.
MemInv == MemIsNewer /\ BatchIsNewer /\ MemIsEmpty

LEMMA WriterKeepsMem ==
    ASSUME StoreInv, NEW w \in Writer, WriterStep(w)
    PROVE  MemInv'
<1> USE DEF StoreInv, DbInv, DbTypeOK, MemInv
<1>1. \A v \in Writer : v = w
  BY OneWriterAssumption
<1>2. CASE Insert(w)
  <2>1. /\ UNCHANGED <<mem, flushing, newest, acked>>
        /\ step' = [step EXCEPT ![w] = "waiting"]
    BY <1>2 DEF Insert, levelsVars
  <2>2. PICK keys \in Writes : batch' = [batch EXCEPT ![w] = Numbered(keys, nextSeq)]
    BY <1>2 DEF Insert
  <2>3. \A e \in Numbered(keys, nextSeq) : e \in Entry /\ nextSeq <= e.seq
    BY DbLocalAssumption, NumberedIs
  <2>4. \A e \in batch'[w] : acked[e.key] < e.seq
    <3>1. SUFFICES ASSUME NEW e \in batch'[w] PROVE acked[e.key] < e.seq
      OBVIOUS
    <3>2. e \in Entry /\ nextSeq <= e.seq
      BY <2>2, <2>3
    <3>3. e.key \in Key /\ e.seq \in Nat /\ acked[e.key] \in Nat /\ nextSeq \in Nat
      BY <3>2 DEF Entry
    <3>4. acked[e.key] < nextSeq
      BY <3>3 DEF Used
    <3> QED BY <3>2, <3>3, <3>4
  <2>5. BatchIsNewer'
    BY <1>1, <2>1, <2>4 DEF BatchIsNewer
  <2> QED BY <1>1, <2>1, <2>5 DEF MemIsNewer, MemIsEmpty
<1>3. CASE InsertMem(w)
  <2>1. /\ mem' = mem \cup batch[w] /\ UNCHANGED <<flushing, newest, batch>>
        /\ step[w] = "inserting" /\ step' = [step EXCEPT ![w] = "idle"]
    BY <1>3 DEF InsertMem, levelsVars
  <2>2. \A e \in batch[w] : newest[e.key] < e.seq
    <3>1. SUFFICES ASSUME NEW e \in batch[w] PROVE newest[e.key] < e.seq
      OBVIOUS
    <3>2. e.key \in Key /\ e.seq \in Nat
      BY DEF Entry
    <3>3. newest[e.key] \in Nat /\ newest[e.key] <= acked[e.key] /\ acked[e.key] \in Nat
      BY <3>2, NewestIsAcked
    <3>4. acked[e.key] < e.seq
      BY <2>1 DEF BatchIsNewer
    <3> QED BY <3>2, <3>3, <3>4
  <2>3. MemIsNewer'
    BY <2>1, <2>2 DEF MemIsNewer
  <2> QED BY <1>1, <2>1, <2>3 DEF BatchIsNewer, MemIsEmpty
<1>4. CASE MoveMem(w)
  BY <1>1, <1>4 DEF MoveMem, levelsVars, MemIsNewer, BatchIsNewer, MemIsEmpty
<1>5. CASE FlushMem(w)
  <2>1. /\ step[w] = "flushing" /\ flushing' = {} /\ UNCHANGED <<mem, batch, acked>>
        /\ step'[w] \in {"forced", "inserting"}
    BY <1>5 DEF FlushMem
  <2>2. mem = {}
    BY <2>1 DEF MemIsEmpty
  <2> QED BY <1>1, <2>1, <2>2 DEF MemIsNewer, BatchIsNewer, MemIsEmpty
<1>6. CASE AcquireMem(w) \/ ForceCompaction(w) \/ EndForced(w)
  <2>1. UNCHANGED <<mem, flushing, newest, batch, acked>>
    BY <1>6 DEF AcquireMem, ForceCompaction, EndForced, Call, levelsVars, storeVars
  <2>2. step[w] \in {"waiting", "forced", "compacting"} /\ step'[w] \in {"inserting", "compacting"}
    BY <1>6 DEF AcquireMem, ForceCompaction, EndForced
  <2> QED BY <1>1, <2>1, <2>2 DEF MemIsNewer, BatchIsNewer, MemIsEmpty
<1> QED BY <1>2, <1>3, <1>4, <1>5, <1>6 DEF WriterStep, HolderStep

LEMMA OthersKeepMem ==
    ASSUME StoreInv, [DbNext]_dbVars, ~\E w \in Writer : WriterStep(w)
    PROVE  MemInv' /\ UNCHANGED <<storeVars, writerVars, newest>>
<1>1. UNCHANGED <<storeVars, writerVars, newest>>
  <2>1. ASSUME NEW r \in Reader, ReaderStep(r) PROVE UNCHANGED <<storeVars, writerVars, newest>>
    BY <2>1 DEF ReaderStep, Pin, TakeSeq, Get, GetFromMem, GetFromTables, Drop, levelsVars
  <2>2. ASSUME NEW c \in Task, Compact(c) \/ LoopAgain(c)
        PROVE  UNCHANGED <<storeVars, writerVars, newest>>
    BY <2>2 DEF Compact, LoopAgain, CompactionStep, Call, Skip, EndLoop, Need, Refused, Choose,
                Merge, Publish
  <2>3. CASE UNCHANGED dbVars
    BY <2>3 DEF dbVars, levelsVars
  <2> QED BY <2>1, <2>2, <2>3, LevelsAssumption DEF DbNext
<1> QED BY <1>1 DEF StoreInv, MemInv, MemIsNewer, BatchIsNewer, MemIsEmpty, storeVars, writerVars

LEMMA StoreStep ==
    ASSUME OnlyWritersCompact, TopLevelsOnly, StoreInv, [DbNext]_dbVars
    PROVE  StoreInv'
<1>1. MemInv'
  BY WriterKeepsMem, OthersKeepMem
<1>2. DbInv' /\ IInv'
  BY DbInvStep, TreeStep DEF StoreInv
<1> QED BY <1>1, <1>2 DEF StoreInv, MemInv

-----------------------------------------------------------------------------
(***************************************************************************)
(* Fresh reads.                                                            *)
(***************************************************************************)
\* What was inserted and what was flushed only grows.
LEMMA NumbersRise ==
    ASSUME StoreInv, StoreInv', [DbNext]_dbVars
    PROVE  \A k \in Key : newest[k] <= newest'[k] /\ acked[k] <= acked'[k]
<1> USE DEF StoreInv, DbInv, DbTypeOK, LevelsTypeOK
<1>1. CASE UNCHANGED <<newest, acked>>
  BY <1>1
<1>2. ASSUME NEW w \in Writer, FlushMem(w)
      PROVE  \A k \in Key : newest[k] <= newest'[k] /\ acked[k] <= acked'[k]
  <2>1. acked' = acked
    BY <1>2 DEF FlushMem
  <2>2. CASE flushing = {}
    BY <1>1, <1>2, <2>1, <2>2 DEF FlushMem, levelsVars
  <2>3. CASE flushing # {}
    BY <1>2, <2>1, <2>3, FlushMemAddsTable, SMTT(30) DEF Flushes
  <2> QED BY <2>2, <2>3
<1>3. ASSUME NEW w \in Writer, InsertMem(w)
      PROVE  \A k \in Key : newest[k] <= newest'[k] /\ acked[k] <= acked'[k]
  <2>1. newest' = newest /\ acked' = [k \in Key |-> Max({acked[k], LargestSeq(batch[w], k)})]
    BY <1>3 DEF InsertMem, levelsVars
  <2>2. \A e \in batch[w] : e.seq <= nextSeq
    <3>1. \A e \in batch[w] : e.seq \in Nat /\ e.seq < nextSeq
      BY DEF Used, Entry
    <3> QED BY <3>1
  <2>3. \A k \in Key : LargestSeq(batch[w], k) \in Nat
    BY <2>2, LargestSeqIs
  <2>4. \A k \in Key : acked[k] <= Max({acked[k], LargestSeq(batch[w], k)})
    BY <2>3, MaxOfTwo
  <2> QED BY <2>1, <2>4
<1>4. ASSUME NEW w \in Writer, WriterStep(w), ~FlushMem(w), ~InsertMem(w)
      PROVE  UNCHANGED <<newest, acked>>
  BY <1>4 DEF WriterStep, HolderStep, Insert, AcquireMem, MoveMem, ForceCompaction, EndForced,
              Call, levelsVars
<1>5. ASSUME ~\E w \in Writer : WriterStep(w) PROVE UNCHANGED <<newest, acked>>
  BY <1>5, OthersKeepMem DEF writerVars
<1> QED BY <1>1, <1>2, <1>3, <1>4, <1>5

\* Snapshots and what they have read, while the store goes on.
SnapshotsKept == UNCHANGED <<stage, pin, view, query, read, got, floor>>

LEMMA StoreStepKeepsSnapshots ==
    ASSUME StoreInv, StoreInv', FreshInv, [DbNext]_dbVars, SnapshotsKept
    PROVE  PinFit' /\ NumbersFit' /\ NothingRead'
<1> USE DEF StoreInv, DbInv, DbTypeOK, LevelsTypeOK, SnapshotsKept, FreshInv
<1>1. \A k \in Key : /\ newest[k] \in Nat /\ newest'[k] \in Nat /\ newest[k] <= newest'[k]
                     /\ acked[k] \in Nat /\ acked'[k] \in Nat /\ acked[k] <= acked'[k]
  BY NumbersRise
<1>2. PinFit'
  <2>1. \A r \in Reader : OrderedIn(pin[r])'
    BY DEF PinFit, OrderedIn, Above, Newer
  <2>2. ASSUME NEW r \in Reader, NEW e \in EntriesOf(pin[r]) PROVE e.seq <= newest'[e.key]
    <3>1. e.key \in Key /\ e.seq \in Nat
      BY DEF EntriesOf, Table, Entry
    <3>2. e.seq <= newest[e.key]
      BY DEF PinFit
    <3> QED BY <1>1, <3>1, <3>2
  <2> QED BY <2>1, <2>2 DEF PinFit, EntriesOf
<1>3. NumbersFit'
  <2>1. ASSUME NEW r \in Reader, NEW k \in Key, Snapped(r) PROVE floor[r][k] <= acked'[k]
    <3>1. floor[r][k] \in Nat /\ floor[r][k] <= acked[k]
      BY <2>1 DEF NumbersFit
    <3> QED BY <1>1, <3>1
  <2> QED BY <2>1 DEF NumbersFit, Snapped, HasNumber
<1>4. NothingRead'
  BY DEF NothingRead, HasNumber
<1> QED BY <1>2, <1>3, <1>4

LEMMA WriterKeepsFresh ==
    ASSUME StoreInv, StoreInv', FreshInv, NEW w \in Writer, WriterStep(w)
    PROVE  FreshInv'
<1> USE DEF FreshInv
<1>1. SnapshotsKept
  BY DEF WriterStep, HolderStep, Insert, AcquireMem, InsertMem, MoveMem, FlushMem,
         ForceCompaction, EndForced, readerVars, SnapshotsKept
<1>2. PinFit' /\ NumbersFit' /\ NothingRead'
  BY <1>1, StoreStepKeepsSnapshots DEF DbNext
<1>3. CASE FlushMem(w) /\ flushing # {}
  <2>1. \A r \in Reader : raced'[r] = (raced[r] \/ stage[r] # "idle")
    BY <1>3 DEF FlushMem
  <2>2. FloorHeld'
    BY <1>1, <2>1 DEF FloorHeld, Snapped, SnapshotsKept
  <2>3. FreshUnlessRaced'
    BY <1>1, <2>1 DEF FreshUnlessRaced, Fresh, SnapshotsKept
  <2> QED BY <1>2, <2>2, <2>3
<1>4. CASE ~(FlushMem(w) /\ flushing # {})
  <2>1. raced' = raced
    BY <1>4 DEF WriterStep, HolderStep, Insert, AcquireMem, InsertMem, MoveMem, FlushMem,
                ForceCompaction, EndForced, readerVars
  <2>2. mem \cup flushing \subseteq mem' \cup flushing'
    <3>1. CASE MoveMem(w)
      <4>1. flushing = {}
        BY <3>1, OneWriterAssumption DEF MoveMem, StoreInv, DbInv, OneHolder
      <4> QED BY <3>1, <4>1 DEF MoveMem
    <3>2. CASE ~MoveMem(w)
      BY <1>4, <3>2 DEF WriterStep, HolderStep, Insert, AcquireMem, InsertMem, FlushMem,
                        ForceCompaction, EndForced, storeVars
    <3> QED BY <3>1, <3>2
  <2>3. FloorHeld'
    BY <1>1, <2>1, <2>2 DEF FloorHeld, FloorOf, Snapped, SnapshotsKept
  <2>4. FreshUnlessRaced'
    BY <1>1, <2>1 DEF FreshUnlessRaced, Fresh, SnapshotsKept
  <2> QED BY <1>2, <2>3, <2>4
<1> QED BY <1>3, <1>4

LEMMA CompactionKeepsFresh ==
    ASSUME StoreInv, StoreInv', FreshInv, [DbNext]_dbVars, UNCHANGED readerVars,
           ~\E w \in Writer : WriterStep(w)
    PROVE  FreshInv'
<1>1. SnapshotsKept /\ raced' = raced /\ UNCHANGED <<mem, flushing>>
  BY OthersKeepMem DEF readerVars, SnapshotsKept, storeVars
<1>2. PinFit' /\ NumbersFit' /\ NothingRead'
  BY <1>1, StoreStepKeepsSnapshots
<1> QED BY <1>1, <1>2 DEF FreshInv, FloorHeld, FloorOf, Snapped, FreshUnlessRaced, Fresh,
                          SnapshotsKept

\* A search of the memtable that finds nothing was of one that has nothing.
LEMMA FoundInMem ==
    ASSUME NEW E \in SUBSET Entry, NEW k \in Key, NEW s \in Nat, NEW d \in OfKey(E, k, s)
    PROVE  \E e \in NewestOf(E, k, s) : d.seq <= e.seq
<1> DEFINE A == OfKey(E, k, s)
<1>1. A \in SUBSET Entry /\ A # {} /\ \A e \in A : e.seq <= s
  BY DEF OfKey
<1>2. PICK e \in A : \A c \in A : c.seq <= e.seq
  <2> HIDE DEF A
  <2> QED BY <1>1, LastOf
<1> QED BY <1>2 DEF NewestOf

\* While a get may read, no memtable is out.
LEMMA NoneOut == ASSUME StoreInv, MayRead PROVE flushing = {}
BY DEF StoreInv, DbInv, OneHolder, MayRead, MemMutexFree

\* What a get finds is as new as what was inserted before its snapshot.
LEMMA FoundIsFresh ==
    ASSUME StoreInv, FreshInv, NEW r \in Reader, stage[r] \in {"asked", "tables"}, ~raced[r],
           NEW E \in SUBSET Entry,
           \/ GetFromMem(r) /\ E = NewestOf(mem, query[r].key, query[r].seq) /\ E # {}
           \/ /\ GetFromTables(r)
              /\ E = FindFromSsts(SearchedVersion(r), query[r].key, query[r].seq)
    PROVE  floor[r][query[r].key] <= LargestSeq(E, query[r].key)
<1> USE DEF StoreInv, DbInv, DbTypeOK, FreshInv
<1> DEFINE k == query[r].key
           s == query[r].seq
           n == floor[r][k]
           e == [key |-> k, seq |-> n]
<1>1. /\ k \in Key /\ s \in Nat /\ n \in Nat /\ view[r] \in Nat
      /\ n <= view[r] /\ view[r] <= s /\ e \in Entry
  <2>1. query[r] \in Entry
    OBVIOUS
  <2>2. k \in Key /\ s \in Nat /\ view[r] \in Nat
    BY <2>1 DEF Entry
  <2>3. n \in Nat
    BY <2>2
  <2>4. n <= view[r] /\ view[r] <= s
    BY <2>2 DEF NumbersFit, HasNumber
  <2>5. e \in Entry
    BY <2>2, <2>3 DEF Entry
  <2> QED BY <2>2, <2>3, <2>4, <2>5
<1>2. \A d \in E : d \in Entry /\ d.key = k /\ d.seq <= s
  BY SearchFindsOnly DEF NewestOf, OfKey
<1>3. /\ LargestSeq(E, k) \in Nat
      /\ \A d \in E : d.seq <= LargestSeq(E, k)
  BY <1>1, <1>2, LargestSeqIs
<1>4. SUFFICES ASSUME n # 0 PROVE \E d \in E : n <= d.seq
  <2>1. n = 0 => n <= LargestSeq(E, k)
    BY <1>3
  <2>2. ASSUME NEW d \in E, n <= d.seq PROVE n <= LargestSeq(E, k)
    <3>1. d.seq \in Nat /\ d.seq <= LargestSeq(E, k)
      BY <1>2, <1>3 DEF Entry
    <3> QED BY <1>1, <1>3, <2>2, <3>1
  <2> QED BY <2>1, <2>2
<1>5. CASE GetFromMem(r) /\ E = NewestOf(mem, k, s) /\ E # {}
  <2>1. flushing = {}
    BY <1>5, NoneOut DEF GetFromMem
  <2>2. e \in mem \cup EntriesOf(pin[r])
    BY <1>1, <1>4, <2>1 DEF FloorHeld, FloorOf, Snapped
  <2>3. CASE e \in mem
    <3>1. e \in OfKey(mem, k, s)
      BY <1>1, <2>3 DEF OfKey
    <3>2. \E d \in NewestOf(mem, k, s) : e.seq <= d.seq
      BY <1>1, <3>1, FoundInMem
    <3> QED BY <1>5, <3>2
  <2>4. CASE e \in EntriesOf(pin[r])
    <3>1. PICK d \in E : d \in mem /\ d.key = k
      BY <1>5 DEF NewestOf, OfKey
    <3>2. newest[k] < d.seq /\ n <= newest[k] /\ newest[k] \in Nat /\ d.seq \in Nat
      BY <1>1, <2>4, <3>1 DEF MemIsNewer, PinFit, LevelsTypeOK, Entry
    <3> QED BY <1>1, <3>1, <3>2
  <2> QED BY <2>2, <2>3, <2>4
<1>6. CASE GetFromTables(r) /\ E = FindFromSsts(SearchedVersion(r), k, s)
  <2>1. stage[r] = "tables"
    BY <1>6 DEF GetFromTables
  <2>2. e \in EntriesOf(pin[r])
    BY <1>4, <2>1 DEF FloorHeld, FloorOf, Snapped
  <2>3. view[r] # 0
    BY <1>1, <1>4
  <2>4. E = FindFromSsts(pin[r], k, s)
    BY <1>6, <2>3 DEF SearchedVersion
  <2>5. e \in OfKey(EntriesOf(pin[r]), k, s)
    BY <1>1, <2>2 DEF OfKey
  <2>6. pin[r] \in SUBSET Table /\ OrderedIn(pin[r])
    BY DEF PinFit
  <2>7. \E d \in FindFromSsts(pin[r], k, s) : e.seq <= d.seq
    <3> HIDE DEF k, s, e
    <3> QED BY <1>1, <2>5, <2>6, SearchFinds
  <2> QED BY <2>4, <2>7
<1> QED BY <1>5, <1>6

\* The invariant, for one reader at a time.
OneFits(r) ==
    /\ OrderedIn(pin[r])
    /\ \A e \in EntriesOf(pin[r]) : e.seq <= newest[e.key]
    /\ Snapped(r) => \A k \in Key : floor[r][k] <= acked[k]
    /\ HasNumber(r) => \A k \in Key : floor[r][k] <= view[r]
    /\ stage[r] \in {"asked", "tables"} => view[r] <= query[r].seq
    /\ Snapped(r) /\ ~raced[r] =>
          /\ \A k \in Key : floor[r][k] # 0 =>
                 FloorOf(r, k) \in mem \cup flushing \cup EntriesOf(pin[r])
          /\ LET k == query[r].key
             IN  stage[r] = "tables" /\ floor[r][k] # 0 => FloorOf(r, k) \in EntriesOf(pin[r])
    /\ ~HasNumber(r) => read[r] = {}
    /\ raced[r] \/ Fresh(r)

LEMMA FreshInvIs == FreshInv <=> \A r \in Reader : OneFits(r)
BY DEF FreshInv, PinFit, NumbersFit, FloorHeld, NothingRead, FreshUnlessRaced, OneFits

LEMMA ReaderKeepsFresh ==
    ASSUME StoreInv, FreshInv, NEW r \in Reader, ReaderStep(r)
    PROVE  FreshInv'
<1> USE DEF StoreInv, DbInv, DbTypeOK
<1>1. UNCHANGED <<nextSeq, mem, flushing, acked, tables, newest>>
  BY DEF ReaderStep, Pin, TakeSeq, Get, GetFromMem, GetFromTables, Drop,
         levelsVars, tree, storeVars, writerVars
<1>2. OneFits(r) /\ \A q \in Reader : OneFits(q)
  BY FreshInvIs
<1>3. \A q \in Reader : q # r => OneFits(q)'
  <2>1. SUFFICES ASSUME NEW q \in Reader, q # r PROVE OneFits(q)'
    OBVIOUS
  <2>2. /\ stage'[q] = stage[q] /\ pin'[q] = pin[q] /\ view'[q] = view[q]
        /\ query'[q] = query[q] /\ read'[q] = read[q] /\ got'[q] = got[q]
        /\ floor'[q] = floor[q] /\ raced'[q] = raced[q]
    BY <2>1 DEF ReaderStep, Pin, TakeSeq, Get, GetFromMem, GetFromTables, Drop, Found
  <2> QED BY <1>1, <1>2, <2>2 DEF OneFits, OrderedIn, Above, Newer, EntriesOf, Snapped, HasNumber,
                                  FloorOf, Fresh
<1>4. SUFFICES OneFits(r)'
  <2>1. \A q \in Reader : OneFits(q)'
    BY <1>3, <1>4
  <2> QED BY <2>1 DEF FreshInv, PinFit, NumbersFit, FloorHeld, NothingRead, FreshUnlessRaced,
                      OneFits
<1> USE DEF OneFits, Snapped, HasNumber, Stages
<1>5. CASE Pin(r)
  <2>1. /\ pin'[r] = tables /\ floor'[r] = acked /\ read'[r] = read[r] /\ stage'[r] = "pinned"
        /\ stage[r] = "idle"
    BY <1>5 DEF Pin
  <2>2. OrderedIn(pin[r])' /\ \A e \in EntriesOf(pin'[r]) : e.seq <= newest[e.key]
    BY <2>1 DEF IInv, Ordered, OrderedIn, Above, Newer, Flushed, EntriesOf
  <2>3. \A k \in Key : floor'[r][k] <= acked[k]
    BY <2>1
  <2>4. \A k \in Key : floor'[r][k] # 0 =>
            FloorOf(r, k)' \in mem \cup flushing \cup EntriesOf(pin'[r])
    BY <2>1 DEF AckedKept, FloorOf
  <2>5. Fresh(r)'
    BY <1>2, <2>1 DEF Fresh
  <2> QED BY <1>1, <2>1, <2>2, <2>3, <2>4, <2>5, <1>2 DEF EntriesOf
<1>6. CASE TakeSeq(r)
  <2>1. /\ view'[r] = nextSeq - 1 /\ stage[r] = "pinned" /\ stage'[r] = "held"
        /\ pin' = pin /\ read' = read /\ got' = got /\ floor' = floor /\ raced' = raced
    BY <1>6 DEF TakeSeq
  <2>2. \A k \in Key : floor[r][k] <= nextSeq - 1
    <3>1. SUFFICES ASSUME NEW k \in Key PROVE floor[r][k] <= nextSeq - 1
      OBVIOUS
    <3>2. floor[r][k] \in Nat /\ acked[k] \in Nat /\ nextSeq \in Nat
      OBVIOUS
    <3>3. floor[r][k] <= acked[k] /\ acked[k] < nextSeq
      BY <1>2, <2>1 DEF Used
    <3> QED BY <3>2, <3>3
  <2> QED BY <1>1, <1>2, <2>1, <2>2 DEF OrderedIn, Above, Newer, EntriesOf, FloorOf, Fresh
<1>7. ASSUME NEW k \in Key, Get(r, k) PROVE OneFits(r)'
  <2>1. /\ stage[r] = "held" /\ stage'[r] = "asked"
        /\ query'[r] = [key |-> k, seq |-> IF view[r] = 0 THEN nextSeq - 1 ELSE view[r]]
        /\ pin' = pin /\ view' = view /\ read' = read /\ got' = got /\ floor' = floor
        /\ raced' = raced
    BY <1>7 DEF Get
  <2>2. view[r] <= query'[r].seq
    <3>1. view[r] \in Nat /\ nextSeq \in Nat \ {0}
      OBVIOUS
    <3> QED BY <2>1, <3>1
  <2> QED BY <1>1, <1>2, <2>1, <2>2 DEF OrderedIn, Above, Newer, EntriesOf, FloorOf, Fresh
<1>8. ASSUME NEW E \in SUBSET Entry, Found(r, E), stage[r] \in {"asked", "tables"},
             ~raced[r] => floor[r][query[r].key] <= LargestSeq(E, query[r].key),
             UNCHANGED <<pin, view, query, floor, raced>>
      PROVE  OneFits(r)'
  <2>1. /\ read'[r] = read[r] \cup {query[r].key}
        /\ stage'[r] = "held"
        /\ \A k \in Key : got'[r][k] = IF k = query[r].key THEN LargestSeq(E, k) ELSE got[r][k]
    BY <1>8 DEF Found
  <2>2. raced[r] \/ Fresh(r)'
    <3>1. SUFFICES ASSUME ~raced[r], NEW k \in read'[r] PROVE floor[r][k] <= got'[r][k]
      BY <1>8 DEF Fresh
    <3>2. k \in Key
      BY <2>1, <3>1 DEF Entry
    <3>3. CASE k = query[r].key
      BY <1>8, <2>1, <3>1, <3>2, <3>3
    <3>4. CASE k # query[r].key
      BY <1>2, <2>1, <3>1, <3>2, <3>4 DEF Fresh
    <3> QED BY <3>3, <3>4
  <2> QED BY <1>1, <1>2, <1>8, <2>1, <2>2 DEF OrderedIn, Above, Newer, EntriesOf, FloorOf
<1>9. CASE GetFromMem(r)
  <2> DEFINE E == NewestOf(mem, query[r].key, query[r].seq)
  <2>1. /\ E \in SUBSET Entry /\ stage[r] = "asked" /\ MayRead
        /\ UNCHANGED <<pin, view, query, floor, raced>>
    BY <1>9 DEF GetFromMem, NewestOf, OfKey
  <2>2. CASE E # {} /\ Found(r, E)
    <3>1. ~raced[r] => floor[r][query[r].key] <= LargestSeq(E, query[r].key)
      BY <1>9, <2>1, <2>2, FoundIsFresh
    <3> HIDE DEF E
    <3> QED BY <1>8, <2>1, <2>2, <3>1
  <2>3. CASE E = {} /\ stage' = [stage EXCEPT ![r] = "tables"] /\ UNCHANGED <<read, got>>
    <3>1. stage'[r] = "tables"
      BY <2>3
    <3>2. flushing = {}
      BY <2>1, NoneOut
    <3> DEFINE k == query[r].key
    <3>3. ~raced[r] /\ floor[r][k] # 0 => FloorOf(r, k) \in EntriesOf(pin[r])
      <4>1. SUFFICES ASSUME ~raced[r], floor[r][k] # 0, FloorOf(r, k) \in mem PROVE FALSE
        <5>1. k \in Key
          BY DEF Entry
        <5> QED BY <1>2, <2>1, <3>2, <4>1, <5>1
      <4>2. k \in Key /\ query[r].seq \in Nat
        BY DEF Entry
      <4>3. floor[r][k] \in Nat /\ view[r] \in Nat /\ floor[r][k] <= view[r]
            /\ view[r] <= query[r].seq
        BY <1>2, <2>1, <4>2
      <4>4. FloorOf(r, k) \in OfKey(mem, k, query[r].seq)
        BY <4>1, <4>2, <4>3 DEF OfKey, FloorOf
      <4>5. E # {}
        BY <4>2, <4>4, FoundInMem
      <4> QED BY <2>3, <4>5
    <3> QED BY <1>1, <1>2, <2>1, <2>3, <3>1, <3>3 DEF OrderedIn, Above, Newer, EntriesOf, FloorOf,
                                                     Fresh
  <2> QED BY <1>9, <2>2, <2>3 DEF GetFromMem
<1>10. CASE GetFromTables(r)
  <2> DEFINE E == FindFromSsts(SearchedVersion(r), query[r].key, query[r].seq)
  <2>1. /\ stage[r] = "tables" /\ Found(r, E) /\ UNCHANGED <<pin, view, query, floor, raced>>
    BY <1>10 DEF GetFromTables
  <2>2. E \in SUBSET Entry
    <3>1. SearchedVersion(r) \in SUBSET Table
      BY DEF SearchedVersion, LevelsTypeOK
    <3> QED BY <3>1, SearchFindsOnly DEF OfKey, EntriesOf, Table
  <2>3. ~raced[r] => floor[r][query[r].key] <= LargestSeq(E, query[r].key)
    BY <1>10, <2>1, <2>2, FoundIsFresh
  <2> HIDE DEF E
  <2> QED BY <1>8, <2>1, <2>2, <2>3
<1>11. CASE Drop(r)
  <2>1. stage'[r] = "idle" /\ pin'[r] = {} /\ read'[r] = {}
    BY <1>11 DEF Drop
  <2> QED BY <2>1 DEF OrderedIn, EntriesOf, Fresh
<1> QED BY <1>5, <1>6, <1>7, <1>9, <1>10, <1>11 DEF ReaderStep

LEMMA FreshStep ==
    ASSUME OnlyWritersCompact, TopLevelsOnly, StoreInv, FreshInv, [DbNext]_dbVars
    PROVE  StoreInv' /\ FreshInv'
<1>1. StoreInv'
  BY StoreStep
<1>2. ASSUME ~\E w \in Writer : WriterStep(w), ~\E r \in Reader : ReaderStep(r)
      PROVE  UNCHANGED readerVars
  BY <1>2, LevelsAssumption DEF DbNext, Compact, LoopAgain, dbVars
<1> QED BY <1>1, <1>2, WriterKeepsFresh, ReaderKeepsFresh, CompactionKeepsFresh

\* With one writer, whose forced compactions are the only ones, a get finds
\* what was inserted before its snapshot, or something newer, as long as no
\* memtable was flushed since: for any sizes, readers and gets.
THEOREM GetsAreFresh ==
    ASSUME OnlyWritersCompact, TopLevelsOnly
    PROVE  DbSpec => []FreshUnlessRaced
<1>1. FreshInv => FreshUnlessRaced
  BY DEF FreshInv
<1>2. StoreInv /\ FreshInv /\ [DbNext]_dbVars => (StoreInv /\ FreshInv)'
  BY FreshStep
<1> QED BY <1>1, <1>2, StoreInit, PTL DEF DbSpec

-----------------------------------------------------------------------------
(***************************************************************************)
(* The history of the store.  What was stored is in memory or durable, and *)
(* of what is durable the tables have the newest entry of each key.        *)
(***************************************************************************)
StoreHist ==
    /\ stored \in SUBSET Entry /\ durable \in SUBSET Entry
    /\ stored = durable \cup flushing \cup mem
    /\ \A e \in durable : 0 < e.seq /\ e.seq <= newest[e.key]
    /\ EntriesOf(tables) \subseteq durable
    /\ \A w \in Writer : step[w] # "idle" => batch[w] # {}

\* A version has the newest entries of what was durable when it was pinned.
ReaderHist(r) ==
    /\ asOf[r] \subseteq durable
    /\ EntriesOf(pin[r]) \subseteq asOf[r]
    /\ \A e \in asOf[r] : \E d \in EntriesOf(pin[r]) : d.key = e.key /\ e.seq <= d.seq
    /\ HasNumber(r) => \A e \in asOf[r] : e.seq <= view[r]
    /\ stage[r] = "idle" => asOf[r] = {}
    /\ stage[r] # "tables" => sees[r] = {}
    /\ stage[r] = "tables" /\ asOf[r] = durable =>
          OfKey(sees[r], query[r].key, query[r].seq) = OfKey(asOf[r], query[r].key, query[r].seq)

HistInv ==
    /\ asOf \in [Reader -> SUBSET Entry]
    /\ sees \in [Reader -> SUBSET Entry]
    /\ StoreHist
    /\ \A r \in Reader : ReaderHist(r)

LEMMA HistInit == ValuesInit => HistInv
BY DEF ValuesInit, DbInit, LevelsInit, HistInv, StoreHist, ReaderHist, EntriesOf, HasNumber

\* A compaction moves entries, and makes none.
LEMMA CompactionMovesEntries ==
    ASSUME StoreInv, NEW c \in Task, CompactionStep(c) \/ Call(c)
    PROVE  EntriesOf(tables') \subseteq EntriesOf(tables)
<1>1. CASE Publish(c)
  <2>1. chosen[c] \subseteq tables
    BY <1>1 DEF StoreInv, IInv, ChosenFit, OldestOf, AtLevel, Publish
  <2>2. Merged(c).entries \subseteq EntriesOf(tables)
    BY <2>1 DEF Merged, MergeTables, EntriesOf
  <2>3. tables' = (tables \ chosen[c]) \cup {Merged(c)}
    BY <1>1 DEF Publish, TablesAfter
  <2> HIDE DEF Merged
  <2> QED BY <2>2, <2>3 DEF EntriesOf
<1>2. CASE ~Publish(c)
  BY <1>2 DEF CompactionStep, Call, Skip, EndLoop, Need, Refused, Choose, Merge, tree
<1> QED BY <1>1, <1>2

LEMMA StoreHistStep ==
    ASSUME StoreInv, StoreInv', HistInv, ValuesNext
    PROVE  StoreHist'
<1> USE DEF HistInv, StoreHist
<1>1. /\ stored' = stored \cup (mem' \ mem)
      /\ durable' = durable \cup (flushing \ flushing')
      /\ [DbNext]_dbVars
  BY DEF ValuesNext, RecordHistory
<1>2. \A e \in durable : e.key \in Key /\ e.seq \in Nat /\ 0 < e.seq /\ e.seq <= newest'[e.key]
  <2>1. SUFFICES ASSUME NEW e \in durable
                 PROVE  e.key \in Key /\ e.seq \in Nat /\ 0 < e.seq /\ e.seq <= newest'[e.key]
    OBVIOUS
  <2>2. e.key \in Key /\ e.seq \in Nat /\ 0 < e.seq /\ e.seq <= newest[e.key]
    BY DEF Entry
  <2>3. newest[e.key] \in Nat /\ newest'[e.key] \in Nat /\ newest[e.key] <= newest'[e.key]
    BY <1>1, <2>2, NumbersRise DEF StoreInv, DbInv, DbTypeOK, LevelsTypeOK
  <2> QED BY <2>2, <2>3
<1>3. mem \subseteq Entry /\ flushing \subseteq Entry /\ mem' \subseteq Entry
  BY DEF StoreInv, DbInv, DbTypeOK
<1>4. ASSUME NEW w \in Writer, FlushMem(w) PROVE StoreHist'
  <2>1. /\ flushing' = {} /\ UNCHANGED <<mem, batch>> /\ step[w] = "flushing"
        /\ \A v \in Writer : step'[v] # "idle" => step[v] # "idle"
    BY <1>4 DEF FlushMem
  <2>2. CASE flushing = {}
    BY <1>1, <1>4, <2>1, <2>2 DEF FlushMem, levelsVars, tree
  <2>3. CASE flushing # {}
    <3>1. AddTable(flushing) /\ \A e \in flushing : newest[e.key] < e.seq /\ e.seq <= newest'[e.key]
      BY <1>4, <2>3, FlushMemAddsTable DEF Flushes
    <3>2. \A e \in flushing : 0 < e.seq /\ e.seq <= newest'[e.key]
      <4>1. SUFFICES ASSUME NEW e \in flushing PROVE 0 < e.seq
        BY <3>1
      <4>2. e.key \in Key /\ e.seq \in Nat
        BY <1>3 DEF Entry
      <4>3. newest[e.key] \in Nat
        BY <4>2, NewestIsAcked
      <4> QED BY <3>1, <4>2, <4>3
    <3> DEFINE n == [time |-> written + 1, level |-> Top, entries |-> flushing]
    <3>3. n.entries = flushing /\ tables' = tables \cup {n}
      BY <3>1 DEF AddTable
    <3> HIDE DEF n
    <3>4. EntriesOf(tables') \subseteq EntriesOf(tables) \cup flushing
      BY <3>3 DEF EntriesOf
    <3> QED BY <1>1, <1>2, <1>3, <2>1, <3>2, <3>4
  <2> QED BY <2>2, <2>3
<1>5. ASSUME NEW w \in Writer, WriterStep(w), ~FlushMem(w) PROVE StoreHist'
  <2>1. EntriesOf(tables') = EntriesOf(tables)
    BY <1>5 DEF WriterStep, HolderStep, Insert, AcquireMem, InsertMem, MoveMem, ForceCompaction,
                EndForced, Call, levelsVars, tree
  <2>2. stored' = durable' \cup flushing' \cup mem' /\ durable' = durable
    <3>1. CASE MoveMem(w)
      <4>1. flushing = {}
        BY <3>1, OneWriterAssumption DEF MoveMem, StoreInv, DbInv, OneHolder
      <4> QED BY <1>1, <3>1, <4>1 DEF MoveMem
    <3>2. CASE ~MoveMem(w)
      <4>1. flushing' = flushing /\ mem \subseteq mem'
        BY <1>5, <3>2 DEF WriterStep, HolderStep, Insert, AcquireMem, InsertMem, ForceCompaction,
                          EndForced, storeVars
      <4> QED BY <1>1, <4>1
    <3> QED BY <3>1, <3>2
  <2>3. \A v \in Writer : step'[v] # "idle" => batch'[v] # {}
    <3>1. CASE Insert(w)
      <4>1. PICK keys \in Writes : batch' = [batch EXCEPT ![w] = Numbered(keys, nextSeq)]
        BY <3>1 DEF Insert
      <4>2. keys \in Seq(Key) /\ keys # <<>>
        BY DbLocalAssumption
      <4>3. 1 \in DOMAIN keys
        BY <4>2
      <4>4. Numbered(keys, nextSeq) # {}
        BY <4>3 DEF Numbered
      <4>5. \A v \in Writer : v = w
        BY OneWriterAssumption
      <4> QED BY <4>1, <4>4, <4>5 DEF StoreInv, DbInv, DbTypeOK
    <3>2. CASE ~Insert(w)
      <4>1. step[w] # "idle" /\ batch' = batch
        BY <1>5, <3>2 DEF WriterStep, HolderStep, AcquireMem, InsertMem, MoveMem, ForceCompaction,
                          EndForced
      <4> QED BY <4>1, OneWriterAssumption
    <3> QED BY <3>1, <3>2
  <2>4. stored' \subseteq Entry
    BY <1>1, <1>3
  <2> QED BY <1>2, <2>1, <2>2, <2>3, <2>4
<1>6. ASSUME ~\E w \in Writer : WriterStep(w) PROVE StoreHist'
  <2>1. UNCHANGED <<mem, flushing, newest, step, batch>>
    BY <1>1, <1>6, OthersKeepMem DEF storeVars, writerVars
  <2>2. EntriesOf(tables') \subseteq EntriesOf(tables)
    <3>1. ASSUME NEW r \in Reader, ReaderStep(r) PROVE tables' = tables
      BY <3>1 DEF ReaderStep, Pin, TakeSeq, Get, GetFromMem, GetFromTables, Drop, levelsVars, tree
    <3>2. ASSUME NEW c \in Task, Compact(c) \/ LoopAgain(c)
          PROVE  EntriesOf(tables') \subseteq EntriesOf(tables)
      BY <3>2, CompactionMovesEntries DEF Compact, LoopAgain
    <3> QED BY <1>6, <3>1, <3>2, LevelsAssumption DEF ValuesNext, DbNext
  <2> QED BY <1>1, <2>1, <2>2
<1> QED BY <1>4, <1>5, <1>6

\* The history of a reader changes only by its own steps, or by a flush.
LEMMA ReaderHistKept ==
    ASSUME StoreInv, StoreInv', HistInv, StoreHist', ValuesNext, NEW r \in Reader,
           stage'[r] = stage[r], pin'[r] = pin[r], view'[r] = view[r], query'[r] = query[r]
    PROVE  ReaderHist(r)' /\ asOf'[r] = asOf[r] /\ sees'[r] = sees[r]
<1> USE DEF HistInv, ReaderHist
<1>1. asOf'[r] = asOf[r] /\ sees'[r] = sees[r] /\ durable \subseteq durable'
  BY DEF ValuesNext, RecordHistory, KeptOf
<1>2. asOf[r] = durable' => asOf[r] = durable
  BY <1>1
<1> QED BY <1>1, <1>2 DEF EntriesOf, HasNumber, OfKey

LEMMA ReaderHistStep ==
    ASSUME StoreInv, StoreInv', FreshInv, HistInv, StoreHist', ValuesNext,
           NEW r \in Reader, ReaderStep(r)
    PROVE  ReaderHist(r)'
<1> USE DEF HistInv, ReaderHist, HasNumber
<1>1. /\ asOf'[r] = KeptOf(r, asOf[r], durable, "idle", "idle")
      /\ sees'[r] = KeptOf(r, sees[r], stored, "asked", "held")
      /\ UNCHANGED <<nextSeq, mem, flushing, tables, newest, acked>>
  BY DEF ValuesNext, RecordHistory, ReaderStep, Pin, TakeSeq, Get, GetFromMem, GetFromTables,
         Drop, levelsVars, tree, storeVars, writerVars
<1>2. durable' = durable /\ durable \in SUBSET Entry /\ EntriesOf(tables) \subseteq durable
  BY <1>1 DEF ValuesNext, RecordHistory, StoreHist
<1>3. stage \in [Reader -> Stages]
  BY DEF StoreInv, DbInv, DbTypeOK
<1> USE DEF Stages
<1>4. CASE Pin(r)
  <2>1. stage[r] = "idle" /\ stage'[r] = "pinned" /\ pin'[r] = tables
    BY <1>3, <1>4 DEF Pin, StoreInv, DbInv, DbTypeOK
  <2>2. asOf'[r] = durable /\ sees'[r] = {}
    BY <1>1, <2>1 DEF KeptOf
  <2>3. ASSUME NEW e \in durable
        PROVE  \E d \in EntriesOf(tables) : d.key = e.key /\ e.seq <= d.seq
    <3>1. e.key \in Key /\ e.seq \in Nat /\ 0 < e.seq /\ e.seq <= newest[e.key]
      BY <1>2 DEF StoreHist, Entry
    <3>2. newest[e.key] # 0
      BY <3>1, NewestIsAcked
    <3>3. [key |-> e.key, seq |-> newest[e.key]] \in EntriesOf(tables)
      BY <3>1, <3>2 DEF StoreInv, IInv, NothingLost
    <3> QED BY <3>1, <3>3
  <2> QED BY <1>2, <2>1, <2>2, <2>3 DEF EntriesOf
<1>5. CASE TakeSeq(r)
  <2>1. /\ stage[r] = "pinned" /\ stage'[r] = "held" /\ pin'[r] = pin[r]
        /\ view'[r] = nextSeq - 1
    BY <1>3, <1>5 DEF TakeSeq, StoreInv, DbInv, DbTypeOK
  <2>2. asOf'[r] = asOf[r] /\ sees'[r] = {}
    BY <1>1, <2>1 DEF KeptOf
  <2>3. \A e \in asOf[r] : e.seq <= nextSeq - 1
    <3>1. SUFFICES ASSUME NEW e \in asOf[r] PROVE e.seq <= nextSeq - 1
      OBVIOUS
    <3>2. e \in durable /\ e.key \in Key /\ e.seq \in Nat /\ e.seq <= newest[e.key]
      BY <1>2 DEF StoreHist, Entry
    <3>3. acked[e.key] \in Nat /\ acked[e.key] < nextSeq /\ nextSeq \in Nat
      BY <3>2 DEF StoreInv, DbInv, DbTypeOK, Used
    <3>4. newest[e.key] \in Nat /\ newest[e.key] <= acked[e.key]
      BY <3>2, NewestIsAcked
    <3> QED BY <3>2, <3>3, <3>4
  <2> QED BY <1>2, <2>1, <2>2, <2>3 DEF EntriesOf
<1>6. ASSUME NEW k \in Key, Get(r, k) PROVE ReaderHist(r)'
  <2>1. /\ stage[r] = "held" /\ stage'[r] = "asked" /\ pin' = pin /\ view' = view
    BY <1>3, <1>6 DEF Get
  <2>2. asOf'[r] = asOf[r] /\ sees'[r] = {}
    BY <1>1, <2>1 DEF KeptOf
  <2> QED BY <1>2, <2>1, <2>2 DEF EntriesOf
<1>7. ASSUME NEW E, Found(r, E), stage[r] \in {"asked", "tables"}, UNCHANGED <<pin, view>>
      PROVE  ReaderHist(r)'
  <2>1. stage'[r] = "held"
    BY <1>3, <1>7 DEF Found
  <2>2. asOf'[r] = asOf[r] /\ sees'[r] = {}
    BY <1>1, <1>7, <2>1 DEF KeptOf
  <2> QED BY <1>2, <1>7, <2>1, <2>2 DEF EntriesOf
<1>8. CASE GetFromMem(r)
  <2> DEFINE k == query[r].key
             s == query[r].seq
             E == NewestOf(mem, k, s)
  <2>1. stage[r] = "asked" /\ MayRead /\ UNCHANGED <<pin, view, query>>
    BY <1>8 DEF GetFromMem
  <2>2. CASE Found(r, E)
    BY <1>7, <2>1, <2>2
  <2>3. CASE E = {} /\ stage' = [stage EXCEPT ![r] = "tables"]
    <3>1. stage'[r] = "tables" /\ asOf'[r] = asOf[r] /\ sees'[r] = stored
      BY <1>1, <1>3, <2>1, <2>3 DEF KeptOf
    <3>2. stored = durable \cup mem
      BY <2>1, NoneOut DEF StoreHist
    <3>3. OfKey(mem, k, s) = {}
      <4>1. mem \in SUBSET Entry /\ query[r] \in Entry
        BY DEF StoreInv, DbInv, DbTypeOK
      <4>2. k \in Key /\ s \in Nat
        BY <4>1 DEF Entry
      <4> QED BY <2>3, <4>1, <4>2, FoundInMem
    <3>4. OfKey(stored, k, s) = OfKey(durable, k, s)
      BY <3>2, <3>3 DEF OfKey
    <3> QED BY <1>2, <2>1, <3>1, <3>4 DEF EntriesOf, OfKey
  <2> QED BY <1>8, <2>2, <2>3 DEF GetFromMem
<1>9. CASE GetFromTables(r)
  <2>1. stage[r] = "tables" /\ UNCHANGED <<pin, view>>
    BY <1>9 DEF GetFromTables
  <2> QED BY <1>7, <1>9, <2>1 DEF GetFromTables
<1>10. CASE Drop(r)
  <2>1. /\ stage[r] = "held" /\ stage'[r] = "idle" /\ pin'[r] = {}
    BY <1>3, <1>10 DEF Drop, StoreInv, DbInv, DbTypeOK
  <2>2. asOf'[r] = {} /\ sees'[r] = {}
    BY <1>1, <2>1 DEF KeptOf
  <2> QED BY <2>1, <2>2 DEF EntriesOf
<1> QED BY <1>4, <1>5, <1>6, <1>8, <1>9, <1>10 DEF ReaderStep

ReaderFrame(r) ==
    /\ stage'[r] = stage[r] /\ pin'[r] = pin[r] /\ view'[r] = view[r]
    /\ query'[r] = query[r] /\ got'[r] = got[r]

LEMMA OtherReadersKept ==
    ASSUME StoreInv, NEW q \in Reader, ReaderStep(q), NEW r \in Reader, r # q
    PROVE  ReaderFrame(r)
<1> USE DEF StoreInv, DbInv, DbTypeOK, ReaderFrame
<1>1. CASE Pin(q) \/ TakeSeq(q)
  BY <1>1 DEF Pin, TakeSeq
<1>2. ASSUME NEW k \in Key, Get(q, k) PROVE ReaderFrame(r)
  BY <1>2 DEF Get
<1>3. CASE GetFromMem(q)
  BY <1>3 DEF GetFromMem, Found
<1>4. CASE GetFromTables(q)
  BY <1>4 DEF GetFromTables, Found
<1>5. CASE Drop(q)
  BY <1>5 DEF Drop
<1> QED BY <1>1, <1>2, <1>3, <1>4, <1>5 DEF ReaderStep

LEMMA ReadersApart ==
    ASSUME StoreInv, DbNext, NEW r \in Reader, ~ReaderStep(r) PROVE ReaderFrame(r)
<1> USE DEF ReaderFrame
<1>1. ASSUME NEW q \in Reader, ReaderStep(q) PROVE ReaderFrame(r)
  BY <1>1, OtherReadersKept
<1>2. ASSUME NEW w \in Writer, WriterStep(w) PROVE ReaderFrame(r)
  BY <1>2 DEF WriterStep, HolderStep, Insert, AcquireMem, InsertMem, MoveMem, FlushMem,
              ForceCompaction, EndForced, readerVars
<1>3. ASSUME NEW c \in Task, Compact(c) \/ LoopAgain(c) PROVE ReaderFrame(r)
  BY <1>3 DEF Compact, LoopAgain, readerVars
<1> QED BY <1>1, <1>2, <1>3, LevelsAssumption DEF DbNext

\* All that the refinement rests on.
ValuesInv == StoreInv /\ FreshInv /\ HistInv

LEMMA ValuesInvInit == ValuesInit => ValuesInv
BY StoreInit, HistInit DEF ValuesInit, ValuesInv

LEMMA ValuesStep ==
    ASSUME OnlyWritersCompact, TopLevelsOnly, ValuesInv, [ValuesNext]_valuesVars
    PROVE  ValuesInv'
<1>1. StoreInv' /\ FreshInv'
  BY FreshStep DEF ValuesInv, ValuesNext, valuesVars
<1>2. CASE ValuesNext
  <2>1. StoreHist'
    BY <1>1, <1>2, StoreHistStep DEF ValuesInv
  <2>2. ASSUME NEW r \in Reader PROVE ReaderHist(r)'
    BY <1>1, <1>2, <2>1, ReaderHistStep, ReaderHistKept, ReadersApart
       DEF ValuesInv, ValuesNext, ReaderFrame
  <2>3. asOf' \in [Reader -> SUBSET Entry] /\ sees' \in [Reader -> SUBSET Entry]
    BY <1>2 DEF ValuesInv, HistInv, StoreHist, ValuesNext, RecordHistory, KeptOf
  <2> QED BY <1>1, <2>1, <2>2, <2>3 DEF ValuesInv, HistInv
<1>3. CASE UNCHANGED valuesVars
  <2>1. UNCHANGED <<stored, durable, asOf, sees, flushing, mem, newest, tables, step, batch,
                    stage, view, query, pin>>
    BY <1>3 DEF valuesVars, historyVars, dbVars, levelsVars, tree, storeVars, writerVars, readerVars
  <2>2. HistInv'
    BY <2>1 DEF ValuesInv, HistInv, StoreHist, ReaderHist, EntriesOf, HasNumber, OfKey
  <2> QED BY <1>1, <2>2 DEF ValuesInv
<1> QED BY <1>2, <1>3

-----------------------------------------------------------------------------
(***************************************************************************)
(* The refinement.                                                         *)
(***************************************************************************)
LEMMA KvOperators ==
    /\ \A E, k, s : KV!OfKey(E, k, s) = OfKey(E, k, s)
    /\ \A E, k : KV!LargestSeq(E, k) = LargestSeq(E, k)
    /\ \A keys, n : KV!Numbered(keys, n) = Numbered(keys, n)
BY DEF KV!OfKey, OfKey, KV!LargestSeq, LargestSeq, KV!Max, Max, KV!Numbered, Numbered

LEMMA InitRefines ==
    ValuesInit => KV!KvInit
<1> SUFFICES ASSUME ValuesInit PROVE KV!KvInit
  OBVIOUS
<1>1. nextSeq - 1 = 0 /\ Pending = {}
  BY DEF ValuesInit, DbInit, Pending
<1>2. /\ [r \in Reader |-> PhaseOf(r)] = [r \in Reader |-> "none"]
      /\ [r \in Reader |-> Asked(r)] = [r \in Reader |-> {}]
  BY DEF ValuesInit, DbInit, PhaseOf, Asked
<1> QED BY <1>1, <1>2 DEF ValuesInit, DbInit, KV!KvInit, KV!Nothing, Zeros

\* A step of a writer.
LEMMA WriterRefines ==
    ASSUME StoreInv, HistInv, ValuesNext, NEW w \in Writer, WriterStep(w)
    PROVE  KV!Begin \/ KV!Store \/ KV!Persist \/ UNCHANGED KV!kvVars
<1> USE DEF HistInv, StoreHist
<1>1. /\ stored' = stored \cup (mem' \ mem)
      /\ durable' = durable \cup (flushing \ flushing')
  BY DEF ValuesNext, RecordHistory
<1>2. stage' = stage /\ view' = view /\ query' = query /\ got' = got
  BY DEF WriterStep, HolderStep, Insert, AcquireMem, InsertMem, MoveMem, FlushMem,
         ForceCompaction, EndForced, readerVars
<1>3. UNCHANGED KV!readerState
  <2>1. \A r \in Reader : asOf'[r] = asOf[r] /\ sees'[r] = sees[r]
    BY <1>2 DEF ValuesNext, RecordHistory, KeptOf, ReaderHist
  <2>2. asOf' = [r \in Reader |-> asOf'[r]] /\ sees' = [r \in Reader |-> sees'[r]]
    BY DEF ValuesNext, RecordHistory
  <2>3. asOf' = asOf /\ sees' = sees
    BY <2>1, <2>2
  <2>4. /\ [r \in Reader |-> PhaseOf(r)]' = [r \in Reader |-> PhaseOf(r)]
        /\ [r \in Reader |-> Asked(r)]' = [r \in Reader |-> Asked(r)]
    BY <1>2 DEF PhaseOf, Asked
  <2> QED BY <1>2, <2>3, <2>4 DEF KV!readerState
<1>4. \A v \in Writer : v = w
  BY OneWriterAssumption
<1>5. /\ Pending = IF step[w] = "idle" THEN {} ELSE batch[w]
      /\ Pending' = IF step'[w] = "idle" THEN {} ELSE batch'[w]
  BY <1>4 DEF Pending
<1>6. step \in [Writer -> Steps] /\ batch \in [Writer -> SUBSET Entry] /\ nextSeq \in Nat \ {0}
  BY DEF StoreInv, DbInv, DbTypeOK
<1>7. CASE Insert(w)
  <2>1. PICK keys \in Writes : /\ batch' = [batch EXCEPT ![w] = Numbered(keys, nextSeq)]
                               /\ nextSeq' = nextSeq + Len(keys)
    BY <1>7 DEF Insert, Reserved
  <2>2. step[w] = "idle" /\ step'[w] = "waiting" /\ UNCHANGED <<mem, flushing>>
    BY <1>6, <1>7 DEF Insert
  <2>3. Len(keys) \in Nat
    BY DbLocalAssumption
  <2>4. Pending' = KV!Numbered(keys, (nextSeq - 1) + 1)
    <3>1. (nextSeq - 1) + 1 = nextSeq
      BY <1>6
    <3> QED BY <1>5, <1>6, <2>1, <2>2, <3>1, KvOperators
  <2>5. nextSeq' - 1 = (nextSeq - 1) + Len(keys)
    BY <1>6, <2>1, <2>3
  <2> QED BY <1>1, <1>3, <1>5, <2>2, <2>4, <2>5 DEF KV!Begin
<1>8. CASE InsertMem(w)
  <2>1. /\ step[w] = "inserting" /\ step'[w] = "idle" /\ mem' = mem \cup batch[w]
        /\ UNCHANGED <<flushing, nextSeq>>
    BY <1>6, <1>8 DEF InsertMem
  <2>2. Pending = batch[w] /\ Pending # {} /\ Pending' = {}
    BY <1>5, <2>1
  <2>3. stored' = stored \cup batch[w] /\ durable' = durable
    BY <1>1, <2>1
  <2> QED BY <1>3, <2>1, <2>2, <2>3 DEF KV!Store
<1>9. CASE FlushMem(w)
  <2>1. /\ step[w] = "flushing" /\ step'[w] # "idle" /\ flushing' = {} /\ mem = {}
        /\ UNCHANGED <<mem, nextSeq, batch>>
    BY <1>6, <1>9 DEF FlushMem, StoreInv, MemIsEmpty
  <2>2. Pending' = Pending /\ stored' = stored /\ durable' = stored
    BY <1>1, <1>5, <2>1
  <2> QED BY <1>3, <2>1, <2>2 DEF KV!Persist
<1>10. CASE MoveMem(w) \/ AcquireMem(w) \/ ForceCompaction(w) \/ EndForced(w)
  <2>1. step[w] # "idle" /\ step'[w] # "idle" /\ UNCHANGED <<nextSeq, batch>>
    BY <1>6, <1>10 DEF MoveMem, AcquireMem, ForceCompaction, EndForced, storeVars
  <2>2. mem' \subseteq mem /\ flushing \subseteq flushing'
    <3>1. CASE MoveMem(w)
      <4>1. flushing = {}
        BY <1>4, <3>1 DEF MoveMem, StoreInv, DbInv, OneHolder
      <4> QED BY <3>1, <4>1 DEF MoveMem
    <3> QED BY <1>10, <3>1 DEF AcquireMem, ForceCompaction, EndForced, storeVars
  <2>3. Pending' = Pending /\ stored' = stored /\ durable' = durable
    BY <1>1, <1>5, <2>1, <2>2
  <2> QED BY <1>3, <2>1, <2>3 DEF KV!kvVars, KV!readerState
<1> QED BY <1>7, <1>8, <1>9, <1>10 DEF WriterStep, HolderStep

\* The newest entry of a pinned version is that of what was durable then.
LEMMA PinAnswers ==
    ASSUME StoreInv, FreshInv, HistInv, NEW r \in Reader, stage[r] = "tables"
    PROVE  LET k == query[r].key
               s == query[r].seq
           IN  LargestSeq(FindFromSsts(pin[r], k, s), k) = LargestSeq(OfKey(asOf[r], k, s), k)
<1> DEFINE k == query[r].key
           s == query[r].seq
           F == FindFromSsts(pin[r], k, s)
           A == OfKey(asOf[r], k, s)
           P == EntriesOf(pin[r])
<1>1. query[r] \in Entry /\ pin[r] \in SUBSET Table /\ view[r] \in Nat
  BY DEF StoreInv, DbInv, DbTypeOK
<1>2. k \in Key /\ s \in Nat /\ OrderedIn(pin[r]) /\ view[r] <= s
  BY <1>1 DEF Entry, FreshInv, PinFit, NumbersFit
<1>3. /\ P \subseteq asOf[r] /\ asOf[r] \in SUBSET Entry
      /\ \A e \in asOf[r] : e.seq <= view[r]
      /\ \A e \in asOf[r] : \E d \in P : d.key = e.key /\ e.seq <= d.seq
  BY DEF HistInv, ReaderHist, HasNumber
<1>4. F \subseteq OfKey(P, k, s)
  BY SearchFindsOnly
<1>5. \A d \in OfKey(P, k, s) : \E e \in F : d.seq <= e.seq
  <2> HIDE DEF k, s
  <2> QED BY <1>1, <1>2, SearchFinds
<1> HIDE DEF F, P
<1>6. /\ A \in SUBSET Entry /\ \A e \in A : e.key = k /\ e.seq <= s
      /\ OfKey(P, k, s) \subseteq A
  BY <1>3 DEF OfKey
<1>7. \A d \in A : \E e \in F : d.seq <= e.seq
  <2>1. SUFFICES ASSUME NEW d \in A PROVE \E e \in F : d.seq <= e.seq
    OBVIOUS
  <2>2. d \in asOf[r] /\ d.key = k /\ d.seq \in Nat
    BY <1>3 DEF OfKey, Entry
  <2>3. PICK c \in P : c.key = k /\ d.seq <= c.seq
    BY <1>3, <2>2
  <2>4. c.seq \in Nat /\ c.seq <= view[r] /\ c.seq <= s
    BY <1>1, <1>2, <1>3 DEF Entry
  <2>5. PICK e \in F : c.seq <= e.seq
    BY <1>5, <2>3, <2>4 DEF OfKey
  <2>6. e.seq \in Nat
    BY <1>4, <1>6 DEF Entry
  <2> QED BY <2>2, <2>3, <2>4, <2>5, <2>6
<1>8. F \in SUBSET Entry /\ F \subseteq A
  BY <1>4, <1>6
<1> HIDE DEF A, k, s
<1>9. \A e \in F \cup A : e.seq <= s /\ e.key = k
  BY <1>6, <1>8
<1>10. /\ \A d \in F : d.key = k => \E e \in A : e.key = k /\ d.seq <= e.seq
       /\ \A d \in A : d.key = k => \E e \in F : e.key = k /\ d.seq <= e.seq
  <2>1. \A d \in F : d \in A /\ d.seq <= d.seq
    BY <1>8 DEF Entry
  <2> QED BY <1>7, <1>9, <2>1
<1>11. LargestSeq(F, k) = LargestSeq(A, k)
  BY <1>2, <1>6, <1>8, <1>9, <1>10, SameLargest
<1> QED BY <1>11 DEF A, F, k, s

\* What the memtable holds is the newest entry of all that is stored.
LEMMA MemAnswers ==
    ASSUME StoreInv, HistInv, MayRead, NEW k \in Key, NEW s \in Nat, NewestOf(mem, k, s) # {}
    PROVE  LargestSeq(NewestOf(mem, k, s), k) = LargestSeq(OfKey(stored, k, s), k)
<1> DEFINE F == NewestOf(mem, k, s)
           A == OfKey(stored, k, s)
<1>1. stored = durable \cup mem /\ stored \in SUBSET Entry
  BY NoneOut DEF HistInv, StoreHist
<1>2. /\ F \subseteq A /\ A \in SUBSET Entry
      /\ \A e \in A : e.key = k /\ e.seq <= s /\ e.seq \in Nat
  BY <1>1 DEF NewestOf, OfKey, Entry
<1>3. PICK f \in F : f \in mem /\ f.key = k
  BY DEF NewestOf, OfKey
<1>4. \A d \in A : \E e \in F : d.seq <= e.seq
  <2>1. SUFFICES ASSUME NEW d \in A PROVE \E e \in F : d.seq <= e.seq
    OBVIOUS
  <2>2. CASE d \in mem
    <3>1. d \in OfKey(mem, k, s) /\ mem \in SUBSET Entry
      BY <2>2 DEF OfKey, StoreInv, DbInv, DbTypeOK
    <3> QED BY <3>1, FoundInMem
  <2>3. CASE d \in durable
    <3>1. d.key = k /\ d.seq <= newest[k] /\ newest[k] < f.seq
      BY <1>2, <1>3, <2>3 DEF HistInv, StoreHist, StoreInv, MemIsNewer
    <3>2. d.seq \in Nat /\ f.seq \in Nat /\ newest[k] \in Nat
      BY <1>2, NewestIsAcked
    <3> QED BY <3>1, <3>2
  <2> QED BY <1>1, <2>2, <2>3 DEF OfKey
<1> HIDE DEF F, A
<1>5. F \in SUBSET Entry /\ \A e \in F \cup A : e.seq <= s
  BY <1>2
<1>6. /\ \A d \in F : d.key = k => \E e \in A : e.key = k /\ d.seq <= e.seq
      /\ \A d \in A : d.key = k => \E e \in F : e.key = k /\ d.seq <= e.seq
  <2>1. \A d \in F : d \in A /\ d.seq <= d.seq
    BY <1>2
  <2> QED BY <1>2, <1>4, <2>1
<1>7. LargestSeq(F, k) = LargestSeq(A, k)
  BY <1>2, <1>5, <1>6, SameLargest
<1> QED BY <1>7 DEF A, F

\* What a step of reader r does to the functions of the abstract store.
LEMMA OneReaderChanges ==
    ASSUME StoreInv, HistInv, ValuesNext, NEW r \in Reader, ReaderStep(r)
    PROVE  /\ [q \in Reader |-> PhaseOf(q)]' =
                [[q \in Reader |-> PhaseOf(q)] EXCEPT ![r] = PhaseOf(r)']
           /\ [q \in Reader |-> Asked(q)]' =
                [[q \in Reader |-> Asked(q)] EXCEPT ![r] = Asked(r)']
           /\ asOf' = [asOf EXCEPT ![r] = asOf'[r]]
           /\ sees' = [sees EXCEPT ![r] = sees'[r]]
<1>1. ASSUME NEW q \in Reader, q # r
      PROVE  /\ PhaseOf(q)' = PhaseOf(q) /\ Asked(q)' = Asked(q)
             /\ asOf'[q] = asOf[q] /\ sees'[q] = sees[q]
  <2>1. ReaderFrame(q)
    BY <1>1, OtherReadersKept
  <2>2. asOf'[q] = asOf[q] /\ sees'[q] = sees[q]
    BY <2>1 DEF ReaderFrame, ValuesNext, RecordHistory, KeptOf, HistInv, ReaderHist
  <2> QED BY <2>1, <2>2 DEF ReaderFrame, PhaseOf, Asked
<1>2. asOf' = [q \in Reader |-> asOf'[q]] /\ sees' = [q \in Reader |-> sees'[q]]
  BY DEF ValuesNext, RecordHistory
<1>3. asOf \in [Reader -> SUBSET Entry] /\ sees \in [Reader -> SUBSET Entry]
  BY DEF HistInv
<1>4. asOf' = [asOf EXCEPT ![r] = asOf'[r]] /\ sees' = [sees EXCEPT ![r] = sees'[r]]
  BY <1>1, <1>2, <1>3
<1> QED BY <1>1, <1>4

\* A step of a reader.
LEMMA ReaderRefines ==
    ASSUME StoreInv, FreshInv, HistInv, ValuesNext, NEW r \in Reader, ReaderStep(r)
    PROVE  KV!KvReaderStep(r)
<1> DEFINE phaseOf == [q \in Reader |-> PhaseOf(q)]
           askedOf == [q \in Reader |-> Asked(q)]
           k == query[r].key
           s == query[r].seq
<1>1. /\ UNCHANGED <<nextSeq, mem, flushing, tables, step, batch>>
      /\ asOf'[r] = KeptOf(r, asOf[r], durable, "idle", "idle")
      /\ sees'[r] = KeptOf(r, sees[r], stored, "asked", "held")
  BY DEF ValuesNext, RecordHistory, ReaderStep, Pin, TakeSeq, Get, GetFromMem, GetFromTables,
         Drop, levelsVars, tree, storeVars, writerVars
<1>2. UNCHANGED KV!writerState
  <2>1. Pending' = Pending
    BY <1>1 DEF Pending
  <2>2. stored' = stored /\ durable' = durable
    BY <1>1 DEF ValuesNext, RecordHistory
  <2> QED BY <1>1, <2>1, <2>2 DEF KV!writerState
<1>3. /\ phaseOf' = [phaseOf EXCEPT ![r] = PhaseOf(r)']
      /\ askedOf' = [askedOf EXCEPT ![r] = Asked(r)']
      /\ asOf' = [asOf EXCEPT ![r] = asOf'[r]]
      /\ sees' = [sees EXCEPT ![r] = sees'[r]]
  BY OneReaderChanges
<1>4. phaseOf[r] = PhaseOf(r) /\ askedOf[r] = Asked(r)
  OBVIOUS
<1>5. /\ asOf \in [Reader -> SUBSET Entry] /\ sees \in [Reader -> SUBSET Entry]
      /\ phaseOf = [q \in Reader |-> phaseOf[q]] /\ askedOf = [q \in Reader |-> askedOf[q]]
  BY DEF HistInv
<1>6. /\ stage \in [Reader -> Stages] /\ view \in [Reader -> Nat]
      /\ query \in [Reader -> Entry] /\ got \in [Reader -> [Key -> Nat]]
  BY DEF StoreInv, DbInv, DbTypeOK
<1>7. /\ stage[r] = "idle" => asOf[r] = {}
      /\ stage[r] # "tables" => sees[r] = {}
  BY DEF HistInv, ReaderHist
<1> HIDE DEF phaseOf, askedOf
<1>8. CASE Pin(r)
  <2>1. /\ stage[r] = "idle" /\ stage'[r] = "pinned"
        /\ UNCHANGED <<view, query, got>>
    BY <1>6, <1>8 DEF Pin
  <2>2. /\ PhaseOf(r) = "none" /\ PhaseOf(r)' = "begun" /\ Asked(r) = {} /\ Asked(r)' = {}
        /\ asOf'[r] = durable /\ sees'[r] = sees[r]
    BY <1>1, <1>7, <2>1 DEF PhaseOf, Asked, KeptOf
  <2>3. askedOf' = askedOf /\ sees' = sees
    BY <1>3, <1>4, <1>5, <2>2
  <2>4. KV!BeginSnapshot(r)
    BY <1>2, <1>3, <1>4, <2>1, <2>2, <2>3 DEF KV!BeginSnapshot, phaseOf, askedOf
  <2> QED BY <2>4 DEF KV!KvReaderStep
<1>9. CASE TakeSeq(r)
  <2>1. /\ stage[r] = "pinned" /\ stage'[r] = "held"
        /\ view' = [view EXCEPT ![r] = nextSeq - 1]
        /\ UNCHANGED <<query, got>>
    BY <1>6, <1>9 DEF TakeSeq
  <2>2. /\ PhaseOf(r) = "begun" /\ PhaseOf(r)' = "held" /\ Asked(r) = {} /\ Asked(r)' = {}
        /\ asOf'[r] = asOf[r] /\ sees'[r] = sees[r]
    BY <1>1, <1>7, <2>1 DEF PhaseOf, Asked, KeptOf
  <2>3. askedOf' = askedOf /\ sees' = sees /\ asOf' = asOf
    BY <1>3, <1>4, <1>5, <2>2, ZenonT(60)
  <2>4. KV!EndSnapshot(r)
    BY <1>2, <1>3, <1>4, <2>1, <2>2, <2>3 DEF KV!EndSnapshot, phaseOf, askedOf
  <2> QED BY <2>4 DEF KV!KvReaderStep
<1>10. ASSUME NEW c \in Key, Get(r, c) PROVE KV!KvReaderStep(r)
  <2> DEFINE q == [key |-> c, seq |-> IF view[r] = 0 THEN nextSeq - 1 ELSE view[r]]
  <2>1. /\ stage[r] = "held" /\ stage'[r] = "asked" /\ query'[r] = q
        /\ UNCHANGED <<view, got>>
    BY <1>6, <1>10 DEF Get
  <2>2. /\ PhaseOf(r) = "held" /\ PhaseOf(r)' = "asked" /\ Asked(r)' = {q}
        /\ asOf'[r] = asOf[r] /\ sees'[r] = sees[r]
    BY <1>1, <1>7, <2>1 DEF PhaseOf, Asked, KeptOf
  <2>3. sees' = sees /\ asOf' = asOf
    BY <1>3, <1>5, <2>2
  <2>4. KV!Ask(r, c)
    BY <1>2, <1>3, <1>4, <2>1, <2>2, <2>3 DEF KV!Ask, phaseOf, askedOf
  <2> QED BY <2>4 DEF KV!KvReaderStep
<1>11. ASSUME stage[r] \in {"asked", "tables"}, NEW F, NEW E, Found(r, F),
              UNCHANGED <<view, query>>,
              LargestSeq(F, k) = LargestSeq(OfKey(E, k, s), k)
       PROVE  KV!Return(r, E) /\ asOf'[r] = asOf[r] /\ sees'[r] = {}
  <2>1. /\ stage'[r] = "held" /\ got' = [got EXCEPT ![r][k] = LargestSeq(F, k)]
    BY <1>6, <1>11 DEF Found
  <2>2. /\ PhaseOf(r)' = "held" /\ Asked(r) = {query[r]} /\ Asked(r)' = {}
        /\ asOf'[r] = asOf[r] /\ sees'[r] = {}
    BY <1>1, <1>11, <2>1 DEF PhaseOf, Asked, KeptOf
  <2>3. asOf' = asOf
    BY <1>3, <1>5, <2>2, ZenonT(60)
  <2>4. got' = [got EXCEPT ![r][k] = KV!LargestSeq(KV!OfKey(E, k, s), k)]
    BY <1>11, <2>1, KvOperators
  <2>5. KV!Return(r, E)
    BY <1>2, <1>3, <1>4, <1>11, <2>1, <2>2, <2>3, <2>4 DEF KV!Return, phaseOf, askedOf
  <2> QED BY <2>2, <2>5
<1>12. CASE GetFromMem(r)
  <2> DEFINE F == NewestOf(mem, k, s)
  <2>1. stage[r] = "asked" /\ MayRead /\ UNCHANGED <<view, query>> /\ PhaseOf(r) = "asked"
    BY <1>12 DEF GetFromMem, PhaseOf
  <2>2. CASE F # {} /\ Found(r, F)
    <3>1. k \in Key /\ s \in Nat
      BY <1>6 DEF Entry
    <3>2. LargestSeq(F, k) = LargestSeq(OfKey(stored, k, s), k)
      <4> HIDE DEF k, s
      <4> QED BY <2>1, <2>2, <3>1, MemAnswers
    <3>3. KV!Return(r, stored) /\ sees'[r] = {}
      <4> HIDE DEF k, s, F
      <4> QED BY <1>11, <2>1, <2>2, <3>2
    <3>4. sees' = sees
      BY <1>3, <1>5, <1>7, <2>1, <3>3, ZenonT(60)
    <3>5. KV!Answer(r)
      BY <1>4, <2>1, <3>3, <3>4 DEF KV!Answer, phaseOf
    <3> QED BY <3>5 DEF KV!KvReaderStep
  <2>3. CASE stage' = [stage EXCEPT ![r] = "tables"] /\ UNCHANGED <<read, got>>
    <3>1. stage'[r] = "tables"
      BY <1>6, <2>3
    <3>2. /\ PhaseOf(r)' = "looked" /\ Asked(r)' = Asked(r)
          /\ asOf'[r] = asOf[r] /\ sees'[r] = stored
      BY <1>1, <2>1, <3>1 DEF PhaseOf, Asked, KeptOf
    <3>3. askedOf' = askedOf /\ asOf' = asOf
      BY <1>3, <1>4, <1>5, <3>2
    <3>4. KV!Look(r)
      BY <1>2, <1>3, <1>4, <2>1, <2>3, <3>2, <3>3 DEF KV!Look, phaseOf, askedOf
    <3> QED BY <3>4 DEF KV!KvReaderStep
  <2> QED BY <1>12, <2>2, <2>3 DEF GetFromMem
<1>13. CASE GetFromTables(r)
  <2> DEFINE F == FindFromSsts(SearchedVersion(r), k, s)
  <2>1. /\ stage[r] = "tables" /\ Found(r, F) /\ UNCHANGED <<view, query>>
        /\ PhaseOf(r) = "looked"
    BY <1>13 DEF GetFromTables, PhaseOf
  <2>2. \E E \in {sees[r]} \cup KV!LateContents(r) :
            LargestSeq(F, k) = LargestSeq(OfKey(E, k, s), k)
    <3>1. CASE view[r] # 0
      <4>1. LargestSeq(F, k) = LargestSeq(OfKey(asOf[r], k, s), k)
        BY <2>1, <3>1, PinAnswers DEF SearchedVersion
      <4>2. CASE asOf[r] = durable
        <5>1. OfKey(sees[r], k, s) = OfKey(asOf[r], k, s)
          BY <2>1, <4>2 DEF HistInv, ReaderHist
        <5> QED BY <4>1, <5>1
      <4>3. CASE asOf[r] # durable
        <5>1. asOf[r] \in KV!LateContents(r)
          BY <3>1, <4>3 DEF KV!LateContents
        <5> QED BY <4>1, <5>1
      <4> QED BY <4>2, <4>3
    <3>2. CASE view[r] = 0
      <4>1. F \subseteq OfKey(EntriesOf(tables), k, s)
        BY <3>2, SearchFindsOnly DEF SearchedVersion
      <4>2. F \subseteq durable /\ F \subseteq stored /\ OfKey(F, k, s) = F
        BY <4>1 DEF OfKey, HistInv, StoreHist
      <4>3. CASE asOf[r] = durable
        <5>1. \A e \in durable : e.seq \in Nat /\ 0 < e.seq /\ e.seq <= 0
          BY <2>1, <3>2, <4>3 DEF HistInv, StoreHist, ReaderHist, HasNumber, Entry
        <5>2. durable = {}
          BY <5>1
        <5>3. F = {} /\ OfKey(sees[r], k, s) = {}
          BY <2>1, <4>2, <4>3, <5>2 DEF HistInv, ReaderHist, OfKey
        <5> QED BY <5>3
      <4>4. CASE asOf[r] # durable
        <5>1. F \in KV!LateContents(r)
          BY <3>2, <4>2, <4>4 DEF KV!LateContents
        <5> QED BY <4>2, <5>1
      <4> QED BY <4>3, <4>4
    <3> QED BY <3>1, <3>2
  <2> HIDE DEF F
  <2>3. PICK E \in {sees[r]} \cup KV!LateContents(r) :
            LargestSeq(F, k) = LargestSeq(OfKey(E, k, s), k)
    BY <2>2
  <2>4. KV!Return(r, E) /\ sees'[r] = {}
    BY <1>11, <2>1, <2>3
  <2>5. KV!AnswerLater(r)
    BY <1>3, <1>4, <2>1, <2>3, <2>4 DEF KV!AnswerLater, phaseOf
  <2> QED BY <2>5 DEF KV!KvReaderStep
<1>14. CASE Drop(r)
  <2>1. /\ stage[r] = "held" /\ stage'[r] = "idle"
        /\ view' = [view EXCEPT ![r] = 0] /\ got' = [got EXCEPT ![r] = Zeros]
    BY <1>6, <1>14 DEF Drop
  <2>2. /\ PhaseOf(r) = "held" /\ PhaseOf(r)' = "none" /\ Asked(r) = {} /\ Asked(r)' = {}
        /\ asOf'[r] = {} /\ sees'[r] = sees[r]
    BY <1>1, <1>7, <2>1 DEF PhaseOf, Asked, KeptOf
  <2>3. askedOf' = askedOf /\ sees' = sees
    BY <1>3, <1>4, <1>5, <2>2
  <2>4. KV!DropSnapshot(r)
    BY <1>2, <1>3, <1>4, <2>1, <2>2, <2>3
       DEF KV!DropSnapshot, KV!Nothing, Zeros, phaseOf, askedOf
  <2> QED BY <2>4 DEF KV!KvReaderStep
<1> QED BY <1>8, <1>9, <1>10, <1>12, <1>13, <1>14 DEF ReaderStep

LEMMA StepRefines ==
    ASSUME OnlyWritersCompact, TopLevelsOnly, ValuesInv, [ValuesNext]_valuesVars
    PROVE  [KV!KvNext]_KV!kvVars
<1> USE DEF ValuesInv
<1>1. CASE ValuesNext /\ \E w \in Writer : WriterStep(w)
  BY <1>1, WriterRefines DEF KV!KvNext
<1>2. CASE ValuesNext /\ \E r \in Reader : ReaderStep(r)
  BY <1>2, ReaderRefines DEF KV!KvNext
<1>3. ASSUME ValuesNext, ~\E w \in Writer : WriterStep(w), ~\E r \in Reader : ReaderStep(r)
      PROVE  UNCHANGED KV!kvVars
  <2>1. UNCHANGED <<nextSeq, mem, flushing, step, batch>>
    BY <1>3, OthersKeepMem DEF ValuesNext, storeVars, writerVars
  <2>2. UNCHANGED readerVars
    BY <1>3, LevelsAssumption DEF ValuesNext, DbNext, Compact, LoopAgain
  <2>3. UNCHANGED <<stage, view, query, got>>
    BY <2>2 DEF readerVars
  <2>4. UNCHANGED <<stored, durable>>
    BY <1>3, <2>1 DEF ValuesNext, RecordHistory
  <2>5. \A r \in Reader : asOf'[r] = asOf[r] /\ sees'[r] = sees[r]
    BY <1>3, <2>3 DEF ValuesNext, RecordHistory, KeptOf, HistInv, ReaderHist
  <2>6. asOf' = [r \in Reader |-> asOf'[r]] /\ sees' = [r \in Reader |-> sees'[r]]
    BY <1>3 DEF ValuesNext, RecordHistory
  <2>7. asOf' = asOf /\ sees' = sees
    BY <2>5, <2>6 DEF HistInv
  <2>8. Pending' = Pending
    BY <2>1 DEF Pending
  <2>9. /\ [r \in Reader |-> PhaseOf(r)]' = [r \in Reader |-> PhaseOf(r)]
        /\ [r \in Reader |-> Asked(r)]' = [r \in Reader |-> Asked(r)]
    BY <2>3 DEF PhaseOf, Asked
  <2> QED BY <2>1, <2>3, <2>4, <2>7, <2>8, <2>9 DEF KV!kvVars
<1>4. CASE UNCHANGED valuesVars
  <2>1. UNCHANGED <<stored, durable, asOf, sees, nextSeq, step, batch, stage, view, query, got>>
    BY <1>4 DEF valuesVars, historyVars, dbVars, storeVars, writerVars, readerVars
  <2>2. Pending' = Pending
    BY <2>1 DEF Pending
  <2>3. /\ [r \in Reader |-> PhaseOf(r)]' = [r \in Reader |-> PhaseOf(r)]
        /\ [r \in Reader |-> Asked(r)]' = [r \in Reader |-> Asked(r)]
    BY <2>1 DEF PhaseOf, Asked
  <2> QED BY <2>1, <2>2, <2>3 DEF KV!kvVars
<1> QED BY <1>1, <1>2, <1>3, <1>4

\* With one writer, whose forced compactions are the only ones, the open store
\* implements the abstract one: batches are stored as a whole, and a get finds
\* what was stored when it looked, up to its number, or what was flushed before
\* its snapshot if a memtable was flushed since.
THEOREM DbStoresValues ==
    ASSUME OnlyWritersCompact, TopLevelsOnly
    PROVE  ValuesSpec => StoresValues
<1>1. ValuesInv /\ [ValuesNext]_valuesVars => ValuesInv'
  BY ValuesStep
<1>2. ValuesInv /\ [ValuesNext]_valuesVars => [KV!KvNext]_KV!kvVars
  BY StepRefines
<1> QED BY <1>1, <1>2, ValuesInvInit, InitRefines, PTL DEF ValuesSpec, StoresValues, KV!KvSpec
=============================================================================
