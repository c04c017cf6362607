---------------------------- MODULE LevelsProofs ----------------------------
(***************************************************************************)
(* No last write is lost, however compactions overlap.  As long as none    *)
(* overlap, and when only levels 0 and 1 are compacted, a read finds the   *)
(* last write of its key, whatever is flushed and whenever.  (Levels shows *)
(* by counterexamples that neither condition can be dropped.)  The         *)
(* invariant orders the tables: an entry of a table above, or later on the *)
(* same level, is newer.                                                   *)
(***************************************************************************)
EXTENDS Levels, FiniteSetTheorems, TLAPS

\* Bounds on the number of files for levels 0 and 1 only.
TopLevelsOnly == \A l \in Level : l >= 2 => Allowed[l] = 0

Above(t, u) == t.level < u.level \/ (t.level = u.level /\ u.time < t.time)

Newer(t, u) ==
    \A d \in t.entries, e \in u.entries : d.key = e.key => e.seq < d.seq

\* Tables are ordered, ...
Ordered == \A t, u \in tables : Above(t, u) => Newer(t, u)

\* ... were written in the past, hold flushed writes only, ...
Past == \A t \in tables : t.time <= written /\ t.level >= Top
Flushed == \A t \in tables : \A e \in t.entries : e.seq <= newest[e.key]

\* ... and a task has the oldest tables of its level.
Compacting(c) == phase[c] \in {"need", "merge", "publish"}

LevelRoom == \A c \in Task : Compacting(c) => at[c] < MaxLevel
LevelFit == \A c \in Task : Compacting(c) => at[c] >= Top /\ at[c] < 2

SeenFit == \A c \in Task : phase[c] = "need" =>
    /\ seen[c] \subseteq tables
    /\ \A t \in tables \ seen[c] :
          t.level = Top /\ \A u \in seen[c] : u.time < t.time

OldestOf(C, T, l) ==
    /\ C \subseteq AtLevel(T, l)
    /\ \A t \in C, u \in AtLevel(T, l) \ C : t.time < u.time

ChosenFit == \A c \in Task : phase[c] \in {"merge", "publish"} =>
    OldestOf(chosen[c], tables, at[c])

StampFit == \A c \in Task : phase[c] = "publish" =>
    /\ stamp[c] <= written
    /\ \A u \in AtLevel(tables, at[c] + 1) : u.time < stamp[c]

IInv ==
    /\ LevelsTypeOK
    /\ LevelRoom
    /\ Ordered
    /\ Past
    /\ Flushed
    /\ NothingLost
    /\ LevelFit
    /\ SeenFit
    /\ ChosenFit
    /\ StampFit

-----------------------------------------------------------------------------
(***************************************************************************)
(* What the operators do.                                                  *)
(***************************************************************************)
\* Only a level with a bound needs a compaction, so never the last.
LEMMA NeedsBound ==
    ASSUME LevelsTypeOK, NEW c \in Task, NeedsCompaction(c)
    PROVE  Allowed[at[c]] # 0 /\ at[c] < MaxLevel
<1>1. at[c] \in Level /\ Percent[c] \in 1 .. 100
  BY LevelsAssumption DEF LevelsTypeOK
<1>2. (Allowed[at[c]] * Percent[c]) \div 100 # 0
  BY DEF NeedsCompaction, Appropriate
<1>3. Allowed[at[c]] # 0
  <2>1. SUFFICES ASSUME Allowed[at[c]] = 0 PROVE (Allowed[at[c]] * Percent[c]) \div 100 = 0
    BY <1>2
  <2>2. Allowed[at[c]] * Percent[c] = 0
    BY <1>1, <2>1
  <2> QED BY <2>2
<1>4. at[c] < MaxLevel
  BY <1>1, <1>3, LevelsAssumption DEF Level
<1> QED BY <1>3, <1>4

\* When only levels 0 and 1 have bounds it is level 0 or 1, and has tables.
LEMMA NeedsLevel ==
    ASSUME TopLevelsOnly, LevelsTypeOK, Past, NEW c \in Task, NeedsCompaction(c)
    PROVE  at[c] >= Top /\ at[c] < 2
<1> DEFINE l == at[c]
           val == (Allowed[l] * Percent[c]) \div 100
<1>1. l \in Level /\ Allowed[l] \in Nat /\ Percent[c] \in 1 .. 100 /\ Top \in Nat
  BY LevelsAssumption DEF LevelsTypeOK
<1>2. val # 0 /\ ~(val >= Cardinality(AtLevel(tables, l)))
  BY DEF NeedsCompaction, Appropriate
<1>4. l < 2
  BY <1>1, NeedsBound DEF TopLevelsOnly, Level
<1>5. l >= Top
  <2>1. SUFFICES ASSUME l < Top PROVE FALSE
    BY <1>1 DEF Level
  <2>2. AtLevel(tables, l) = {}
    BY <2>1, <1>1, LevelsAssumption DEF AtLevel, Past, LevelsTypeOK, Table, Level
  <2>3. Cardinality(AtLevel(tables, l)) = 0
    BY <2>2, FS_EmptySet
  <2>4. val \in Nat
    <3>1. Allowed[l] * Percent[c] \in Nat
      BY <1>1
    <3> QED BY <3>1
  <2> QED BY <1>2, <2>3, <2>4
<1> QED BY <1>4, <1>5

\* On levels 0 and 1 the policy returns the oldest tables of the level.
LEMMA PolicyIsOldest ==
    ASSUME NEW T \in SUBSET Table, NEW l \in Level, l < 2, NEW pct,
           NEW C \in CompactingFiles(T, l, pct)
    PROVE  OldestOf(C, T, l)
<1> DEFINE own == OwnTables(T, l)
<1>1. NextTables(T, l) = {}
  BY DEF NextTables, Level
<1>2. C \subseteq own /\ \A t \in C, u \in own \ C : t.time < u.time
  BY <1>1 DEF CompactingFiles
<1>3. own \subseteq AtLevel(T, l)
  BY DEF OwnTables
<1>4. ASSUME NEW t \in own, NEW u \in AtLevel(T, l) \ own
      PROVE  t.time < u.time
  <2>1. PICK w \in AtLevel(T, l) : t.time < w.time
    BY DEF OwnTables
  <2>2. ~(u.time < w.time)
    BY <1>4, <2>1 DEF OwnTables
  <2>3. t.time \in Nat /\ u.time \in Nat /\ w.time \in Nat
    BY <1>3 DEF AtLevel, Table
  <2> QED BY <2>1, <2>2, <2>3
<1> QED BY <1>2, <1>3, <1>4 DEF OldestOf

\* In ordered tables a read finds the last write.
LEMMA OrderFindsNewest ==
    ASSUME LevelsTypeOK, Ordered, Flushed, NothingLost PROVE NewestWins
<1> SUFFICES ASSUME NEW k \in Key, newest[k] # 0
             PROVE  FindFromSsts(tables, k, newest[k]) = {[key |-> k, seq |-> newest[k]]}
  BY DEF NewestWins
<1> DEFINE e == [key |-> k, seq |-> newest[k]]
           at_(l) == EntriesOf(AtLevel(tables, l))
<1>0. newest[k] \in Nat /\ \A l \in Level : l \in Nat
  BY DEF LevelsTypeOK, Level
<1>1. PICK t \in tables : e \in t.entries
  BY DEF NothingLost, EntriesOf
<1>2. t.level \in Level /\ t.level \in Nat
  BY <1>0 DEF LevelsTypeOK, Table
<1>3. ASSUME NEW u \in tables, NEW d \in u.entries, d.key = k
      PROVE  /\ d \in Entry /\ d.seq <= newest[k]
             /\ u.level \in Level /\ ~(u.level < t.level)
  <2>1. d \in Entry /\ u.level \in Level
    BY DEF LevelsTypeOK, Table
  <2>2. d.seq <= newest[k]
    BY <1>3 DEF Flushed
  <2>3. ~(u.level < t.level)
    <3>1. SUFFICES ASSUME u.level < t.level PROVE FALSE
      OBVIOUS
    <3>2. newest[k] < d.seq
      BY <3>1, <1>1, <1>3 DEF Ordered, Above, Newer
    <3>3. d.seq \in Nat
      BY <2>1 DEF Entry
    <3> QED BY <3>2, <3>3, <2>2, <1>0
  <2> QED BY <2>1, <2>2, <2>3
<1>4. \A m \in 0 .. (t.level - 1) : OfKey(at_(m), k, newest[k]) = {}
  <2>1. SUFFICES ASSUME NEW m \in 0 .. (t.level - 1), NEW d \in OfKey(at_(m), k, newest[k])
                 PROVE  FALSE
    OBVIOUS
  <2>2. PICK u \in tables : u.level = m /\ d \in u.entries /\ d.key = k
    BY <2>1 DEF OfKey, EntriesOf, AtLevel
  <2>3. m < t.level
    BY <1>0, <1>2, <2>1
  <2> QED BY <1>3, <2>2, <2>3
<1>5. e \in OfKey(at_(t.level), k, newest[k])
  BY <1>0, <1>1 DEF OfKey, EntriesOf, AtLevel
<1>6. NewestOf(at_(t.level), k, newest[k]) = {e}
  <2>1. e \in NewestOf(at_(t.level), k, newest[k])
    BY <1>5 DEF NewestOf, OfKey
  <2>2. ASSUME NEW d \in NewestOf(at_(t.level), k, newest[k])
        PROVE  d = e
    <3>1. d \in OfKey(at_(t.level), k, newest[k]) /\ newest[k] <= d.seq
      BY <1>5 DEF NewestOf
    <3>2. PICK u \in tables : d \in u.entries /\ d.key = k
      BY <3>1 DEF OfKey, EntriesOf, AtLevel
    <3>3. d \in Entry /\ d.seq <= newest[k]
      BY <1>3, <3>2
    <3>4. d.seq = newest[k]
      BY <1>0, <3>1, <3>3 DEF Entry
    <3> QED BY <3>2, <3>3, <3>4 DEF Entry
  <2> QED BY <2>1, <2>2
<1>7. ASSUME NEW l \in Level,
             \A m \in 0 .. (l - 1) : OfKey(at_(m), k, newest[k]) = {}
      PROVE  NewestOf(at_(l), k, newest[k]) \subseteq {e}
  <2>1. ~(t.level < l)
    <3>1. SUFFICES ASSUME t.level < l PROVE FALSE
      OBVIOUS
    <3>2. t.level \in 0 .. (l - 1)
      BY <1>0, <1>2, <3>1
    <3> QED BY <1>5, <1>7, <3>2
  <2>2. CASE l = t.level
    BY <1>6, <2>2
  <2>3. CASE l < t.level
    <3>1. l \in 0 .. (t.level - 1)
      BY <1>0, <1>2, <2>3
    <3>2. OfKey(at_(l), k, newest[k]) = {}
      BY <1>4, <3>1
    <3> QED BY <3>2 DEF NewestOf
  <2> QED BY <1>0, <1>2, <2>1, <2>2, <2>3
<1>8. FindFromSsts(tables, k, newest[k]) \subseteq {e}
  BY <1>7 DEF FindFromSsts
<1>9. e \in FindFromSsts(tables, k, newest[k])
  BY <1>2, <1>4, <1>6 DEF FindFromSsts
<1> QED BY <1>8, <1>9

-----------------------------------------------------------------------------
(***************************************************************************)
(* The invariant.                                                          *)
(***************************************************************************)
LEMMA AddTableType ==
    ASSUME LevelsTypeOK, LevelRoom, NEW E \in SUBSET Entry, AddTable(E),
           newest' \in [Key -> Nat]
    PROVE  LevelsTypeOK' /\ LevelRoom'
<1> USE LevelsAssumption DEF LevelsTypeOK
<1>1. Top \in Level /\ written + 1 \in Nat
  BY DEF Level
<1>2. [time |-> written + 1, level |-> Top, entries |-> E] \in Table
  BY <1>1 DEF Table
<1>3. tables' \subseteq Table /\ written' \in Nat
  BY <1>1, <1>2 DEF AddTable
<1> QED BY <1>3 DEF AddTable, taskVars, LevelRoom, Compacting

\* Every step keeps the types, whatever the number of tasks.
LEMMA LevelsTypeStep ==
    LevelsTypeOK /\ LevelRoom /\ [LevelsNext]_levelsVars => LevelsTypeOK' /\ LevelRoom'
<1> SUFFICES ASSUME LevelsTypeOK, LevelRoom, [LevelsNext]_levelsVars
             PROVE  LevelsTypeOK' /\ LevelRoom'
  OBVIOUS
<1> USE LevelsAssumption DEF LevelsTypeOK
<1>1. ASSUME NEW K \in Batches, Flush(K) PROVE LevelsTypeOK' /\ LevelRoom'
  <2>1. newest' \in [Key -> Nat]
    BY <1>1 DEF Flush
  <2> DEFINE E == {[key |-> k, seq |-> newest[k] + 1] : k \in K}
  <2>2. E \in SUBSET Entry
    BY DEF Entry
  <2>3. AddTable(E)
    BY <1>1 DEF Flush
  <2> HIDE DEF E
  <2> QED BY <2>1, <2>2, <2>3, AddTableType
<1>2. ASSUME NEW c \in Task, Return(c), UNCHANGED <<written, busy, newest>>,
             tables' \subseteq Table
      PROVE  LevelsTypeOK' /\ LevelRoom'
  BY <1>2 DEF Return, LevelRoom, Compacting
<1>3. ASSUME NEW c \in Task, Call(c) \/ CompactionStep(c)
      PROVE  LevelsTypeOK' /\ LevelRoom'
  <2> USE DEF LevelRoom, Compacting
  <2>1. CASE Call(c)
    BY <2>1 DEF Call, tree
  <2>2. CASE Skip(c)
    <3>1. at[c] \in Nat /\ at[c] + 1 \in Level
      BY <2>2 DEF Skip, LastLevel, Level
    <3>2. at' \in [Task -> Level] /\ phase[c] = "look"
      BY <2>2, <3>1 DEF Skip
    <3>3. LevelRoom'
      BY <2>2, <3>2 DEF Skip
    <3> QED BY <2>2, <3>2, <3>3 DEF Skip, tree
  <2>3. CASE EndLoop(c)
    <3>1. Return(c) /\ UNCHANGED <<written, busy, newest, tables>>
      BY <2>3 DEF EndLoop, tree
    <3> QED BY <1>2, <3>1
  <2>4. CASE Need(c)
    <3>1. at[c] < MaxLevel
      BY <2>4, NeedsBound DEF Need
    <3> QED BY <2>4, <3>1 DEF Need, tree
  <2>5. CASE Refused(c)
    BY <1>2, <2>5 DEF Refused, tree
  <2>6. CASE Choose(c)
    <3>1. PICK C \in CompactingFiles(seen[c], at[c], Percent[c]) :
             chosen' = [chosen EXCEPT ![c] = C]
      BY <2>6 DEF Choose
    <3>2. C \subseteq seen[c]
      BY DEF CompactingFiles, OwnTables, NextTables, AtLevel
    <3>3. chosen' \in [Task -> SUBSET Table]
      BY <3>1, <3>2
    <3> QED BY <2>6, <3>3 DEF Choose
  <2>7. CASE Merge(c)
    BY <2>7 DEF Merge, FlagCleared
  <2>8. CASE Publish(c)
    <3>1. MergeTables(chosen[c]) \subseteq Entry
      BY DEF MergeTables, EntriesOf, Table
    <3>2. at[c] + 1 \in Level
      BY <2>8 DEF Publish, Level
    <3>3. Merged(c) \in Table
      BY <3>1, <3>2 DEF Merged, Table
    <3>4. tables' \subseteq Table
      BY <2>8, <3>3 DEF Publish, TablesAfter
    <3> QED BY <1>2, <2>8, <3>4 DEF Publish
  <2> QED BY <1>3, <2>1, <2>2, <2>3, <2>4, <2>5, <2>6, <2>7, <2>8 DEF CompactionStep
<1>4. CASE UNCHANGED levelsVars
  BY <1>4 DEF levelsVars, tree, taskVars, LevelRoom, Compacting
<1> QED BY <1>1, <1>3, <1>4 DEF LevelsNext

LEMMA LevelsTypeInit == LevelsInit => LevelsTypeOK /\ LevelRoom
BY LevelsAssumption DEF LevelsInit, LevelsTypeOK, LevelRoom, Compacting

\* Type correctness, for any number of compaction tasks.
THEOREM LevelsTypeCorrect == LevelsSpec => []LevelsTypeOK
<1>1. LevelsSpec => [](LevelsTypeOK /\ LevelRoom)
  BY LevelsTypeInit, LevelsTypeStep, PTL DEF LevelsSpec
<1> QED BY <1>1, PTL
-----------------------------------------------------------------------------
(***************************************************************************)
(* Whatever overlaps: no table, and none that a task saw or chose, holds   *)
(* more than what was flushed, so a merge drops an entry for a newer one   *)
(* only.                                                                   *)
(***************************************************************************)
FlushedOnly(T) == \A t \in T : \A e \in t.entries : e.seq <= newest[e.key]

LostInv ==
    /\ LevelsTypeOK /\ LevelRoom
    /\ FlushedOnly(tables)
    /\ \A c \in Task : FlushedOnly(seen[c]) /\ FlushedOnly(chosen[c])
    /\ NothingLost

LEMMA LostFlush ==
    ASSUME LostInv, NEW K \in Batches, Flush(K)
    PROVE  LostInv'
<1> USE DEF LostInv, LevelsTypeOK
<1> DEFINE E == {[key |-> k, seq |-> newest[k] + 1] : k \in K}
           n == [time |-> written + 1, level |-> Top, entries |-> E]
<1>1. LevelsTypeOK' /\ LevelRoom'
  BY LevelsTypeStep DEF LevelsNext
<1>2. /\ tables' = tables \cup {n} /\ n.entries = E
      /\ UNCHANGED <<seen, chosen>>
  BY DEF Flush, AddTable, taskVars
<1>3. \A k \in Key : newest[k] \in Nat /\ newest'[k] \in Nat /\ newest[k] <= newest'[k]
  BY DEF Flush
<1>4. \A k \in Key : newest'[k] # newest[k] => [key |-> k, seq |-> newest'[k]] \in E
  BY DEF Flush
<1>5. \A e \in E : e.seq = newest'[e.key] /\ e.seq \in Nat
  BY LevelsAssumption DEF Flush
<1> HIDE DEF E, n
<1>6. ASSUME NEW T \in SUBSET Table, FlushedOnly(T) PROVE FlushedOnly(T)'
  <2>1. \A t \in T : \A e \in t.entries : e.key \in Key /\ e.seq \in Nat
    BY DEF Table, Entry
  <2>2. SUFFICES ASSUME NEW t \in T, NEW e \in t.entries PROVE e.seq <= newest'[e.key]
    BY DEF FlushedOnly
  <2>3. e.seq <= newest[e.key]
    BY <1>6 DEF FlushedOnly
  <2> QED BY <1>3, <2>1, <2>3
<1>7. FlushedOnly(tables)'
  <2>1. \A t \in tables : \A e \in t.entries : e.seq <= newest'[e.key]
    BY <1>6 DEF FlushedOnly
  <2> QED BY <1>2, <1>5, <2>1 DEF FlushedOnly
<1>8. \A c \in Task : FlushedOnly(seen[c])' /\ FlushedOnly(chosen[c])'
  BY <1>2, <1>6 DEF FlushedOnly
<1>9. NothingLost'
  <2>1. EntriesOf(tables') = EntriesOf(tables) \cup E
    BY <1>2 DEF EntriesOf
  <2> QED BY <1>3, <1>4, <2>1 DEF NothingLost
<1> QED BY <1>1, <1>7, <1>8, <1>9

LEMMA LostPublish ==
    ASSUME LostInv, NEW c \in Task, Publish(c)
    PROVE  LostInv'
<1> USE DEF LostInv, LevelsTypeOK
<1> DEFINE C == chosen[c]
           n == Merged(c)
<1>1. LevelsTypeOK' /\ LevelRoom'
  BY LevelsTypeStep DEF LevelsNext, CompactionStep
<1>2. /\ tables' = (tables \ C) \cup {n} /\ n.entries = MergeTables(C)
      /\ newest' = newest
      /\ \A d \in Task : seen'[d] \subseteq seen[d] /\ chosen'[d] \subseteq chosen[d]
  BY DEF Publish, Return, TablesAfter, Merged
<1> HIDE DEF n
<1>3. \A e \in EntriesOf(C) : e.seq <= newest[e.key]
  BY DEF FlushedOnly, EntriesOf
<1>4. FlushedOnly(tables)' /\ \A d \in Task : FlushedOnly(seen[d])' /\ FlushedOnly(chosen[d])'
  BY <1>2, <1>3 DEF FlushedOnly, MergeTables
<1>5. NothingLost'
  <2>1. SUFFICES ASSUME NEW k \in Key, newest[k] # 0
                 PROVE  [key |-> k, seq |-> newest[k]] \in EntriesOf(tables')
    BY <1>2 DEF NothingLost
  <2> DEFINE e == [key |-> k, seq |-> newest[k]]
  <2>2. PICK t \in tables : e \in t.entries
    BY <2>1 DEF NothingLost, EntriesOf
  <2>3. CASE t \notin C
    BY <1>2, <2>2, <2>3 DEF EntriesOf
  <2>4. CASE t \in C
    <3>1. e \in MergeTables(C)
      BY <1>3, <2>2, <2>4 DEF MergeTables, EntriesOf
    <3> QED BY <1>2, <3>1 DEF EntriesOf
  <2> QED BY <2>3, <2>4
<1> QED BY <1>1, <1>4, <1>5

LEMMA LostTaskStep ==
    ASSUME LostInv, NEW c \in Task,
           \/ Call(c) \/ Skip(c) \/ EndLoop(c) \/ Need(c)
           \/ Refused(c) \/ Choose(c) \/ Merge(c)
    PROVE  LostInv'
<1> USE DEF LostInv, LevelsTypeOK
<1>1. LevelsTypeOK' /\ LevelRoom'
  BY LevelsTypeStep DEF LevelsNext, CompactionStep
<1>2. tables' = tables /\ newest' = newest
  BY DEF Call, Skip, EndLoop, Need, Refused, Choose, Merge, tree
<1>3. \A d \in Task : seen'[d] \in {seen[d], tables, {}}
  BY DEF Call, Skip, EndLoop, Need, Refused, Choose, Merge, Return
<1>4. \A d \in Task : chosen'[d] \subseteq chosen[d] \cup seen[d]
  <2>1. \A C \in CompactingFiles(seen[c], at[c], Percent[c]) : C \subseteq seen[c]
    BY DEF CompactingFiles, OwnTables, NextTables, AtLevel
  <2> QED BY <2>1 DEF Call, Skip, EndLoop, Need, Refused, Choose, Merge, Return
<1>5. \A d \in Task : FlushedOnly(seen'[d]) /\ FlushedOnly(chosen'[d])
  BY <1>3, <1>4 DEF FlushedOnly
<1> QED BY <1>1, <1>2, <1>5 DEF FlushedOnly, NothingLost

\* No last write is lost to a compaction, for any number of tasks that
\* overlap in any way, and bounds on any levels.
THEOREM NoWriteLost == LevelsSpec => []NothingLost
<1>1. LevelsInit => LostInv
  BY LevelsTypeInit DEF LevelsInit, LostInv, FlushedOnly, NothingLost
<1>2. LostInv /\ [LevelsNext]_levelsVars => LostInv'
  <2> SUFFICES ASSUME LostInv, [LevelsNext]_levelsVars PROVE LostInv'
    OBVIOUS
  <2>1. CASE UNCHANGED levelsVars
    <3>1. LevelsTypeOK' /\ LevelRoom'
      BY <2>1, LevelsTypeStep DEF LostInv
    <3> QED BY <2>1, <3>1
        DEF levelsVars, tree, taskVars, LostInv, FlushedOnly, NothingLost
  <2> QED BY <2>1, LostFlush, LostPublish, LostTaskStep DEF LevelsNext, CompactionStep
<1>3. LostInv => NothingLost
  BY DEF LostInv
<1> QED BY <1>1, <1>2, <1>3, PTL DEF LevelsSpec
-----------------------------------------------------------------------------
(***************************************************************************)
(* Calls that do not overlap, one action at a time.                                  *)
(***************************************************************************)
\* What a flush of the entries E does to the last writes.
Flushes(E) ==
    /\ AddTable(E)
    /\ newest' \in [Key -> Nat]
    /\ \A e \in E : newest[e.key] < e.seq /\ e.seq <= newest'[e.key]
    /\ \A k \in Key : newest[k] <= newest'[k]
    /\ \A k \in Key : newest'[k] # newest[k] => [key |-> k, seq |-> newest'[k]] \in E

LEMMA FlushAddsTable ==
    ASSUME LevelsTypeOK, NEW K \in Batches, Flush(K)
    PROVE  \E E \in SUBSET Entry : Flushes(E)
<1> DEFINE E == {[key |-> k, seq |-> newest[k] + 1] : k \in K}
<1>1. K \subseteq Key /\ newest \in [Key -> Nat]
  BY LevelsAssumption DEF LevelsTypeOK
<1>2. /\ newest' = [k \in Key |-> IF k \in K THEN newest[k] + 1 ELSE newest[k]]
      /\ AddTable(E)
  BY DEF Flush
<1>3. E \in SUBSET Entry
  BY <1>1 DEF Entry
<1>4. newest' \in [Key -> Nat] /\ \A k \in Key : newest[k] <= newest'[k]
  BY <1>1, <1>2
<1>5. \A e \in E : newest[e.key] < e.seq /\ e.seq <= newest'[e.key]
  BY <1>1, <1>2
<1>6. \A k \in Key : newest'[k] # newest[k] => [key |-> k, seq |-> newest'[k]] \in E
  BY <1>1, <1>2
<1> HIDE DEF E
<1> QED BY <1>2, <1>3, <1>4, <1>5, <1>6 DEF Flushes

\* A flushed table is newer than all and goes above all.
LEMMA FlushKeeps ==
    ASSUME IInv, NEW E \in SUBSET Entry, Flushes(E)
    PROVE  Ordered' /\ Past' /\ Flushed' /\ NothingLost'
<1> DEFINE n == [time |-> written + 1, level |-> Top, entries |-> E]
<1>1. \A e \in E : /\ e.key \in Key /\ e.seq \in Nat
                   /\ newest[e.key] < e.seq /\ e.seq <= newest'[e.key]
  BY DEF Flushes, Entry
<1>2. \A k \in Key : newest[k] \in Nat /\ newest'[k] \in Nat /\ newest[k] <= newest'[k]
  BY DEF IInv, LevelsTypeOK, Flushes
<1>3. \A k \in Key : newest'[k] # newest[k] => [key |-> k, seq |-> newest'[k]] \in E
  BY DEF Flushes
<1>4. tables' = tables \cup {n} /\ written' = written + 1
  BY DEF Flushes, AddTable
<1>5. \A t \in tables : /\ t.time \in Nat /\ t.level \in Nat
                        /\ \A e \in t.entries : e.key \in Key /\ e.seq \in Nat
  BY DEF IInv, LevelsTypeOK, Table, Entry, Level
<1>6. written \in Nat /\ Top \in Nat
  BY LevelsAssumption DEF IInv, LevelsTypeOK
<1>8. ASSUME NEW u \in tables PROVE Newer(n, u) /\ ~Above(u, n)
  <2>1. Newer(n, u)
    <3>1. SUFFICES ASSUME NEW d \in E, NEW e \in u.entries, d.key = e.key
                   PROVE  e.seq < d.seq
      BY DEF Newer
    <3>2. e.seq <= newest[e.key]
      BY DEF IInv, Flushed
    <3> QED BY <1>1, <1>2, <1>5, <3>1, <3>2
  <2>2. ~Above(u, n)
    BY <1>5, <1>6 DEF IInv, Past, Above
  <2> QED BY <2>1, <2>2
<1>9. ~Above(n, n)
  BY <1>6 DEF Above
<1>10. Ordered'
  BY <1>4, <1>8, <1>9 DEF IInv, Ordered
<1>11. Past'
  BY <1>4, <1>5, <1>6 DEF IInv, Past
<1>12. Flushed'
  <2>1. ASSUME NEW t \in tables, NEW e \in t.entries PROVE e.seq <= newest'[e.key]
    <3>1. e.seq <= newest[e.key]
      BY DEF IInv, Flushed
    <3> QED BY <1>2, <1>5, <3>1
  <2>2. \A e \in E : e.seq <= newest'[e.key]
    BY <1>1
  <2> QED BY <1>4, <2>1, <2>2 DEF Flushed
<1>13. NothingLost'
  <2>1. EntriesOf(tables) \subseteq EntriesOf(tables') /\ E \subseteq EntriesOf(tables')
    <3>1. n \in tables' /\ n.entries = E /\ tables \subseteq tables'
      BY <1>4
    <3> QED BY <3>1 DEF EntriesOf
  <2>2. SUFFICES ASSUME NEW k \in Key, newest'[k] # 0
                 PROVE  [key |-> k, seq |-> newest'[k]] \in EntriesOf(tables')
    BY DEF NothingLost
  <2>3. CASE newest'[k] # newest[k]
    BY <1>3, <2>1, <2>3
  <2>4. CASE newest'[k] = newest[k]
    <3>1. [key |-> k, seq |-> newest[k]] \in EntriesOf(tables)
      BY <2>2, <2>4 DEF IInv, NothingLost
    <3> QED BY <2>1, <2>4, <3>1
  <2> QED BY <2>3, <2>4
<1> QED BY <1>10, <1>11, <1>12, <1>13

\* What a task saw or chose is still there, and the new table is later.
LEMMA FlushKeepsTasks ==
    ASSUME IInv, NEW E \in SUBSET Entry, Flushes(E)
    PROVE  LevelFit' /\ SeenFit' /\ ChosenFit' /\ StampFit'
<1> DEFINE n == [time |-> written + 1, level |-> Top, entries |-> E]
<1>1. /\ tables' = tables \cup {n} /\ written' = written + 1
      /\ UNCHANGED taskVars
  BY DEF Flushes, AddTable
<1>2. \A t \in tables : t.time \in Nat /\ t.time < written + 1
  BY DEF IInv, LevelsTypeOK, Table, Past
<1>3. written \in Nat /\ Top \in Nat /\ \A c \in Task : at[c] \in Nat /\ stamp[c] \in Nat
  BY LevelsAssumption DEF IInv, LevelsTypeOK, Level
<1>4. LevelFit'
  BY <1>1 DEF IInv, LevelFit, Compacting, taskVars
<1>5. SeenFit'
  BY <1>1, <1>2 DEF IInv, SeenFit, taskVars
<1>6. ChosenFit'
  BY <1>1, <1>2 DEF IInv, ChosenFit, OldestOf, AtLevel, taskVars
<1>7. StampFit'
  <2>1. SUFFICES ASSUME NEW c \in Task, phase[c] = "publish"
                 PROVE  /\ stamp[c] <= written + 1
                        /\ \A u \in AtLevel(tables', at[c] + 1) : u.time < stamp[c]
    BY <1>1 DEF StampFit, taskVars
  <2>2. at[c] + 1 # Top
    BY <1>3, <2>1 DEF IInv, LevelFit, Compacting
  <2>3. AtLevel(tables', at[c] + 1) = AtLevel(tables, at[c] + 1)
    BY <1>1, <2>2 DEF AtLevel
  <2> QED BY <1>3, <2>1, <2>3 DEF IInv, StampFit
<1> QED BY <1>4, <1>5, <1>6, <1>7

\* The merged table goes below what was above the tables it replaces, and
\* above the rest.
LEMMA PublishKeeps ==
    ASSUME IInv, NEW c \in Task, Publish(c)
    PROVE  Ordered' /\ Past' /\ Flushed' /\ NothingLost'
<1> DEFINE C == chosen[c]
           l == at[c]
           n == Merged(c)
<1>1. tables' = (tables \ C) \cup {n} /\ written' = written /\ newest' = newest
  BY DEF Publish, TablesAfter
<1>2. n.time = stamp[c] /\ n.level = l + 1 /\ n.entries = MergeTables(C)
  BY DEF Merged
<1>3. /\ l \in Nat /\ stamp[c] \in Nat /\ written \in Nat /\ Top \in Nat
      /\ Top <= l /\ stamp[c] <= written
      /\ \A u \in tables : u.level = l + 1 => u.time < stamp[c]
  BY LevelsAssumption
     DEF IInv, LevelsTypeOK, Level, Publish, LevelFit, Compacting, StampFit, AtLevel
<1>4. OldestOf(C, tables, l)
  BY DEF IInv, ChosenFit, Publish
<1>5. \A t \in tables : t.time \in Nat /\ t.level \in Nat
  BY DEF IInv, LevelsTypeOK, Table, Level
<1>6. \A e \in n.entries : \E t \in C : t \in tables /\ t.level = l /\ e \in t.entries
  BY <1>2, <1>4 DEF MergeTables, EntriesOf, OldestOf, AtLevel
<1> HIDE DEF n
<1>7. ASSUME NEW t \in tables \ C, Above(t, n) PROVE Newer(t, n)
  <2>1. t.level <= l
    BY <1>2, <1>3, <1>5, <1>7 DEF Above
  <2>2. \A u \in C : Above(t, u)
    BY <1>3, <1>4, <1>5, <2>1 DEF Above, OldestOf, AtLevel
  <2>3. \A u \in C : u \in tables
    BY <1>4 DEF OldestOf, AtLevel
  <2>4. \A u \in C : Newer(t, u)
    BY <2>2, <2>3 DEF IInv, Ordered
  <2> QED BY <1>6, <2>4 DEF Newer
<1>8. ASSUME NEW u \in tables \ C, Above(n, u) PROVE Newer(n, u)
  <2>1. l < u.level
    BY <1>2, <1>3, <1>5, <1>8 DEF Above
  <2>2. \A t \in C : t \in tables /\ Above(t, u)
    BY <1>4, <2>1 DEF Above, OldestOf, AtLevel
  <2>3. \A t \in C : Newer(t, u)
    BY <2>2 DEF IInv, Ordered
  <2> QED BY <1>6, <2>3 DEF Newer
<1>9. ~Above(n, n)
  BY <1>2, <1>3 DEF Above
<1>10. Ordered'
  BY <1>1, <1>7, <1>8, <1>9 DEF IInv, Ordered
<1>11. Past'
  BY <1>1, <1>2, <1>3 DEF IInv, Past
<1>12. Flushed'
  BY <1>1, <1>6 DEF IInv, Flushed
<1>13. NothingLost'
  <2>1. SUFFICES ASSUME NEW k \in Key, newest[k] # 0
                 PROVE  [key |-> k, seq |-> newest[k]] \in EntriesOf(tables')
    BY <1>1 DEF NothingLost
  <2> DEFINE e == [key |-> k, seq |-> newest[k]]
  <2>2. PICK t \in tables : e \in t.entries
    BY <2>1 DEF IInv, NothingLost, EntriesOf
  <2>3. CASE t \notin C
    BY <1>1, <2>2, <2>3 DEF EntriesOf
  <2>4. CASE t \in C
    <3>1. \A u \in C : \A d \in u.entries : d.seq <= newest[d.key]
      BY <1>4 DEF IInv, Flushed, OldestOf, AtLevel
    <3>2. e \in MergeTables(C)
      BY <2>2, <2>4, <3>1 DEF MergeTables, EntriesOf
    <3> QED BY <1>1, <1>2, <3>2 DEF EntriesOf
  <2> QED BY <2>3, <2>4
<1> QED BY <1>10, <1>11, <1>12, <1>13

\* Publication leaves no task at work.
LEMMA PublishIdles ==
    ASSUME OneAtATime, IInv, NEW c \in Task, Publish(c)
    PROVE  LevelFit' /\ SeenFit' /\ ChosenFit' /\ StampFit'
<1>1. \A d \in Task : phase'[d] = "idle"
  <2>1. \A d \in Task : d # c => phase[d] = "idle"
    BY DEF OneAtATime, Publish
  <2> QED BY <2>1 DEF IInv, LevelsTypeOK, Publish, Return
<1> QED BY <1>1 DEF LevelFit, SeenFit, ChosenFit, StampFit, Compacting

\* The other steps leave the tree alone.
LEMMA TaskStepKeeps ==
    ASSUME TopLevelsOnly, OneAtATime, OneAtATime', IInv, NEW c \in Task,
           \/ Call(c) \/ Skip(c) \/ EndLoop(c) \/ Need(c)
           \/ Refused(c) \/ Choose(c) \/ Merge(c)
    PROVE  LevelFit' /\ SeenFit' /\ ChosenFit' /\ StampFit'
<1> USE DEF LevelFit, SeenFit, ChosenFit, StampFit, Compacting
<1>0. LevelsTypeOK /\ \A d \in Task : d # c => phase'[d] = "idle"
  <2>1. LevelsTypeOK
    BY DEF IInv
  <2>2. CASE Call(c)
    BY <2>1, <2>2 DEF LevelsTypeOK, OneAtATime, Call
  <2>3. CASE ~Call(c)
    <3>1. \A d \in Task : d # c => phase[d] = "idle"
      BY <2>3 DEF OneAtATime, Skip, EndLoop, Need, Refused, Choose, Merge
    <3> QED BY <2>1, <2>3, <3>1
        DEF LevelsTypeOK, Skip, EndLoop, Need, Refused, Choose, Merge, Return
  <2> QED BY <2>1, <2>2, <2>3
<1>1. CASE Call(c) \/ Skip(c)
  BY <1>0, <1>1 DEF LevelsTypeOK, Call, Skip
<1>2. CASE EndLoop(c) \/ Refused(c)
  BY <1>0, <1>2 DEF LevelsTypeOK, EndLoop, Refused, Return
<1>3. CASE Need(c)
  <2>1. at[c] >= Top /\ at[c] < 2
    BY <1>3, NeedsLevel DEF Need, IInv
  <2> QED BY <1>0, <1>3, <2>1 DEF LevelsTypeOK, Need, tree
<1>4. CASE Choose(c)
  <2>1. PICK C \in CompactingFiles(seen[c], at[c], Percent[c]) :
             chosen' = [chosen EXCEPT ![c] = C]
    BY <1>4 DEF Choose
  <2>2. /\ at[c] \in Level /\ at[c] < 2
        /\ seen[c] \in SUBSET Table /\ seen[c] \subseteq tables
        /\ \A t \in tables \ seen[c] : \A u \in seen[c] : u.time < t.time
    BY <1>0, <1>4 DEF IInv, LevelsTypeOK, Choose
  <2>3. OldestOf(C, seen[c], at[c])
    BY <2>2, PolicyIsOldest
  <2>4. OldestOf(C, tables, at[c])
    BY <2>2, <2>3 DEF OldestOf, AtLevel
  <2>5. chosen'[c] = C
    BY <1>0, <2>1 DEF LevelsTypeOK
  <2> QED BY <1>0, <1>4, <2>4, <2>5 DEF IInv, LevelsTypeOK, Choose
<1>5. CASE Merge(c)
  <2>1. /\ phase[c] = "merge" /\ phase'[c] = "publish"
        /\ stamp'[c] = written + 1 /\ written' = written + 1
        /\ UNCHANGED <<tables, at, seen, chosen>>
    BY <1>0, <1>5 DEF LevelsTypeOK, Merge
  <2>2. \A u \in tables : u.time \in Nat /\ u.time <= written
    BY <1>0 DEF IInv, LevelsTypeOK, Table, Past
  <2>3. written \in Nat
    BY <1>0 DEF LevelsTypeOK
  <2>4. \A u \in AtLevel(tables', at'[c] + 1) : u.time < stamp'[c]
    BY <2>1, <2>2, <2>3 DEF AtLevel
  <2>5. LevelFit' /\ SeenFit'
    BY <1>0, <2>1 DEF IInv
  <2>6. ChosenFit'
    BY <1>0, <2>1 DEF IInv
  <2>7. StampFit'
    <3>1. stamp'[c] <= written'
      BY <2>1, <2>3
    <3> QED BY <1>0, <2>4, <3>1
  <2> QED BY <2>5, <2>6, <2>7
<1> QED BY <1>1, <1>2, <1>3, <1>4, <1>5

LEMMA TaskStepLeavesTree ==
    ASSUME IInv, NEW c \in Task,
           \/ Call(c) \/ Skip(c) \/ EndLoop(c) \/ Need(c)
           \/ Refused(c) \/ Choose(c) \/ Merge(c)
    PROVE  Ordered' /\ Past' /\ Flushed' /\ NothingLost'
<1>1. tables' = tables /\ newest' = newest /\ (written' = written \/ written' = written + 1)
  BY DEF Call, Skip, EndLoop, Need, Refused, Choose, Merge, tree
<1>2. Past'
  BY <1>1 DEF IInv, LevelsTypeOK, Past, Table
<1> QED BY <1>1, <1>2 DEF IInv, Ordered, Flushed, NothingLost

LEMMA IInvStep ==
    ASSUME TopLevelsOnly
    PROVE  IInv /\ OneAtATime /\ OneAtATime' /\ [LevelsNext]_levelsVars => IInv'
<1> SUFFICES ASSUME IInv, OneAtATime, OneAtATime', [LevelsNext]_levelsVars PROVE IInv'
  OBVIOUS
<1>1. LevelsTypeOK' /\ LevelRoom'
  BY LevelsTypeStep DEF IInv
<1>2. CASE \E K \in Batches : Flush(K)
  <2>1. \E E \in SUBSET Entry : Flushes(E)
    BY <1>2, FlushAddsTable DEF IInv
  <2> QED BY <1>1, <2>1, FlushKeeps, FlushKeepsTasks DEF IInv
<1>3. CASE \E c \in Task : Publish(c)
  BY <1>1, <1>3, PublishKeeps, PublishIdles DEF IInv
<1>4. CASE \E c \in Task : \/ Call(c) \/ Skip(c) \/ EndLoop(c) \/ Need(c)
                           \/ Refused(c) \/ Choose(c) \/ Merge(c)
  BY <1>1, <1>4, TaskStepKeeps, TaskStepLeavesTree DEF IInv
<1>5. CASE UNCHANGED levelsVars
  <2>1. UNCHANGED <<tables, written, phase, at, seen, chosen, stamp, newest>>
    BY <1>5 DEF levelsVars, tree, taskVars
  <2> QED BY <1>1, <2>1 DEF IInv, Ordered, Past, Flushed, NothingLost, LevelFit,
             Compacting, SeenFit, ChosenFit, StampFit, Above, Newer, OldestOf
<1> QED BY <1>2, <1>3, <1>4, <1>5 DEF LevelsNext, CompactionStep

LEMMA IInvInit == LevelsInit => IInv
BY LevelsTypeInit DEF LevelsInit, IInv, Ordered, Past, Flushed, NothingLost, LevelFit,
   Compacting, SeenFit, ChosenFit, StampFit

\* As long as no two calls of may_compact overlap, a read of the current
\* version finds the last write of its key, whatever was flushed, merged and
\* moved, for any number of tasks.
THEOREM AloneNewestWins ==
    ASSUME TopLevelsOnly PROVE LevelsSpec => NewestWinsAlone
<1>1. IInv /\ OneAtATime /\ OneAtATime' /\ [LevelsNext]_levelsVars => IInv'
  BY IInvStep
<1>2. IInv => NewestWins
  BY OrderFindsNewest DEF IInv
<1>3. LevelsInit => IInv
  BY IInvInit
<1> QED BY <1>1, <1>2, <1>3, PTL DEF LevelsSpec, NewestWinsAlone
=============================================================================
