------------------------------- MODULE Levels -------------------------------
(***************************************************************************)
(* The LSM tree of the current version: flushes put a table on the top     *)
(* level, compactions move the oldest tables of a level, merged into one,  *)
(* to the next, and a read takes the first level that holds its key.       *)
(*                                                                         *)
(* A compaction task runs db_local::may_compact: it looks at the levels in *)
(* turn, each time in the version current at that moment, merges, and      *)
(* publishes later.  Several tasks run: one per level in the background,   *)
(* and one inside an insert.  The size bound that splits a merged table is *)
(* not modelled; a tombstone is an entry like any other.                   *)
(***************************************************************************)
EXTENDS Entries

CONSTANTS
    Batches,     \* the sets of keys a flushed memtable may hold
    Task,        \* compaction tasks
    Loops,       \* those that run again and again: the background loops
    From,        \* the level each task starts from
    Percent,     \* the thresh_ratio of each task, in percent
    Top,         \* the level tables enter: 0, or one fed by a compaction
    MaxLevel,    \* options::max_level
    Allowed,     \* options::level_file_number, zero beyond its end
    MaxTables,   \* bound on the tables written
    MaxTop       \* bound on the tables of the top level

Level == 0 .. MaxLevel

ASSUME LevelsAssumption ==
    /\ Batches \subseteq (SUBSET Key) \ {{}}
    /\ Top \in Nat /\ MaxLevel \in Nat /\ Top <= MaxLevel
    /\ Loops \subseteq Task
    /\ From \in [Task -> Level]
    /\ Percent \in [Task -> 1 .. 100]
    /\ Allowed \in [Level -> Nat] /\ Allowed[MaxLevel] = 0
    /\ MaxTables \in Nat /\ MaxTop \in Nat

VARIABLES
    tables,      \* the tables of the current version
    written,     \* number of tables written, and so the latest write time
    busy,        \* compactor::m_mutexes: levels whose flag is set
    phase,       \* where each task is in may_compact
    at,          \* the level it is at
    seen,        \* the tables of the version need_compaction returned
    chosen,      \* version_delta::m_compacted
    stamp,       \* the write time of its merged table
    newest       \* of each key, the sequence number of its last flushed write

tree == <<tables, written, busy>>
taskVars == <<phase, at, seen, chosen, stamp>>
levelsVars == <<tree, taskVars, newest>>

Table == [time : Nat, level : Level, entries : SUBSET Entry]

LevelsTypeOK ==
    /\ tables \subseteq Table
    /\ written \in Nat
    /\ busy \subseteq Level
    /\ phase \in [Task -> {"idle", "look", "need", "merge", "publish"}]
    /\ at \in [Task -> Level]
    /\ seen \in [Task -> SUBSET Table]
    /\ chosen \in [Task -> SUBSET Table]
    /\ stamp \in [Task -> Nat]
    /\ newest \in [Key -> Nat]

(***************************************************************************)
(* Reading a version.                                                      *)
(***************************************************************************)
AtLevel(T, l) == {t \in T : t.level = l}
EntriesOf(T) == UNION {t.entries : t \in T}

\* find_from_ssts: the newest entry of the first level that has one.
FindFromSsts(T, k, s) ==
    UNION {NewestOf(EntriesOf(AtLevel(T, l)), k, s) :
             l \in {l \in Level : \A m \in 0 .. (l - 1) :
                                    OfKey(EntriesOf(AtLevel(T, m)), k, s) = {}}}

(***************************************************************************)
(* Choosing and merging.                                                   *)
(***************************************************************************)
\* is_appropriate_level_file_number; a bound of zero allows any number.
Appropriate(l, num, pct) ==
    LET val == (Allowed[l] * pct) \div 100
    IN  val >= num \/ val = 0

\* sstable::overlapped compares the ranges of user keys.
Overlapped(t, u) ==
    LET A == {e.key : e \in t.entries}
        B == {e.key : e \in u.entries}
    IN  Min(A) <= Max(B) /\ Min(B) <= Max(A)

Oldest(T) == CHOOSE t \in T : \A u \in T : t.time <= u.time

\* compaction_policy_oldest: all but the newest table of the level, and from
\* level 2 on the tables of the next level that overlap the oldest one.
OwnTables(T, l) ==
    {t \in AtLevel(T, l) : \E u \in AtLevel(T, l) : t.time < u.time}
NextTables(T, l) ==
    IF l > 1 THEN {t \in AtLevel(T, l + 1) : Overlapped(Oldest(OwnTables(T, l)), t)}
             ELSE {}

\* How many tables compact keeps of the n the policy returns.
Kept(n, pct) == n - (n * (100 - pct)) \div 100

\* Mutant: the policy sorts by descending write time.
LatestTables(T, l, pct) ==
    LET own == {t \in AtLevel(T, l) : \E u \in AtLevel(T, l) : u.time < t.time}
    IN  {C \in SUBSET own : /\ Cardinality(C) = Kept(Cardinality(own), pct)
                            /\ \A t \in C, u \in own \ C : u.time < t.time}

\* The sets that compact may merge: it drops from the end of the list, where
\* the tables of the next level are, in an order that depends on file sizes.
CompactingFiles(T, l, pct) ==
    LET own == OwnTables(T, l)
        next == NextTables(T, l)
    IN  {C \in SUBSET (own \cup next) :
            /\ Cardinality(C) = Kept(Cardinality(own \cup next), pct)
            /\ \A t \in C, u \in own \ C : t \in own /\ t.time < u.time}

\* merge_tables: of every key, the entry with the largest sequence number.
MergeTables(C) ==
    {e \in EntriesOf(C) : \A d \in EntriesOf(C) : d.key = e.key => d.seq <= e.seq}

(***************************************************************************)
(* Actions.                                                                *)
(***************************************************************************)
LevelsInit ==
    /\ tables = {}
    /\ written = 0
    /\ busy = {}
    /\ phase = [c \in Task |-> "idle"]
    /\ at = From
    /\ seen = [c \in Task |-> {}]
    /\ chosen = [c \in Task |-> {}]
    /\ stamp = [c \in Task |-> 0]
    /\ newest = [k \in Key |-> 0]

\* flush_to_disk: a table with entries E is written and put in a new version.
AddTable(E) ==
    /\ written' = written + 1
    /\ tables' = tables \cup {[time |-> written + 1, level |-> Top, entries |-> E]}
    /\ UNCHANGED <<busy, taskVars>>

\* A memtable with a new write of each key in K is flushed.
Flush(K) ==
    /\ written < MaxTables
    /\ Cardinality(AtLevel(tables, Top)) < MaxTop
    /\ newest' = [k \in Key |-> IF k \in K THEN newest[k] + 1 ELSE newest[k]]
    /\ AddTable({[key |-> k, seq |-> newest[k] + 1] : k \in K})

\* may_compact is called.
Call(c) ==
    /\ phase[c] = "idle"
    /\ phase' = [phase EXCEPT ![c] = "look"]
    /\ UNCHANGED <<tree, at, seen, chosen, stamp, newest>>

NeedsCompaction(c) ==
    ~Appropriate(at[c], Cardinality(AtLevel(tables, at[c])), Percent[c])

\* Mutant: the loop goes one level too far.
OnePastMaxLevel == MaxLevel + 1

\* The bound of the loop in may_compact.
LastLevel == MaxLevel

\* need_compaction says no: on to the next level, ...
Skip(c) ==
    /\ phase[c] = "look"
    /\ ~NeedsCompaction(c)
    /\ at[c] < LastLevel
    /\ at' = [at EXCEPT ![c] = @ + 1]
    /\ UNCHANGED <<tree, phase, seen, chosen, stamp, newest>>

\* may_compact returns.
Return(c) ==
    /\ phase' = [phase EXCEPT ![c] = "idle"]
    /\ at' = [at EXCEPT ![c] = From[c]]
    /\ seen' = [seen EXCEPT ![c] = {}]
    /\ chosen' = [chosen EXCEPT ![c] = {}]
    /\ stamp' = [stamp EXCEPT ![c] = 0]

\* ... or the loop ends.
EndLoop(c) ==
    /\ phase[c] = "look"
    /\ ~NeedsCompaction(c)
    /\ at[c] = LastLevel
    /\ Return(c)
    /\ UNCHANGED <<tree, newest>>

\* need_compaction says yes, and returns a guard of the current version.
Need(c) ==
    /\ phase[c] = "look"
    /\ NeedsCompaction(c)
    /\ phase' = [phase EXCEPT ![c] = "need"]
    /\ seen' = [seen EXCEPT ![c] = tables]
    /\ UNCHANGED <<tree, at, chosen, stamp, newest>>

\* compact returns nothing when the flag of the level is set.
Refused(c) ==
    /\ phase[c] = "need"
    /\ at[c] \in busy
    /\ Return(c)
    /\ UNCHANGED <<tree, newest>>

\* compact sets the flag and chooses tables of the version it was given.
Choose(c) ==
    /\ phase[c] = "need"
    /\ at[c] \notin busy
    /\ busy' = busy \cup {at[c]}
    /\ \E C \in CompactingFiles(seen[c], at[c], Percent[c]) :
           chosen' = [chosen EXCEPT ![c] = C]
    /\ phase' = [phase EXCEPT ![c] = "merge"]
    /\ seen' = [seen EXCEPT ![c] = {}]
    /\ UNCHANGED <<tables, written, at, stamp, newest>>

\* Mutant: the flag stays set.
FlagKept(l) == busy

FlagCleared(l) == busy \ {l}

\* compact returns, which clears the flag; the merged table is written.
Merge(c) ==
    /\ phase[c] = "merge"
    /\ busy' = FlagCleared(at[c])
    /\ written' = written + 1
    /\ stamp' = [stamp EXCEPT ![c] = written + 1]
    /\ phase' = [phase EXCEPT ![c] = "publish"]
    /\ UNCHANGED <<tables, at, seen, chosen, newest>>

Merged(c) ==
    [time |-> stamp[c], level |-> at[c] + 1, entries |-> MergeTables(chosen[c])]

\* Mutant: the delta is applied to the version current when the merge ended.
OntoOldTables(c) ==
    {t \in tables : t.time < stamp[c] /\ t \notin chosen[c]} \cup {Merged(c)}

\* version_rep::operator+= on a copy of the version current now.
TablesAfter(c) == (tables \ chosen[c]) \cup {Merged(c)}

\* update_current_version.
Publish(c) ==
    /\ phase[c] = "publish"
    /\ tables' = TablesAfter(c)
    /\ Return(c)
    /\ UNCHANGED <<written, busy, newest>>

CompactionStep(c) ==
    \/ Skip(c)
    \/ EndLoop(c)
    \/ Need(c)
    \/ Refused(c)
    \/ Choose(c)
    \/ Merge(c)
    \/ Publish(c)

LevelsNext ==
    \/ \E K \in Batches : Flush(K)
    \/ \E c \in Task : Call(c) \/ CompactionStep(c)

LevelsSpec == LevelsInit /\ [][LevelsNext]_levelsVars

\* A compaction under way goes on, and a loop calls may_compact again; that
\* there is another insert is not assumed.
FairLevelsSpec ==
    /\ LevelsSpec
    /\ \A c \in Task : WF_levelsVars(CompactionStep(c))
    /\ \A c \in Loops : WF_levelsVars(Call(c))

(***************************************************************************)
(* Properties.                                                             *)
(***************************************************************************)
\* "Descending sorted list natually let the entries with larger sequence
\* number appear first": what a read finds is the last write of its key,
\* although merging and moving tables changes where the writes are.
NewestWins ==
    \A k \in Key : newest[k] # 0 =>
        FindFromSsts(tables, k, newest[k]) = {[key |-> k, seq |-> newest[k]]}

\* compactor::m_mutexes keep compactions of one level apart only until the
\* merged table is ready.  As long as no two calls of may_compact overlap, ...
OneAtATime == \A c, d \in Task : phase[c] # "idle" /\ phase[d] # "idle" => c = d

\* ... a search finds the last write.
NewestWinsAlone == []OneAtATime => []NewestWins

\* Whatever compactions overlap, the last write of a key is in some table of
\* the current version: deltas computed on an older version are applied to
\* the current one.
NothingLost ==
    \A k \in Key : newest[k] # 0 => [key |-> k, seq |-> newest[k]] \in EntriesOf(tables)

\* A level with too many tables does not stay so: the flag of a level, set
\* and cleared by tasks that refuse each other, never blocks it for good.
OverfullLevelCompacted ==
    \A c \in Loops :
        LET appropriate == Appropriate(From[c], Cardinality(AtLevel(tables, From[c])),
                                       Percent[c])
        IN  ~appropriate ~> appropriate
=============================================================================
