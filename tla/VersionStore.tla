---------------------------- MODULE VersionStore ----------------------------
(***************************************************************************)
(* The version store of FrenzyKV: version_center and file_center, the      *)
(* flushes and compactions that add versions, the snapshots that pin them, *)
(* the garbage collector, and the files all of them leave on disk.         *)
(*                                                                         *)
(* A version is a set of SSTables.  A version_guard or a file_guard is a   *)
(* reference; the reference counts of the code appear here as the sets of  *)
(* their holders, since every guard counts for itself as long as it has a  *)
(* rep.                                                                    *)
(* A process crash loses the memory and the unflushed buffers and keeps    *)
(* what was handed to the operating system.                                *)
(***************************************************************************)
EXTENDS Naturals

CONSTANTS
    File,        \* SSTable names; every one carries a fresh uuid
    Version,     \* version descriptor names; likewise
    Updater,     \* tasks that flush a memtable or compact a level
    Reader,      \* owners of a snapshot: clients, running gets
    NoVersion,   \* the null guard, and an empty current-version file
    MaxCrashes   \* bound on the crashes of a behaviour

ASSUME VersionStoreAssumption ==
    /\ NoVersion \notin Version
    /\ MaxCrashes \in Nat

VARIABLES
    \* memory
    running,     \* the process is up and the store is loaded
    alive,       \* version_center::m_versions
    current,     \* version_center::m_current; always the back of m_versions
    files,       \* version_rep::m_files of every version alive
    reps,        \* file_center::m_reps
    snap,        \* the version_guard each reader holds
    phase,       \* where each updater is
    held,        \* the version_guard each updater holds
    added,       \* file_guards of version_delta::m_added
    compacted,   \* file_guards of version_delta::m_compacted
    building,    \* the file_guard of the SSTable being written, a set of at most one
    gc,          \* where garbage_collector::do_GC is
    visited,     \* versions the descriptor loop of GC_with has passed
    doomed,      \* reps that file_center::GC still has to unlink
    \* disk
    sst,         \* state of every SSTable file
    desc,        \* state of every version descriptor file
    listed,      \* the file names a whole descriptor lists
    curFile,     \* the name that current_version_descriptor starts with
    \* the supply of uuids, and the bound
    usedFiles, usedVersions, crashes

center  == <<alive, current, files>>
updater == <<phase, held, added, compacted, building>>
collect == <<gc, visited, doomed>>
disk    == <<sst, desc, listed, curFile>>
fresh   == <<usedFiles, usedVersions>>
vars    == <<running, center, reps, snap, updater, collect, disk, fresh, crashes>>

Guard == Version \cup {NoVersion}
Phase == {"idle", "merging", "building", "desc", "write", "truncate", "append"}
OnDisk == {"none", "partial", "whole"}

TypeOK ==
    /\ running \in BOOLEAN
    /\ alive \subseteq Version
    /\ current \in Guard /\ (running => current \in Version)
    /\ files \in [Version -> SUBSET File]
    /\ reps \subseteq File
    /\ snap \in [Reader -> Guard]
    /\ phase \in [Updater -> Phase]
    /\ held \in [Updater -> Guard]
    /\ added \in [Updater -> SUBSET File]
    /\ compacted \in [Updater -> SUBSET File]
    /\ building \in [Updater -> SUBSET File]
    /\ gc \in {"idle", "versions", "between", "files"}
    /\ visited \subseteq Version
    /\ doomed \subseteq File
    /\ sst \in [File -> OnDisk]
    /\ desc \in [Version -> OnDisk]
    /\ listed \in [Version -> SUBSET File]
    /\ curFile \in Guard
    /\ usedFiles \subseteq File
    /\ usedVersions \subseteq Version
    /\ crashes \in 0 .. MaxCrashes

(***************************************************************************)
(* Reference counts and locks.                                             *)
(***************************************************************************)
\* approx_ref_count() of a version is not zero.
Referenced(v) ==
    \/ v = current
    \/ \E r \in Reader : snap[r] = v
    \/ \E u \in Updater : held[u] = v

\* Mutant: the guards on the compacted tables die before the update ends.
FileReferencedByResult(f) ==
    \/ \E v \in alive : f \in files[v]
    \/ \E u \in Updater : f \in added[u] \cup building[u]

\* approx_ref_count() of a file is not zero: a version alive, garbage or
\* not, or a running update holds a file_guard on it.
FileReferenced(f) ==
    \/ \E v \in alive : f \in files[v]
    \/ \E u \in Updater : f \in added[u] \cup compacted[u] \cup building[u]

\* version_center::m_modify_lock and file_center::m_mutex are held across a
\* suspension by the collector only.
ModifyLockFree == gc # "versions"
FileMutexFree  == gc # "files"

NoUpdater == /\ phase = [u \in Updater |-> "idle"]
             /\ held = [u \in Updater |-> NoVersion]
             /\ added = [u \in Updater |-> {}]
             /\ compacted = [u \in Updater |-> {}]
             /\ building = [u \in Updater |-> {}]

NoCollector == gc = "idle" /\ visited = {} /\ doomed = {}

\* A database opened on an empty directory: the current version is empty,
\* has a fresh name and no descriptor yet.
Init ==
    /\ running = TRUE
    /\ current \in Version
    /\ alive = {current}
    /\ usedVersions = {current}
    /\ files = [v \in Version |-> {}]
    /\ reps = {}
    /\ snap = [r \in Reader |-> NoVersion]
    /\ NoUpdater
    /\ NoCollector
    /\ sst = [f \in File |-> "none"]
    /\ desc = [v \in Version |-> "none"]
    /\ listed = [v \in Version |-> {}]
    /\ curFile = NoVersion
    /\ usedFiles = {}
    /\ crashes = 0

(***************************************************************************)
(* Readers.                                                                *)
(***************************************************************************)
\* Mutant: the snapshot pins any version of the list, not the current one.
TakeAnySnapshot(r) ==
    /\ running /\ ModifyLockFree
    /\ snap[r] = NoVersion
    /\ \E v \in alive : snap' = [snap EXCEPT ![r] = v]
    /\ UNCHANGED <<running, center, reps, updater, collect, disk, fresh, crashes>>

\* db_local::get_snapshot: current_version() takes the modify lock.
TakeSnapshot(r) ==
    /\ running /\ ModifyLockFree
    /\ snap[r] = NoVersion
    /\ snap' = [snap EXCEPT ![r] = current]
    /\ UNCHANGED <<running, center, reps, updater, collect, disk, fresh, crashes>>

\* A snapshot, or the guard of find_from_ssts, is copied: no lock is taken.
CopySnapshot(r, s) ==
    /\ running
    /\ snap[r] # NoVersion
    /\ snap[s] = NoVersion
    /\ snap' = [snap EXCEPT ![s] = snap[r]]
    /\ UNCHANGED <<running, center, reps, updater, collect, disk, fresh, crashes>>

\* A snapshot is destroyed, at any moment and without a lock.
DropSnapshot(r) ==
    /\ running
    /\ snap[r] # NoVersion
    /\ snap' = [snap EXCEPT ![r] = NoVersion]
    /\ UNCHANGED <<running, center, reps, updater, collect, disk, fresh, crashes>>

(***************************************************************************)
(* Updaters: memtable_flusher::flush_to_disk and db_local::may_compact.    *)
(***************************************************************************)
\* flush_to_disk is entered with m_mem_mutex held (by insert or close), so
\* there is one flush at a time.
StartFlush(u) ==
    /\ running /\ phase[u] = "idle"
    /\ \A w \in Updater : phase[w] # "idle" => compacted[w] # {}
    /\ phase' = [phase EXCEPT ![u] = "building"]
    /\ UNCHANGED <<running, center, reps, snap, held, added, compacted, building,
                   collect, disk, fresh, crashes>>

\* need_compaction returns a guard of the current version; compact moves the
\* files the policy chose, C, into the delta and merges them.
StartCompaction(u, C) ==
    /\ running /\ ModifyLockFree
    /\ phase[u] = "idle"
    /\ C # {} /\ C \subseteq files[current]
    /\ phase' = [phase EXCEPT ![u] = "merging"]
    /\ held' = [held EXCEPT ![u] = current]
    /\ compacted' = [compacted EXCEPT ![u] = C]
    /\ UNCHANGED <<running, center, reps, snap, added, building, collect, disk,
                   fresh, crashes>>

\* compact returns: its version guard is gone, the delta's file guards stay.
EndMerge(u) ==
    /\ running /\ phase[u] = "merging"
    /\ held' = [held EXCEPT ![u] = NoVersion]
    /\ phase' = [phase EXCEPT ![u] = "building"]
    /\ UNCHANGED <<running, center, reps, snap, added, compacted, building, collect,
                   disk, fresh, crashes>>

\* file_center::get_file(name_a_sst(l)) under the file mutex, and the open
\* that creates the file.
GetFile(u, f) ==
    /\ running
    /\ FileMutexFree
    /\ phase[u] = "building" /\ building[u] = {}
    /\ f \notin usedFiles
    /\ usedFiles' = usedFiles \cup {f}
    /\ reps' = reps \cup {f}
    /\ building' = [building EXCEPT ![u] = {f}]
    /\ sst' = [sst EXCEPT ![f] = "partial"]
    /\ UNCHANGED <<running, center, snap, phase, held, added, compacted, collect,
                   desc, listed, curFile, usedVersions, crashes>>

\* The table is written, finished and synced; delta.add_new_file.
FinishFile(u) ==
    /\ running /\ phase[u] = "building" /\ building[u] # {}
    /\ sst' = [f \in File |-> IF f \in building[u] THEN "whole" ELSE sst[f]]
    /\ added' = [added EXCEPT ![u] = @ \cup building[u]]
    /\ building' = [building EXCEPT ![u] = {}]
    /\ UNCHANGED <<running, center, reps, snap, phase, held, compacted, collect,
                   desc, listed, curFile, fresh, crashes>>

\* version_rep::operator+=: the added files, and the old ones not compacted.
ApplyDelta(old, add, comp) == add \cup (old \ comp)

\* add_new_version, operator+= and decay_as_immutable: the lock is released
\* here, before anything about the new version is on disk.
AddNewVersion(u, v) ==
    /\ running /\ ModifyLockFree
    /\ phase[u] = "building" /\ building[u] = {} /\ added[u] # {}
    /\ v \notin usedVersions
    /\ usedVersions' = usedVersions \cup {v}
    /\ alive' = alive \cup {v}
    /\ files' = [files EXCEPT ![v] = ApplyDelta(files[current], added[u], compacted[u])]
    /\ current' = v
    /\ held' = [held EXCEPT ![u] = v]
    /\ phase' = [phase EXCEPT ![u] = "desc"]
    /\ UNCHANGED <<running, reps, snap, added, compacted, building, collect, disk,
                   usedFiles, crashes>>

\* get_seq_writable creates the descriptor file.
CreateDescriptor(u) ==
    /\ running /\ phase[u] = "desc"
    /\ desc' = [desc EXCEPT ![held[u]] = "partial"]
    /\ phase' = [phase EXCEPT ![u] = "write"]
    /\ UNCHANGED <<running, center, reps, snap, held, added, compacted, building,
                   collect, sst, listed, curFile, fresh, crashes>>

\* write_version_descriptor appends the names and syncs.
WriteDescriptor(u) ==
    /\ running /\ phase[u] = "write"
    /\ desc' = [desc EXCEPT ![held[u]] = "whole"]
    /\ listed' = [listed EXCEPT ![held[u]] = files[held[u]]]
    /\ phase' = [phase EXCEPT ![u] = "truncate"]
    /\ UNCHANGED <<running, center, reps, snap, held, added, compacted, building,
                   collect, sst, curFile, fresh, crashes>>

\* Mutant: the current-version file is opened without O_TRUNC.
NameAfterPlainOpen == curFile

\* The name left in the current-version file by open with O_TRUNC.
NameAfterOpen == NoVersion

\* set_current_version_file opens the current-version file with O_TRUNC ...
TruncateCurrentFile(u) ==
    /\ running /\ phase[u] = "truncate"
    /\ curFile' = NameAfterOpen
    /\ phase' = [phase EXCEPT ![u] = "append"]
    /\ UNCHANGED <<running, center, reps, snap, held, added, compacted, building,
                   collect, sst, desc, listed, fresh, crashes>>

\* Mutant: the whole content of the file is taken for the name.
WholeContent(old, v) == IF old = NoVersion THEN v ELSE <<old, v>>

\* What current_descriptor_name reads after v was appended to a file that
\* starts with old.
FirstName(old, v) == IF old = NoVersion THEN v ELSE old

\* ... and O_APPEND, so that of two names appended after the last truncation
\* the first one is read back.  The update ends: its guards are released.
AppendCurrentFile(u) ==
    /\ running /\ phase[u] = "append"
    /\ curFile' = FirstName(curFile, held[u])
    /\ phase' = [phase EXCEPT ![u] = "idle"]
    /\ held' = [held EXCEPT ![u] = NoVersion]
    /\ added' = [added EXCEPT ![u] = {}]
    /\ compacted' = [compacted EXCEPT ![u] = {}]
    /\ UNCHANGED <<running, center, reps, snap, building, collect, sst, desc, listed,
                   fresh, crashes>>

(***************************************************************************)
(* The garbage collector.  do_GC returns at once when another one runs.    *)
(***************************************************************************)
GCStart ==
    /\ running /\ gc = "idle"
    /\ gc' = "versions"
    /\ visited' = {}
    /\ UNCHANGED <<running, center, reps, snap, updater, doomed, disk, fresh, crashes>>

\* GC_with visits the versions and tests each when it reaches it: the
\* descriptor of an unreferenced one is unlinked.
GCVisitVersion(v) ==
    /\ running /\ gc = "versions"
    /\ v \in alive \ visited
    /\ visited' = visited \cup {v}
    /\ desc' = IF Referenced(v) THEN desc ELSE [desc EXCEPT ![v] = "none"]
    /\ UNCHANGED <<running, center, reps, snap, updater, gc, doomed, sst, listed,
                   curFile, fresh, crashes>>

\* Mutants: only the current version survives; all do while a snapshot is out.
CurrentOnly == {current}
AllWhilePinned == {v \in alive : Referenced(v) \/ \E r \in Reader : snap[r] # NoVersion}

\* What erase_if(m_versions, is_garbage_in_mem) leaves.
Survivors == {v \in alive : Referenced(v)}

\* in_mem_GC_impl tests every version again; the modify lock is released.
GCEraseVersions ==
    /\ running /\ gc = "versions"
    /\ alive \subseteq visited
    /\ alive' = Survivors
    /\ files' = [v \in Version |-> IF v \in alive' THEN files[v] ELSE {}]
    /\ visited' = {}
    /\ gc' = "between"
    /\ UNCHANGED <<running, current, reps, snap, updater, doomed, disk, fresh,
                   crashes>>

\* Mutants: the tables of pinned versions are garbage; those of updates are;
\* nothing is garbage while an update runs.
NotInCurrent == {f \in reps : /\ f \notin files[current]
                              /\ \A u \in Updater :
                                   f \notin added[u] \cup compacted[u] \cup building[u]}
NotInVersions == {f \in reps : \A v \in alive : f \notin files[v]}
GarbageWhenQuiet == {f \in reps : ~FileReferenced(f) /\ \A u \in Updater : phase[u] = "idle"}

\* The reps the partition finds unreferenced.
GarbageTables == {f \in reps : ~FileReferenced(f)}

\* file_center::GC: the partition of m_reps.
GCPartition ==
    /\ running /\ gc = "between"
    /\ doomed' = GarbageTables
    /\ gc' = "files"
    /\ UNCHANGED <<running, center, reps, snap, updater, visited, disk, fresh, crashes>>

GCUnlinkFile(f) ==
    /\ running /\ gc = "files"
    /\ f \in doomed
    /\ doomed' = doomed \ {f}
    /\ reps' = reps \ {f}
    /\ sst' = [sst EXCEPT ![f] = "none"]
    /\ UNCHANGED <<running, center, snap, updater, gc, visited, desc, listed, curFile,
                   fresh, crashes>>

GCFinish ==
    /\ running /\ gc = "files"
    /\ doomed = {}
    /\ gc' = "idle"
    /\ UNCHANGED <<running, center, reps, snap, updater, visited, doomed, disk, fresh,
                   crashes>>

(***************************************************************************)
(* Crash and reopening.                                                    *)
(***************************************************************************)
\* A bound of the model: a name is left if the next opening takes a new one.
Crash ==
    /\ running
    /\ crashes < MaxCrashes
    /\ curFile = NoVersion => usedVersions # Version
    /\ crashes' = crashes + 1
    /\ running' = FALSE
    /\ alive' = {} /\ current' = NoVersion
    /\ files' = [v \in Version |-> {}]
    /\ reps' = {}
    /\ snap' = [r \in Reader |-> NoVersion]
    /\ phase' = [u \in Updater |-> "idle"]
    /\ held' = [u \in Updater |-> NoVersion]
    /\ added' = [u \in Updater |-> {}]
    /\ compacted' = [u \in Updater |-> {}]
    /\ building' = [u \in Updater |-> {}]
    /\ gc' = "idle" /\ visited' = {} /\ doomed' = {}
    /\ UNCHANGED <<disk, fresh>>

\* file_center::load_files, which deletes the empty tables Z, and
\* version_center::load_current_version.  v is the name current_descriptor_name
\* reads, or a fresh one when the file is empty.  Opening a descriptor that
\* is missing creates it; get_file registers the tables a descriptor lists
\* even when they are missing.
Reopen(v, Z) ==
    LET loaded == {v} \cup {w \in Version : desc[w] # "none"}
        content == [w \in Version |->
                      IF w \in loaded /\ desc[w] = "whole" THEN listed[w] ELSE {}]
        kept == {f \in File \ Z : sst[f] # "none"}
    IN  /\ ~running
        /\ IF curFile = NoVersion THEN v \notin usedVersions ELSE v = curFile
        /\ \A f \in Z : sst[f] = "partial"
        /\ running' = TRUE
        /\ usedVersions' = usedVersions \cup {v}
        /\ alive' = loaded
        /\ current' = v
        /\ files' = content
        /\ reps' = kept \cup UNION {content[w] : w \in loaded}
        /\ sst' = [f \in File |-> IF f \in Z THEN "none" ELSE sst[f]]
        /\ desc' = IF curFile = v /\ desc[v] = "none"
                   THEN [desc EXCEPT ![v] = "partial"] ELSE desc
        /\ UNCHANGED <<snap, updater, collect, listed, curFile, usedFiles, crashes>>

(***************************************************************************)
(* Specifications.                                                         *)
(***************************************************************************)
ReaderStep(r) ==
    \/ TakeSnapshot(r)
    \/ DropSnapshot(r)
    \/ \E s \in Reader : CopySnapshot(r, s)

UpdaterStep(u) ==
    \/ StartFlush(u)
    \/ \E C \in SUBSET File : StartCompaction(u, C)
    \/ EndMerge(u)
    \/ \E f \in File : GetFile(u, f)
    \/ FinishFile(u)
    \/ \E v \in Version : AddNewVersion(u, v)
    \/ CreateDescriptor(u)
    \/ WriteDescriptor(u)
    \/ TruncateCurrentFile(u)
    \/ AppendCurrentFile(u)

CollectorStep ==
    \/ GCStart
    \/ \E v \in Version : GCVisitVersion(v)
    \/ GCEraseVersions
    \/ GCPartition
    \/ \E f \in File : GCUnlinkFile(f)
    \/ GCFinish

\* Everything that happens while the process is up.
RunningStep ==
    \/ \E r \in Reader : ReaderStep(r)
    \/ \E u \in Updater : UpdaterStep(u)
    \/ CollectorStep

Next ==
    \/ RunningStep
    \/ Crash
    \/ \E v \in Version : \E Z \in SUBSET File : Reopen(v, Z)

\* One process lifetime, and lifetimes separated by crashes.
LifetimeSpec == Init /\ [][RunningStep]_vars
Spec == Init /\ [][Next]_vars

\* The background loop collects again and again.
FairSpec == Spec /\ WF_vars(CollectorStep)

(***************************************************************************)
(* Properties.                                                             *)
(***************************************************************************)
\* A version_guard or a file_guard is never left pointing at a version_rep or
\* a file_rep that the collector has destroyed: GC_with erases list nodes
\* and file_center::GC frees reps while guards are copied and dropped
\* without either lock.
NoDanglingGuard ==
    /\ \A v \in Version : Referenced(v) => v \in alive
    /\ \A f \in File : FileReferenced(f) => f \in reps

\* The assertion of file_rep::open_read: a table of a version somebody can
\* still read, the current one or one pinned by a snapshot or an update, is
\* on disk and complete.  Flushes, compactions and the collector all touch
\* the tables while readers hold older versions.
PinnedTablesReadable ==
    \A v \in alive : Referenced(v) => \A f \in files[v] : sst[f] = "whole"

\* The assertion of file_center::GC: between the partition of the reps and
\* the last unlink nobody gets a guard of a table about to be unlinked.
DoomedStayUnreferenced == \A f \in doomed : ~FileReferenced(f)

\* A reference count that reached zero never rises again, which the erasing
\* loops rely on: a guard is copied from a guard or from the current one.
NoRevival ==
    [][\A v \in alive : ~Referenced(v) => ~Referenced(v)']_vars

\* set_current_version_file is what "Set current version" promises: once
\* no update is running, the version the next open would load is the
\* current one (a version that was never described excepted).
QuiescentCurrentPersisted ==
    (/\ running
     /\ \A u \in Updater : phase[u] = "idle"
     /\ desc[current] = "whole") => curFile = current

\* An unreferenced version leaves the list, and an unreferenced table leaves
\* the disk: the background loop collects again and again, and neither a
\* running update nor a pinned snapshot can hold up the rest, as long as the
\* process is up.
GarbageVersionErased ==
    \A v \in Version : v \in alive /\ ~Referenced(v) ~> v \notin alive

GarbageTableUnlinked ==
    \A f \in File : f \in reps /\ ~FileReferenced(f) ~> sst[f] = "none" \/ ~running

=============================================================================
