------------------------- MODULE VersionStoreProofs -------------------------
(***************************************************************************)
(* Proofs about one process lifetime of VersionStore, for any number of    *)
(* tables, versions, updates and readers.                                  *)
(*                                                                         *)
(* NoDanglingGuard and PinnedTablesReadable are not inductive: that a      *)
(* table about to be unlinked is no table of a version needs the tables of *)
(* unreferenced versions too, that fresh names are outside everything in   *)
(* use, and that what a delta holds is registered and complete.            *)
(***************************************************************************)
EXTENDS VersionStore, TLAPS

GuardsPointAlive ==
    /\ running
    /\ current \in alive
    /\ \A r \in Reader : snap[r] # NoVersion => snap[r] \in alive
    /\ \A u \in Updater : held[u] # NoVersion => held[u] \in alive

NamesInUse == alive \subseteq usedVersions /\ reps \subseteq usedFiles

Complete(S) == S \subseteq reps /\ \A f \in S : sst[f] = "whole"

TablesComplete ==
    /\ \A v \in alive : Complete(files[v])
    /\ \A u \in Updater : Complete(added[u]) /\ Complete(compacted[u])
    /\ \A u \in Updater : building[u] \subseteq reps

DoomedOnlyInSweep == gc # "files" => doomed = {}

IInv ==
    /\ TypeOK
    /\ GuardsPointAlive
    /\ NamesInUse
    /\ TablesComplete
    /\ DoomedStayUnreferenced
    /\ DoomedOnlyInSweep

-----------------------------------------------------------------------------
\* Every step keeps the variables in their types, a crash and a reopening too.
LEMMA TypeStep == TypeOK /\ [Next]_vars => TypeOK'
<1> SUFFICES ASSUME TypeOK, [Next]_vars PROVE TypeOK'
  OBVIOUS
<1> USE VersionStoreAssumption DEF TypeOK, Guard, Phase, OnDisk
<1>1. CASE UNCHANGED vars
  BY <1>1 DEF vars, center, updater, collect, disk, fresh
<1>2. ASSUME NEW r \in Reader, ReaderStep(r) PROVE TypeOK'
  BY <1>2 DEF ReaderStep, TakeSnapshot, DropSnapshot, CopySnapshot,
              center, updater, collect, disk, fresh
<1>3. ASSUME NEW u \in Updater, UpdaterStep(u) PROVE TypeOK'
  <2>1. CASE StartFlush(u)
    BY <2>1 DEF StartFlush, center, updater, collect, disk, fresh
  <2>2. ASSUME NEW C \in SUBSET File, StartCompaction(u, C) PROVE TypeOK'
    BY <2>2 DEF StartCompaction, center, updater, collect, disk, fresh
  <2>3. CASE EndMerge(u)
    BY <2>3 DEF EndMerge, center, updater, collect, disk, fresh
  <2>4. ASSUME NEW f \in File, GetFile(u, f) PROVE TypeOK'
    BY <2>4 DEF GetFile, center, updater, collect, disk, fresh
  <2>5. CASE FinishFile(u)
    BY <2>5 DEF FinishFile, center, updater, collect, disk, fresh
  <2>6. ASSUME NEW v \in Version, AddNewVersion(u, v) PROVE TypeOK'
    <3>1. ApplyDelta(files[current], added[u], compacted[u]) \in SUBSET File
      BY <2>6 DEF AddNewVersion, ApplyDelta
    <3> QED BY <2>6, <3>1 DEF AddNewVersion, center, updater, collect, disk, fresh
  <2>7. CASE CreateDescriptor(u)
    BY <2>7 DEF CreateDescriptor, center, updater, collect, disk, fresh
  <2>8. CASE WriteDescriptor(u)
    BY <2>8 DEF WriteDescriptor, center, updater, collect, disk, fresh
  <2>9. CASE TruncateCurrentFile(u)
    BY <2>9 DEF TruncateCurrentFile, NameAfterOpen, center, updater, collect, disk, fresh
  <2>10. CASE AppendCurrentFile(u)
    BY <2>10 DEF AppendCurrentFile, FirstName, center, updater, collect, disk, fresh
  <2> QED BY <1>3, <2>1, <2>2, <2>3, <2>4, <2>5, <2>6, <2>7, <2>8, <2>9, <2>10
          DEF UpdaterStep
<1>4. CASE CollectorStep
  BY <1>4 DEF CollectorStep, GCStart, GCVisitVersion, GCEraseVersions, Survivors, GCPartition, GarbageTables,
              GCUnlinkFile, GCFinish, center, updater, collect, disk, fresh
<1>5. CASE Crash
  <2>1. crashes' \in 0 .. MaxCrashes
    BY <1>5 DEF Crash
  <2>2. /\ running' = FALSE /\ alive' = {} /\ current' = NoVersion /\ reps' = {}
        /\ gc' = "idle" /\ visited' = {} /\ doomed' = {}
        /\ files' \in [Version -> SUBSET File]
    BY <1>5 DEF Crash
  <2>3. /\ snap' \in [Reader -> Guard] /\ phase' \in [Updater -> Phase]
        /\ held' \in [Updater -> Guard] /\ added' \in [Updater -> SUBSET File]
        /\ compacted' \in [Updater -> SUBSET File]
        /\ building' \in [Updater -> SUBSET File]
    BY <1>5 DEF Crash
  <2>4. UNCHANGED <<sst, desc, listed, curFile, usedFiles, usedVersions>>
    BY <1>5 DEF Crash, disk, fresh
  <2> QED BY <2>1, <2>2, <2>3, <2>4
<1>6. ASSUME NEW v \in Version, NEW Z \in SUBSET File, Reopen(v, Z) PROVE TypeOK'
  <2> DEFINE loaded == {v} \cup {w \in Version : desc[w] # "none"}
             content == [w \in Version |->
                           IF w \in loaded /\ desc[w] = "whole" THEN listed[w] ELSE {}]
  <2>1. files' = content /\ content \in [Version -> SUBSET File]
    BY <1>6 DEF Reopen
  <2>2. UNION {content[w] : w \in loaded} \subseteq File
    BY <2>1
  <2>3. reps' \subseteq File
    BY <1>6, <2>2 DEF Reopen
  <2>4. alive' \subseteq Version /\ current' \in Version
    BY <1>6 DEF Reopen
  <2>5. sst' \in [File -> OnDisk] /\ desc' \in [Version -> OnDisk]
    BY <1>6 DEF Reopen
  <2>6. usedVersions' \subseteq Version /\ running' = TRUE
    BY <1>6 DEF Reopen
  <2> HIDE DEF loaded, content
  <2>7. UNCHANGED <<snap, updater, collect, listed, curFile, usedFiles, crashes>>
    BY <1>6 DEF Reopen
  <2> QED BY <2>1, <2>3, <2>4, <2>5, <2>6, <2>7 DEF updater, collect
<1> QED BY <1>1, <1>2, <1>3, <1>4, <1>5, <1>6 DEF Next, RunningStep

LEMMA TypeInit == Init => TypeOK
BY VersionStoreAssumption DEF Init, NoUpdater, NoCollector, TypeOK, Guard, Phase, OnDisk

\* TypeOK holds in every state of every behaviour, crashes included.
THEOREM TypeCorrect == Spec => []TypeOK
BY TypeInit, TypeStep, PTL DEF Spec

-----------------------------------------------------------------------------
\* A step that leaves the lists, the guards and the tables alone keeps IInv.
LEMMA QuietStep ==
    ASSUME IInv, TypeOK', UNCHANGED <<running, center, reps, snap, held, added,
                                      compacted, building, gc, doomed, sst, fresh>>
    PROVE  IInv'
BY DEF IInv, GuardsPointAlive, NamesInUse, TablesComplete, Complete,
       DoomedStayUnreferenced, DoomedOnlyInSweep, FileReferenced, center, fresh

\* The steps of readers.
LEMMA ReaderKeepsIInv ==
    ASSUME IInv, TypeOK', NEW r \in Reader, ReaderStep(r) PROVE IInv'
<1>1. /\ UNCHANGED <<running, center, reps, updater, collect, disk, fresh>>
      /\ \A q \in Reader : snap'[q] # NoVersion => snap'[q] \in alive
  BY DEF ReaderStep, TakeSnapshot, DropSnapshot, CopySnapshot, IInv, TypeOK,
         GuardsPointAlive, center
<1> QED
  BY <1>1 DEF IInv, GuardsPointAlive, NamesInUse, TablesComplete, Complete,
       DoomedStayUnreferenced, DoomedOnlyInSweep, FileReferenced,
       center, updater, collect, disk, fresh

\* The steps of flushes and compactions.
LEMMA UpdaterKeepsIInv ==
    ASSUME IInv, TypeOK', NEW u \in Updater, UpdaterStep(u) PROVE IInv'
<1> USE DEF IInv
<1>1. CASE StartFlush(u) \/ CreateDescriptor(u) \/ WriteDescriptor(u)
           \/ TruncateCurrentFile(u)
  <2>1. UNCHANGED <<running, center, reps, snap, held, added,
                    compacted, building, gc, doomed, sst, fresh>>
    BY <1>1 DEF StartFlush, CreateDescriptor, WriteDescriptor, TruncateCurrentFile,
                collect, disk
  <2> QED BY <2>1, QuietStep
<1>2. ASSUME NEW C \in SUBSET File, StartCompaction(u, C) PROVE IInv'
  BY <1>2 DEF StartCompaction, GuardsPointAlive, NamesInUse, TablesComplete, Complete,
       DoomedStayUnreferenced, DoomedOnlyInSweep, FileReferenced, TypeOK,
       center, collect, disk, fresh
<1>3. CASE EndMerge(u)
  BY <1>3 DEF EndMerge, GuardsPointAlive, NamesInUse, TablesComplete, Complete,
       DoomedStayUnreferenced, DoomedOnlyInSweep, FileReferenced, TypeOK,
       center, collect, disk, fresh
<1>4. ASSUME NEW f \in File, GetFile(u, f) PROVE IInv'
  BY <1>4 DEF GetFile, GuardsPointAlive, NamesInUse, TablesComplete, Complete,
       DoomedStayUnreferenced, DoomedOnlyInSweep, FileReferenced, TypeOK,
       FileMutexFree, center, collect, disk, fresh
<1>5. CASE FinishFile(u)
  BY <1>5 DEF FinishFile, GuardsPointAlive, NamesInUse, TablesComplete, Complete,
       DoomedStayUnreferenced, DoomedOnlyInSweep, FileReferenced, TypeOK,
       center, collect, disk, fresh
<1>6. ASSUME NEW v \in Version, AddNewVersion(u, v) PROVE IInv'
  BY <1>6 DEF AddNewVersion, ApplyDelta, GuardsPointAlive, NamesInUse, TablesComplete,
       Complete, DoomedStayUnreferenced, DoomedOnlyInSweep, FileReferenced, TypeOK,
       center, collect, disk, fresh
<1>7. CASE AppendCurrentFile(u)
  BY <1>7 DEF AppendCurrentFile, FirstName, GuardsPointAlive, NamesInUse, TablesComplete, Complete,
       DoomedStayUnreferenced, DoomedOnlyInSweep, FileReferenced, TypeOK,
       center, collect, disk, fresh
<1> QED BY <1>1, <1>2, <1>3, <1>4, <1>5, <1>6, <1>7 DEF UpdaterStep

\* The steps of the collector.
LEMMA CollectorKeepsIInv ==
    ASSUME IInv, TypeOK', CollectorStep PROVE IInv'
<1> USE DEF IInv
<1>1. CASE GCStart
  BY <1>1 DEF GCStart, GuardsPointAlive, NamesInUse, TablesComplete, Complete,
       DoomedStayUnreferenced, DoomedOnlyInSweep, FileReferenced,
       center, updater, disk, fresh
<1>2. ASSUME NEW v \in Version, GCVisitVersion(v) PROVE IInv'
  <2>1. UNCHANGED <<running, center, reps, snap, held, added,
                    compacted, building, gc, doomed, sst, fresh>>
    BY <1>2 DEF GCVisitVersion, updater
  <2> QED BY <2>1, QuietStep
<1>3. CASE GCEraseVersions
  BY <1>3 DEF GCEraseVersions, Survivors, Referenced, GuardsPointAlive, NamesInUse, TablesComplete,
       Complete, DoomedStayUnreferenced, DoomedOnlyInSweep, FileReferenced, TypeOK,
       updater, disk, fresh
<1>4. CASE GCPartition
  BY <1>4 DEF GCPartition, GarbageTables, GuardsPointAlive, NamesInUse, TablesComplete, Complete,
       DoomedStayUnreferenced, DoomedOnlyInSweep, FileReferenced,
       center, updater, disk, fresh
<1>5. ASSUME NEW f \in File, GCUnlinkFile(f) PROVE IInv'
  BY <1>5 DEF GCUnlinkFile, GuardsPointAlive, NamesInUse, TablesComplete, Complete,
       DoomedStayUnreferenced, DoomedOnlyInSweep, FileReferenced, TypeOK,
       center, updater, disk, fresh
<1>6. CASE GCFinish
  BY <1>6 DEF GCFinish, GuardsPointAlive, NamesInUse, TablesComplete, Complete,
       DoomedStayUnreferenced, DoomedOnlyInSweep, FileReferenced,
       center, updater, disk, fresh
<1> QED BY <1>1, <1>2, <1>3, <1>4, <1>5, <1>6 DEF CollectorStep

-----------------------------------------------------------------------------
LEMMA InitIInv == Init => IInv
BY TypeInit DEF Init, NoUpdater, NoCollector, IInv, GuardsPointAlive, NamesInUse,
   TablesComplete, Complete, DoomedStayUnreferenced, DoomedOnlyInSweep, FileReferenced

LEMMA RunningStepKeepsIInv == IInv /\ [RunningStep]_vars => IInv'
<1> SUFFICES ASSUME IInv, [RunningStep]_vars PROVE IInv'
  OBVIOUS
<1>1. TypeOK'
  BY TypeStep DEF IInv, Next
<1>2. CASE UNCHANGED vars
  BY <1>1, <1>2, QuietStep DEF vars, updater, collect, disk
<1>3. CASE RunningStep
  BY <1>1, <1>3, ReaderKeepsIInv, UpdaterKeepsIInv, CollectorKeepsIInv DEF RunningStep
<1> QED BY <1>2, <1>3

LEMMA Invariance == LifetimeSpec => []IInv
BY InitIInv, RunningStepKeepsIInv, PTL DEF LifetimeSpec

\* No guard is ever left dangling, whatever the interleaving of readers,
\* updates and the collector.
THEOREM GuardsNeverDangle == LifetimeSpec => []NoDanglingGuard
<1>1. IInv => NoDanglingGuard
  BY VersionStoreAssumption
     DEF IInv, TypeOK, Guard, GuardsPointAlive, TablesComplete, Complete,
         NoDanglingGuard, Referenced, FileReferenced
<1> QED BY <1>1, Invariance, PTL

\* The tables of every version that can still be read stay on disk, complete.
THEOREM TablesStayReadable == LifetimeSpec => []PinnedTablesReadable
<1>1. IInv => PinnedTablesReadable
  BY DEF IInv, TablesComplete, Complete, PinnedTablesReadable
<1> QED BY <1>1, Invariance, PTL

\* The assertion in file_center::GC cannot fire, and no table is revived
\* while it waits to be unlinked.
THEOREM DoomedTablesStayDoomed == LifetimeSpec => []DoomedStayUnreferenced
<1>1. IInv => DoomedStayUnreferenced
  BY DEF IInv
<1> QED BY <1>1, Invariance, PTL

\* The reference count of a version never leaves zero.
THEOREM CountsNeverRevive == LifetimeSpec => NoRevival
<1>1. ASSUME IInv, [RunningStep]_vars, NEW v \in alive, ~Referenced(v)
      PROVE  ~Referenced(v)'
  <2> USE <1>1 DEF Referenced
  <2>1. v \in Version /\ v # NoVersion
    BY VersionStoreAssumption DEF IInv, TypeOK
  <2>2. CASE UNCHANGED vars
    BY <2>2 DEF vars, center, updater
  <2>3. ASSUME NEW r \in Reader, ReaderStep(r) PROVE ~Referenced(v)'
    BY <2>1, <2>3 DEF ReaderStep, TakeSnapshot, DropSnapshot, CopySnapshot,
                      center, updater, IInv, TypeOK
  <2>4. ASSUME NEW u \in Updater, UpdaterStep(u) PROVE ~Referenced(v)'
    BY <2>1, <2>4 DEF UpdaterStep, StartFlush, StartCompaction, EndMerge, GetFile,
           FinishFile, AddNewVersion, CreateDescriptor, WriteDescriptor,
           TruncateCurrentFile, AppendCurrentFile, center, updater, IInv, TypeOK,
           NamesInUse
  <2>5. CASE CollectorStep
    BY <2>1, <2>5 DEF CollectorStep, GCStart, GCVisitVersion, GCEraseVersions, Survivors,
           GCPartition, GarbageTables, GCUnlinkFile, GCFinish, center, updater
  <2> QED BY <2>2, <2>3, <2>4, <2>5 DEF RunningStep
<1>2. IInv /\ [RunningStep]_vars
      => [\A v \in alive : ~Referenced(v) => ~Referenced(v)']_vars
  BY <1>1
<1> QED BY <1>2, Invariance, PTL DEF LifetimeSpec, NoRevival

-----------------------------------------------------------------------------
(***************************************************************************)
(* Lifetimes separated by crashes, with one update at a time.              *)
(*                                                                         *)
(* After a crash there may be versions in the list whose tables are gone,  *)
(* since a version can lose its last guard after the collector passed its  *)
(* descriptor; but nobody references them.  What opening loads must be     *)
(* complete: it is the version that the current-version file names, or an  *)
(* empty one.                                                              *)
(***************************************************************************)
Down ==
    ~running => /\ NoUpdater
                /\ NoCollector
                /\ snap = [r \in Reader |-> NoVersion]

GuardsPointAliveIfUp == running => GuardsPointAlive

NamesUsed ==
    /\ NamesInUse
    /\ \A v \in Version : desc[v] # "none" => v \in usedVersions
    /\ \A v \in Version : desc[v] = "whole" => listed[v] \subseteq usedFiles
    /\ \A f \in File : sst[f] # "none" => f \in usedFiles
    /\ curFile # NoVersion => curFile \in usedVersions

WholeTables(S) == \A f \in S : sst[f] = "whole"

ReferencedTablesWhole ==
    /\ \A v \in alive : files[v] \subseteq reps
    /\ \A v \in alive : Referenced(v) => WholeTables(files[v])
    /\ \A u \in Updater : /\ added[u] \cup compacted[u] \cup building[u] \subseteq reps
                          /\ WholeTables(added[u] \cup compacted[u])

\* The version that opening would load has a descriptor.
Described == curFile # NoVersion /\ desc[curFile] = "whole"

Publishing(u) == phase[u] \in {"desc", "write", "truncate", "append"}

\* Its tables are complete: they are those of the current version, or of the
\* one before and held by the update that replaces it.
NamedTablesKept ==
    /\ Described => WholeTables(listed[curFile])
    /\ running /\ Described =>
          \A f \in listed[curFile] :
              f \in files[current] \/ \E u \in Updater : f \in compacted[u]
    /\ running /\ desc[current] = "whole" => listed[current] = files[current]

PublishedInOrder ==
    /\ \A u \in Updater : Publishing(u) => held[u] = current
    /\ \A u \in Updater : phase[u] = "append" => curFile = NoVersion
    /\ running /\ (\A u \in Updater : ~Publishing(u)) =>
          /\ curFile \in {current, NoVersion}
          /\ desc[current] = "whole" => curFile = current

CInv ==
    /\ TypeOK
    /\ Down
    /\ GuardsPointAliveIfUp
    /\ NamesUsed
    /\ ReferencedTablesWhole
    /\ DoomedStayUnreferenced
    /\ DoomedOnlyInSweep
    /\ NamedTablesKept
    /\ PublishedInOrder

LEMMA InitCInv == Init => CInv
<1> SUFFICES ASSUME Init PROVE CInv
  OBVIOUS
<1> USE VersionStoreAssumption DEF Init, NoUpdater, NoCollector
<1>1. TypeOK
  BY TypeInit
<1>2. Down /\ GuardsPointAliveIfUp /\ DoomedStayUnreferenced /\ DoomedOnlyInSweep
  BY DEF Down, GuardsPointAliveIfUp, GuardsPointAlive, DoomedStayUnreferenced, DoomedOnlyInSweep
<1>3. NamesUsed
  BY DEF NamesUsed, NamesInUse
<1>4. ReferencedTablesWhole
  BY DEF ReferencedTablesWhole, WholeTables
<1>5. NamedTablesKept
  BY DEF NamedTablesKept, Described, WholeTables
<1>6. PublishedInOrder
  BY DEF PublishedInOrder, Publishing
<1> QED BY <1>1, <1>2, <1>3, <1>4, <1>5, <1>6 DEF CInv

\* Steps that end the process, and steps that load it again.
LEMMA CrashKeepsCInv ==
    ASSUME CInv, TypeOK', Crash PROVE CInv'
<1>1. /\ running' = FALSE /\ alive' = {} /\ reps' = {}
      /\ snap' = [r \in Reader |-> NoVersion]
      /\ NoUpdater' /\ NoCollector'
      /\ UNCHANGED <<sst, desc, listed, curFile, usedFiles, usedVersions>>
  BY DEF Crash, NoUpdater, NoCollector, disk, fresh
<1>2. Down' /\ GuardsPointAliveIfUp' /\ DoomedStayUnreferenced' /\ DoomedOnlyInSweep'
  BY <1>1 DEF Down, GuardsPointAliveIfUp, DoomedStayUnreferenced, DoomedOnlyInSweep, NoCollector
<1>3. NamesUsed'
  BY <1>1 DEF CInv, NamesUsed, NamesInUse
<1>4. ReferencedTablesWhole'
  BY <1>1 DEF ReferencedTablesWhole, WholeTables, NoUpdater
<1>5. NamedTablesKept'
  BY <1>1 DEF CInv, NamedTablesKept, Described, WholeTables
<1>6. PublishedInOrder'
  BY <1>1 DEF PublishedInOrder, Publishing, NoUpdater
<1> QED BY <1>2, <1>3, <1>4, <1>5, <1>6 DEF CInv

LEMMA ReopenKeepsCInv ==
    ASSUME CInv, TypeOK', NEW v \in Version, NEW Z \in SUBSET File, Reopen(v, Z)
    PROVE  CInv'
<1> DEFINE loaded == {v} \cup {w \in Version : desc[w] # "none"}
           content == [w \in Version |->
                         IF w \in loaded /\ desc[w] = "whole" THEN listed[w] ELSE {}]
<1>1. /\ ~running /\ running' = TRUE
      /\ curFile = NoVersion => v \notin usedVersions
      /\ curFile # NoVersion => v = curFile
      /\ \A f \in Z : sst[f] = "partial"
      /\ usedVersions' = usedVersions \cup {v}
      /\ alive' = loaded /\ current' = v /\ files' = content
      /\ reps' = {f \in File \ Z : sst[f] # "none"} \cup UNION {content[w] : w \in loaded}
      /\ sst' = [f \in File |-> IF f \in Z THEN "none" ELSE sst[f]]
      /\ desc' = IF curFile = v /\ desc[v] = "none" THEN [desc EXCEPT ![v] = "partial"] ELSE desc
      /\ UNCHANGED <<snap, updater, collect, listed, curFile, usedFiles>>
  BY DEF Reopen
<1>2. /\ NoUpdater' /\ NoCollector' /\ snap' = [r \in Reader |-> NoVersion]
  BY <1>1 DEF CInv, Down, NoUpdater, NoCollector, updater, collect
<1>3. /\ \A w \in Version : files'[w] = IF w \in loaded /\ desc[w] = "whole" THEN listed[w] ELSE {}
      /\ \A w \in Version : desc'[w] = "whole" <=> desc[w] = "whole"
      /\ \A w \in Version : desc'[w] # "none" => desc[w] # "none" \/ w = v
      /\ \A f \in File : sst'[f] = "whole" <=> sst[f] = "whole"
      /\ \A f \in File : sst'[f] # "none" => sst[f] # "none"
      /\ v # NoVersion
  BY <1>1, VersionStoreAssumption DEF CInv, TypeOK
<1>4. /\ loaded \subseteq Version /\ v \in loaded
      /\ \A w \in loaded : files'[w] \subseteq reps' /\ content[w] = files'[w]
  BY <1>1
<1> HIDE DEF content
<1>5. reps' \subseteq usedFiles /\ loaded \subseteq usedVersions'
  <2>1. \A w \in loaded : content[w] \subseteq usedFiles
    BY <1>3, <1>4 DEF CInv, NamesUsed
  <2>2. {f \in File \ Z : sst[f] # "none"} \subseteq usedFiles
    BY DEF CInv, NamesUsed
  <2>3. loaded \subseteq usedVersions \cup {v}
    BY DEF CInv, NamesUsed
  <2> HIDE DEF loaded
  <2> QED BY <1>1, <2>1, <2>2, <2>3
<1> HIDE DEF loaded
<1>6. Down' /\ GuardsPointAliveIfUp' /\ DoomedStayUnreferenced' /\ DoomedOnlyInSweep'
  BY <1>1, <1>2, <1>4 DEF Down, GuardsPointAliveIfUp, GuardsPointAlive, DoomedStayUnreferenced,
                          DoomedOnlyInSweep, NoUpdater, NoCollector
<1>7. NamesUsed'
  <2>1. curFile # NoVersion => curFile \in usedVersions
    BY DEF CInv, NamesUsed
  <2>2. \A w \in Version : desc'[w] # "none" => w \in usedVersions'
    BY <1>1, <1>3 DEF CInv, NamesUsed
  <2>3. \A w \in Version : desc'[w] = "whole" => listed'[w] \subseteq usedFiles'
    BY <1>1, <1>3 DEF CInv, NamesUsed
  <2>4. \A f \in File : sst'[f] # "none" => f \in usedFiles'
    BY <1>1, <1>3 DEF CInv, NamesUsed
  <2> QED BY <1>1, <1>5, <2>1, <2>2, <2>3, <2>4 DEF NamesUsed, NamesInUse
<1>8. files'[v] = (IF desc[v] = "whole" THEN listed[v] ELSE {})
  BY <1>3, <1>4
<1>9. desc[v] = "whole" => curFile = v
  BY <1>1 DEF CInv, NamesUsed
<1>10. desc[v] = "whole" => WholeTables(listed[v])
  BY <1>9, <1>3 DEF CInv, NamedTablesKept, Described
<1>11. WholeTables(files[v])' /\ (desc[v] = "whole" => WholeTables(listed[v])')
  <2>1. \A f \in File : sst[f] = "whole" => sst'[f] = "whole"
    BY <1>3
  <2>2. listed[v] \in SUBSET File /\ listed' = listed
    BY <1>1 DEF CInv, TypeOK
  <2>3. desc[v] = "whole" => WholeTables(listed[v])'
    BY <1>10, <2>1, <2>2 DEF WholeTables
  <2> QED BY <1>8, <2>2, <2>3 DEF WholeTables
<1>12. ReferencedTablesWhole'
  <2>1. \A w \in alive' : Referenced(w)' => w = v
    BY <1>1, <1>2, <1>4, VersionStoreAssumption DEF Referenced, NoUpdater
  <2>2. \A u \in Updater : added'[u] = {} /\ compacted'[u] = {} /\ building'[u] = {}
    BY <1>2 DEF NoUpdater
  <2>3. \A w \in alive' : files'[w] \subseteq reps'
    BY <1>1, <1>4
  <2>4. \A w \in alive' : Referenced(w)' => WholeTables(files[w])'
    BY <1>11, <2>1
  <2>5. \A u \in Updater : /\ (added[u] \cup compacted[u] \cup building[u] \subseteq reps)'
                           /\ WholeTables(added[u] \cup compacted[u])'
    BY <2>2 DEF WholeTables
  <2> QED BY <2>3, <2>4, <2>5 DEF ReferencedTablesWhole
<1>13. NamedTablesKept'
  <2>1. Described' => Described /\ curFile = v
    BY <1>1, <1>3 DEF Described
  <2> QED BY <1>1, <1>3, <1>8, <1>11, <2>1 DEF NamedTablesKept, Described
<1>14. PublishedInOrder'
  BY <1>1, <1>2, <1>3, <1>9 DEF PublishedInOrder, Publishing, NoUpdater
<1> QED BY <1>6, <1>7, <1>12, <1>13, <1>14 DEF CInv

\* Readers copy guards.
LEMMA ReaderKeepsCInv ==
    ASSUME CInv, TypeOK', NEW r \in Reader, ReaderStep(r) PROVE CInv'
<1>1. /\ running /\ UNCHANGED <<running, center, reps, updater, collect, disk, fresh>>
      /\ \A q \in Reader : snap'[q] # NoVersion =>
                              snap'[q] = current \/ \E p \in Reader : snap'[q] = snap[p]
  BY DEF ReaderStep, TakeSnapshot, DropSnapshot, CopySnapshot, CInv, TypeOK
<1>2. UNCHANGED <<alive, current, files, phase, held, added, compacted, building, gc, visited,
                  doomed, sst, desc, listed, curFile, usedFiles, usedVersions>>
  BY <1>1 DEF center, updater, collect, disk, fresh
<1>3. \A v \in alive : Referenced(v)' => Referenced(v)
  BY <1>1, <1>2, VersionStoreAssumption DEF Referenced, CInv, TypeOK
<1>4. GuardsPointAlive'
  BY <1>1, <1>2 DEF CInv, GuardsPointAliveIfUp, GuardsPointAlive
<1>5. ReferencedTablesWhole'
  BY <1>1, <1>2, <1>3 DEF CInv, ReferencedTablesWhole, WholeTables
<1>6. NamesUsed'
  BY <1>1, <1>2 DEF CInv, NamesUsed, NamesInUse
<1>7. NamedTablesKept' /\ PublishedInOrder'
  BY <1>1, <1>2 DEF CInv, NamedTablesKept, Described, WholeTables, PublishedInOrder, Publishing
<1>8. DoomedStayUnreferenced' /\ DoomedOnlyInSweep'
  BY <1>1, <1>2 DEF CInv, DoomedStayUnreferenced, DoomedOnlyInSweep, FileReferenced
<1> QED BY <1>1, <1>4, <1>5, <1>6, <1>7, <1>8 DEF CInv, Down, GuardsPointAliveIfUp

\* Updates, one at a time.
LEMMA UpdaterKeepsCInv ==
    ASSUME CInv, TypeOK', NEW u \in Updater, \A w \in Updater : w = u, UpdaterStep(u)
    PROVE  CInv'
<1> USE VersionStoreAssumption DEF CInv, Down, GuardsPointAliveIfUp, GuardsPointAlive, NamesUsed, NamesInUse,
          ReferencedTablesWhole, WholeTables, DoomedStayUnreferenced, DoomedOnlyInSweep,
          NamedTablesKept, Described, PublishedInOrder, Publishing, Referenced, FileReferenced
<1>1. CASE StartFlush(u)
  BY <1>1 DEF StartFlush, TypeOK, Guard, center, collect, disk, fresh
<1>2. CASE EndMerge(u)
  BY <1>2 DEF EndMerge, TypeOK, Guard, center, collect, disk, fresh
<1>3. CASE FinishFile(u)
  BY <1>3 DEF FinishFile, TypeOK, Guard, center, collect, disk, fresh
<1>4. CASE CreateDescriptor(u)
  BY <1>4 DEF CreateDescriptor, TypeOK, Guard, center, collect, disk, fresh
<1>5. CASE WriteDescriptor(u)
  BY <1>5 DEF WriteDescriptor, TypeOK, Guard, center, collect, disk, fresh
<1>6. CASE TruncateCurrentFile(u)
  BY <1>6 DEF TruncateCurrentFile, NameAfterOpen, TypeOK, Guard, center, collect, disk, fresh
<1>7. CASE AppendCurrentFile(u)
  BY <1>7 DEF AppendCurrentFile, FirstName, TypeOK, Guard, center, collect, disk, fresh
<1>8. ASSUME NEW C \in SUBSET File, StartCompaction(u, C) PROVE CInv'
  BY <1>8 DEF StartCompaction, TypeOK, Guard, center, collect, disk, fresh
<1>9. ASSUME NEW f \in File, GetFile(u, f) PROVE CInv'
  BY <1>9 DEF GetFile, FileMutexFree, TypeOK, Guard, center, collect, disk, fresh
<1>10. ASSUME NEW v \in Version, AddNewVersion(u, v) PROVE CInv'
  BY <1>10 DEF AddNewVersion, ApplyDelta, TypeOK, Guard, center, collect, disk, fresh
<1> QED BY <1>1, <1>2, <1>3, <1>4, <1>5, <1>6, <1>7, <1>8, <1>9, <1>10 DEF UpdaterStep

\* The collector unlinks what no version and no update has.
LEMMA CollectorKeepsCInv ==
    ASSUME CInv, TypeOK', CollectorStep PROVE CInv'
<1> USE VersionStoreAssumption DEF CInv, Down, GuardsPointAliveIfUp, GuardsPointAlive, NamesUsed,
          NamesInUse, ReferencedTablesWhole, WholeTables, DoomedStayUnreferenced, DoomedOnlyInSweep,
          NamedTablesKept, Described, PublishedInOrder, Publishing, Referenced, FileReferenced
<1>1. CASE GCStart
  BY <1>1 DEF GCStart, TypeOK, center, updater, disk, fresh
<1>2. ASSUME NEW v \in Version, GCVisitVersion(v) PROVE CInv'
  BY <1>2 DEF GCVisitVersion, TypeOK, center, updater, disk, fresh
<1>3. CASE GCEraseVersions
  BY <1>3 DEF GCEraseVersions, Survivors, TypeOK, center, updater, disk, fresh
<1>4. CASE GCPartition
  BY <1>4 DEF GCPartition, GarbageTables, TypeOK, center, updater, disk, fresh
<1>5. ASSUME NEW f \in File, GCUnlinkFile(f) PROVE CInv'
  BY <1>5 DEF GCUnlinkFile, TypeOK, center, updater, disk, fresh
<1>6. CASE GCFinish
  BY <1>6 DEF GCFinish, TypeOK, center, updater, disk, fresh
<1> QED BY <1>1, <1>2, <1>3, <1>4, <1>5, <1>6 DEF CollectorStep

OneUpdateAtATime == \A u, w \in Updater : u = w

LEMMA StepKeepsCInv ==
    ASSUME OneUpdateAtATime PROVE CInv /\ [Next]_vars => CInv'
<1> SUFFICES ASSUME CInv, [Next]_vars PROVE CInv'
  OBVIOUS
<1>1. TypeOK'
  BY TypeStep DEF CInv
<1>2. CASE UNCHANGED vars
  BY <1>1, <1>2 DEF vars, center, updater, collect, disk, fresh, CInv, Down, NoUpdater, NoCollector,
          GuardsPointAliveIfUp, GuardsPointAlive, NamesUsed,
          NamesInUse, ReferencedTablesWhole, WholeTables, DoomedStayUnreferenced, DoomedOnlyInSweep,
          NamedTablesKept, Described, PublishedInOrder, Publishing, Referenced, FileReferenced
<1>3. CASE RunningStep
  <2>1. ASSUME NEW u \in Updater, UpdaterStep(u) PROVE CInv'
    <3>1. \A w \in Updater : w = u
      BY DEF OneUpdateAtATime
    <3> QED BY <1>1, <2>1, <3>1, UpdaterKeepsCInv
  <2> QED BY <1>1, <1>3, <2>1, ReaderKeepsCInv, CollectorKeepsCInv DEF RunningStep
<1> QED BY <1>1, <1>2, <1>3, CrashKeepsCInv, ReopenKeepsCInv DEF Next

\* With one update at a time, whatever is loaded after any crashes is complete,
\* and stays so as long as somebody may read it.
THEOREM TablesReadableAfterCrashes ==
    ASSUME OneUpdateAtATime PROVE Spec => []PinnedTablesReadable
<1>1. CInv => PinnedTablesReadable
  BY DEF CInv, ReferencedTablesWhole, WholeTables, PinnedTablesReadable
<1>2. CInv /\ [Next]_vars => CInv'
  BY StepKeepsCInv
<1> QED BY <1>1, <1>2, InitCInv, PTL DEF Spec

\* With one update at a time, the version that the next opening loads is the
\* current one whenever no update runs.
THEOREM CurrentIsPersisted ==
    ASSUME OneUpdateAtATime PROVE Spec => []QuiescentCurrentPersisted
<1>1. CInv => QuiescentCurrentPersisted
  BY DEF CInv, PublishedInOrder, Publishing, QuiescentCurrentPersisted
<1>2. CInv /\ [Next]_vars => CInv'
  BY StepKeepsCInv
<1> QED BY <1>1, <1>2, InitCInv, PTL DEF Spec
=============================================================================
