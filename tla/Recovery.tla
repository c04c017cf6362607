------------------------------ MODULE Recovery ------------------------------
(***************************************************************************)
(* What a database keeps over crashes and restarts: the pre-write log, the *)
(* tables, the file with the last sequence number, and how init and close  *)
(* use them.                                                               *)
(*                                                                         *)
(* The tables of a version are one set of entries.  A new version is there *)
(* for the process first; then its descriptor is written, the file that    *)
(* names the current version is truncated, and the name is appended.       *)
(* VersionStore has the descriptors and the guards; here the versions are  *)
(* published one at a time, and what a compaction drops is kept.  A crash  *)
(* loses what the process holds, the buffer of the log with it; what was   *)
(* written to a file stays.                                                *)
(***************************************************************************)
EXTENDS Entries

CONSTANTS
    Writer,      \* callers of insert
    Writes,      \* the batches written: sequences of keys
    MemBound,    \* the entries a memtable may hold
    LogRoom,     \* the entries the buffer of the log may hold
    MaxSeq,      \* bound on the sequence numbers used
    MaxStops     \* bound on the number of times the process ends

Stages == {"down", "recover", "truncated", "naming", "open", "closing",
           "flushed", "renumbering", "numbered", "closed"}

\* An entry with the lifetime of the process that wrote it: after a crash a
\* number may be handed out again, and the lifetime tells the two apart.
Written == [key : Key, seq : Nat, life : Nat]

\* The new version was added; the descriptor that the file names was unlinked;
\* the file is empty.
Publishings == {"no", "added", "unlinked", "truncated"}

ASSUME RecoveryAssumption ==
    /\ Writes \subseteq Seq(Key) \ {<<>>}
    /\ MemBound \in Nat /\ LogRoom \in Nat \ {0} /\ MaxSeq \in Nat /\ MaxStops \in Nat

VARIABLES
    logFile,     \* the entries in the file of the pre-write log
    seqFile,     \* the number in the file seqnum; zero when it is empty
    named,       \* the entries of the tables of the version that an opening loads
    disk,        \* the entries of the tables of the process's current version
    publishing,  \* how far the publication of that version has come
    stage,       \* where the process is
    nextSeq,     \* m_newest_unused_seq
    logBuf,      \* the buffer of the log
    mem,         \* m_mem
    flushing,    \* the memtable that was moved out to be flushed
    step,        \* where each writer is in insert
    toLog,       \* the entries it has yet to log
    batch,       \* the entries of its last batch, if any of them is left
    acked,       \* the entries whose insert returned
    lost,        \* those of tables that a crash lost, while a version was
                 \* published or after init truncated the log
    dropped,     \* those of a batch that init recovered and did not insert
    crashed,     \* whether the process crashed
    stops        \* how many times the process ended

files == <<logFile, seqFile, named>>
version == <<disk, publishing>>
processVars == <<stage, nextSeq, logBuf, mem, flushing>>
insertVars == <<step, toLog>>
history == <<batch, acked, lost, dropped, crashed, stops>>
recoveryVars == <<files, version, processVars, insertVars, history>>

Steps == {"idle", "logging", "waiting", "inserting", "flushing", "publishing"}

RecoveryTypeOK ==
    /\ logFile \subseteq Written
    /\ seqFile \in Nat
    /\ named \subseteq Written
    /\ disk \subseteq Written
    /\ publishing \in Publishings
    /\ stage \in Stages
    /\ nextSeq \in Nat \ {0}
    /\ logBuf \subseteq Written
    /\ mem \subseteq Written
    /\ flushing \subseteq Written
    /\ step \in [Writer -> Steps]
    /\ toLog \in [Writer -> SUBSET Written]
    /\ batch \in [Writer -> SUBSET Written]
    /\ acked \subseteq Written
    /\ lost \subseteq Written
    /\ dropped \subseteq Written
    /\ crashed \in BOOLEAN
    /\ stops \in Nat

RecoveryInit ==
    /\ logFile = {} /\ seqFile = 0 /\ named = {}
    /\ disk = {} /\ publishing = "no"
    /\ stage = "down"
    /\ nextSeq = 1
    /\ logBuf = {} /\ mem = {} /\ flushing = {}
    /\ step = [w \in Writer |-> "idle"]
    /\ toLog = [w \in Writer |-> {}]
    /\ batch = [w \in Writer |-> {}]
    /\ acked = {} /\ lost = {} /\ dropped = {}
    /\ crashed = FALSE
    /\ stops = 0

(***************************************************************************)
(* insert                                                                  *)
(***************************************************************************)
\* The mutex of the log is held from the first entry of a batch to the last.
LogMutexFree == \A w \in Writer : step[w] # "logging" \/ toLog[w] = batch[w]
MemMutexFree == \A w \in Writer : step[w] \notin {"inserting", "flushing", "publishing"}

\* A batch is numbered, from nextSeq on.
BatchOf(keys) ==
    {[key |-> e.key, seq |-> e.seq, life |-> stops] : e \in Numbered(keys, nextSeq)}

Insert(w) ==
    /\ stage = "open"
    /\ step[w] = "idle"
    /\ \E keys \in Writes :
          /\ nextSeq + Len(keys) - 1 <= MaxSeq
          /\ batch' = [batch EXCEPT ![w] = BatchOf(keys)]
          /\ toLog' = [toLog EXCEPT ![w] = BatchOf(keys)]
          /\ nextSeq' = nextSeq + Len(keys)
    /\ step' = [step EXCEPT ![w] = "logging"]
    /\ UNCHANGED <<files, version, stage, logBuf, mem, flushing, acked, lost, dropped, crashed,
                   stops>>

\* Mutant: the buffer is not written when the batch is.
Never == FALSE

\* may_flush_impl: the data scale, which nobody increases, is never above its
\* baseline, so the buffer is written at the end of every batch.
FlushesEachBatch == TRUE

\* write_ahead_logger::insert copies the entries in turn to the buffer.
Logs(w) ==
    /\ step[w] = "logging"
    /\ toLog[w] = batch[w] => LogMutexFree

LogFull == Cardinality(logBuf) >= LogRoom

\* There is no room for the next entry: the buffer is written.
WriteLog(w) ==
    /\ Logs(w)
    /\ LogFull
    /\ logFile' = logFile \cup logBuf
    /\ logBuf' = {}
    /\ UNCHANGED <<seqFile, named, version, stage, nextSeq, mem, flushing, insertVars, history>>

\* An entry is copied, and the buffer is written after the last one.
LogEntry(w) ==
    /\ Logs(w)
    /\ ~LogFull
    /\ LET e == CHOOSE e \in toLog[w] : \A d \in toLog[w] : e.seq <= d.seq
           left == toLog[w] \ {e}
       IN  /\ toLog' = [toLog EXCEPT ![w] = left]
           /\ step' = [step EXCEPT ![w] = IF left = {} THEN "waiting" ELSE "logging"]
           /\ IF left = {} /\ FlushesEachBatch
              THEN logFile' = logFile \cup logBuf \cup {e} /\ logBuf' = {}
              ELSE logBuf' = logBuf \cup {e} /\ UNCHANGED logFile
    /\ UNCHANGED <<seqFile, named, version, stage, nextSeq, mem, flushing, history>>

AcquireMem(w) ==
    /\ step[w] = "waiting"
    /\ MemMutexFree
    /\ step' = [step EXCEPT ![w] = "inserting"]
    /\ UNCHANGED <<files, version, processVars, toLog, history>>

\* memtable::could_fit_in
Fits(E) == Cardinality(mem) + Cardinality(E) <= MemBound

InsertMem(w) ==
    /\ step[w] = "inserting"
    /\ Fits(batch[w])
    /\ mem' = mem \cup batch[w]
    /\ acked' = acked \cup batch[w]
    /\ step' = [step EXCEPT ![w] = "idle"]
    /\ UNCHANGED <<files, version, stage, nextSeq, logBuf, flushing, toLog, batch, lost, dropped,
                   crashed, stops>>

MoveMem(w) ==
    /\ step[w] = "inserting"
    /\ ~Fits(batch[w])
    /\ flushing' = mem
    /\ mem' = {}
    /\ step' = [step EXCEPT ![w] = "flushing"]
    /\ UNCHANGED <<files, version, stage, nextSeq, logBuf, toLog, history>>

\* Mutant: the new version has the new tables only.
OnlyNew(E) == E

\* The entries of the tables of the version that a flush adds: it has the
\* tables of the one before, and the new one.
TablesWith(E) == disk \cup E

\* add_new_version, and its descriptor is written.
AddVersion(E) ==
    /\ publishing = "no"
    /\ publishing' = "added"
    /\ disk' = TablesWith(E)

\* flush_to_disk returns at once for an empty memtable; the log keeps its
\* entries.
FlushMem(w) ==
    /\ step[w] = "flushing"
    /\ flushing' = {}
    /\ IF flushing = {}
       THEN step' = [step EXCEPT ![w] = "inserting"] /\ UNCHANGED version
       ELSE step' = [step EXCEPT ![w] = "publishing"] /\ AddVersion(flushing)
    /\ UNCHANGED <<files, stage, nextSeq, logBuf, mem, toLog, history>>

\* A compaction, of init, of an insert, of the background or of close, adds a
\* version too.
CompactPublish ==
    /\ stage \in {"open", "flushed"}
    /\ disk # {}
    /\ AddVersion({})
    /\ UNCHANGED <<files, processVars, insertVars, history>>

(***************************************************************************)
(* A version is published                                                  *)
(***************************************************************************)
\* A collector, which runs once init is done, finds that the version before is
\* not the current one of the process, and unlinks its descriptor, which the
\* file still names.
UnlinkNamed ==
    /\ publishing = "added"
    /\ stage # "naming"
    /\ publishing' = "unlinked"
    /\ named' = {}
    /\ UNCHANGED <<logFile, seqFile, disk, processVars, insertVars, history>>

\* set_current_version_file opens the file, which truncates it: an opening
\* would find no name, and load a version without tables.
TruncateCurrent ==
    /\ publishing \in {"added", "unlinked"}
    /\ publishing' = "truncated"
    /\ named' = {}
    /\ UNCHANGED <<logFile, seqFile, disk, processVars, insertVars, history>>

\* The name is appended, and the flush or the compaction goes on.
AppendCurrent ==
    /\ publishing = "truncated"
    /\ publishing' = "no"
    /\ named' = disk
    /\ stage' = CASE stage = "naming" -> "open"
                   [] stage = "closing" -> "flushed"
                   [] OTHER -> stage
    /\ step' = [w \in Writer |-> IF step[w] = "publishing" THEN "inserting" ELSE step[w]]
    /\ UNCHANGED <<logFile, seqFile, disk, nextSeq, logBuf, mem, flushing, toLog, history>>

(***************************************************************************)
(* init                                                                    *)
(***************************************************************************)
\* Mutant: the number read is handed out again.
LastAgain(next, seq) == IF next - 1 >= seq + 1 THEN next ELSE seq

\* set_init_leatest_used_sequence_number, which never lowers the number.
SetInit(next, seq) == IF next - 1 >= seq + 1 THEN next ELSE seq + 1

\* init: the version that the file names is loaded, the number in seqnum is
\* read, and there may be a log.
Start ==
    /\ stage = "down"
    /\ nextSeq' = SetInit(1, seqFile)
    /\ stage' = IF logFile = {} THEN "open" ELSE "recover"
    /\ disk' = named
    /\ UNCHANGED <<files, publishing, logBuf, mem, flushing, insertVars, history>>

\* recover returns the largest number in the log.
MaxSeqOf(E) == Max({e.seq : e \in E})

\* recover reads the log, and truncate_file empties it; the batch is inserted
\* in a memtable, unless it does not fit, and the memtable is moved out.
TruncateLog ==
    /\ stage = "recover"
    /\ stage' = "truncated"
    /\ logFile' = {}
    /\ flushing' = IF Fits(logFile) THEN mem \cup logFile ELSE mem
    /\ mem' = {}
    /\ nextSeq' = SetInit(nextSeq, MaxSeqOf(logFile))
    /\ IF Fits(logFile)
       THEN UNCHANGED <<batch, dropped>>
       ELSE /\ dropped' = dropped \cup (logFile \ disk)
            /\ batch' = [w \in Writer |-> IF batch[w] \cap disk = {} THEN {} ELSE batch[w]]
    /\ UNCHANGED <<seqFile, named, version, logBuf, insertVars, acked, lost, crashed, stops>>

\* The memtable is flushed; init returns once the version is published.
FlushRecovered ==
    /\ stage = "truncated"
    /\ flushing' = {}
    /\ IF flushing = {}
       THEN stage' = "open" /\ UNCHANGED version
       ELSE stage' = "naming" /\ AddVersion(flushing)
    /\ UNCHANGED <<files, nextSeq, logBuf, mem, insertVars, history>>

(***************************************************************************)
(* close, and the end of the process                                       *)
(***************************************************************************)
\* close is called when every insert has returned, and waits for the
\* compactions of the background.  With an empty memtable it returns at once.
Close ==
    /\ stage = "open"
    /\ publishing = "no"
    /\ \A w \in Writer : step[w] = "idle"
    /\ stops < MaxStops
    /\ mem' = {}
    /\ IF mem = {}
       THEN stage' = "closed" /\ UNCHANGED version
       ELSE stage' = "closing" /\ AddVersion(mem)
    /\ UNCHANGED <<files, nextSeq, logBuf, flushing, insertVars, history>>

\* write_leatest_sequence_number opens the file, which truncates it, ...
TruncateSeqFile ==
    /\ stage = "flushed"
    /\ publishing = "no"
    /\ stage' = "renumbering"
    /\ seqFile' = 0
    /\ UNCHANGED <<logFile, named, version, nextSeq, logBuf, mem, flushing, insertVars, history>>

\* Mutant: one too few.
LastButOne == nextSeq - 2

\* leatest_used_sequence_number
LatestUsed == nextSeq - 1

\* ... and writes it.
WriteSeqFile ==
    /\ stage = "renumbering"
    /\ stage' = "numbered"
    /\ seqFile' = LatestUsed
    /\ UNCHANGED <<logFile, named, version, nextSeq, logBuf, mem, flushing, insertVars, history>>

\* delete_all_prewrite_log
DeleteLog ==
    /\ stage = "numbered"
    /\ stage' = "closed"
    /\ logFile' = {}
    /\ UNCHANGED <<seqFile, named, version, nextSeq, logBuf, mem, flushing, insertVars, history>>

\* What the process holds is lost; a batch of which nothing is left in a file
\* is as if it had not been written.
ProcessGone ==
    /\ stage' = "down"
    /\ nextSeq' = 1
    /\ disk' = {} /\ publishing' = "no"
    /\ logBuf' = {} /\ mem' = {} /\ flushing' = {}
    /\ step' = [w \in Writer |-> "idle"]
    /\ toLog' = [w \in Writer |-> {}]
    /\ batch' = [w \in Writer |->
                      IF batch[w] \cap (logFile \cup named) = {} THEN {} ELSE batch[w]]
    /\ stops' = stops + 1
    /\ UNCHANGED <<files, acked, dropped>>

Exit ==
    /\ stage = "closed"
    /\ ProcessGone
    /\ UNCHANGED <<lost, crashed>>

\* The file names no version that can be loaded.
Unnamed == publishing \in {"unlinked", "truncated"}

\* Init truncated the log, and what it recovered is in no table yet.
Unlogged == stage \in {"truncated", "naming"}

Crash ==
    /\ stage # "down"
    /\ stops < MaxStops
    /\ ProcessGone
    /\ crashed' = TRUE
    /\ lost' = IF Unnamed \/ Unlogged
               THEN lost \cup ((disk \cup flushing) \ (named \cup logFile))
               ELSE lost

WriterStep(w) ==
    \/ Insert(w)
    \/ WriteLog(w)
    \/ LogEntry(w)
    \/ AcquireMem(w)
    \/ InsertMem(w)
    \/ MoveMem(w)
    \/ FlushMem(w)

RecoveryNext ==
    \/ \E w \in Writer : WriterStep(w)
    \/ CompactPublish
    \/ UnlinkNamed
    \/ TruncateCurrent
    \/ AppendCurrent
    \/ Start
    \/ TruncateLog
    \/ FlushRecovered
    \/ Close
    \/ TruncateSeqFile
    \/ WriteSeqFile
    \/ DeleteLog
    \/ Exit
    \/ Crash

RecoverySpec == RecoveryInit /\ [][RecoveryNext]_recoveryVars

(***************************************************************************)
(* Properties, of a database that is open.                                 *)
(***************************************************************************)
Stored == mem \cup flushing \cup disk

\* What an insert that returned wrote is stored, unless init dropped it or a
\* crash lost it, at one of the two moments at which a crash may.
AckedStoredOrLost == stage = "open" => acked \subseteq Stored \cup lost \cup dropped

\* The log is there so that nothing an insert returned for is lost: init stores
\* what it recovers.
NoneDropped == acked \cap dropped = {}

\* A new write has a larger number than what is stored: "let the entries with
\* larger sequence number appear first which will remain".
StoredAreOlder == stage = "open" => \A e \in Stored : e.seq < nextSeq

\* ... if the process never crashed: what close leaves is enough.
StoredAreOlderUnlessCrashed == crashed \/ StoredAreOlder

\* "this `write_batch` batch those writing operations into a single atomic
\* write": of a batch that the buffer of the log, which is empty when the batch
\* begins, has room for, nothing is left after a crash or once init dropped what
\* it recovered, or all of it is stored.
BatchWhole ==
    stage = "open" => \A w \in Writer :
        step[w] = "idle" /\ Cardinality(batch[w]) <= LogRoom => batch[w] \subseteq Stored
=============================================================================
