--------------------------- MODULE RecoveryProofs ---------------------------
(***************************************************************************)
(* For any number of writers, crashes and restarts: types, where what an   *)
(* insert that returned wrote is, that batches stay whole, and that clean  *)
(* restarts number on.                                                     *)
(***************************************************************************)
EXTENDS Recovery, DataProofs, FiniteSetTheorems

\* Sequence numbers are bounded, so that the log has a largest one.
Bounded(E) == \A e \in E : e.seq <= MaxSeq

Numbers ==
    /\ \A w \in Writer : Bounded(batch[w])
    /\ Bounded(logFile) /\ Bounded(logBuf)

TypeInv ==
    /\ RecoveryTypeOK
    /\ Numbers
    /\ \A w \in Writer : /\ toLog[w] \subseteq batch[w]
                         /\ step[w] = "logging" <=> toLog[w] # {}
                         /\ stage # "open" => step[w] = "idle"
    /\ stage = "recover" => logFile # {}

-----------------------------------------------------------------------------
(***************************************************************************)
(* Types.                                                                  *)
(***************************************************************************)
LEMMA TypeInit == RecoveryInit => TypeInv
<1> SUFFICES ASSUME RecoveryInit PROVE TypeInv
  OBVIOUS
<1> USE DEF RecoveryInit
<1>1. RecoveryTypeOK
  <2>1. stage \in Stages /\ step \in [Writer -> Steps] /\ publishing \in Publishings
    BY DEF Stages, Steps, Publishings
  <2>2. toLog \in [Writer -> SUBSET Written] /\ batch \in [Writer -> SUBSET Written]
    OBVIOUS
  <2>3. crashed \in BOOLEAN
    OBVIOUS
  <2>4. /\ logFile \subseteq Written /\ seqFile \in Nat /\ named \subseteq Written
        /\ disk \subseteq Written /\ nextSeq \in Nat \ {0} /\ logBuf \subseteq Written
        /\ mem \subseteq Written /\ flushing \subseteq Written /\ stops \in Nat
        /\ acked \subseteq Written /\ lost \subseteq Written /\ dropped \subseteq Written
    OBVIOUS
  <2> QED BY <2>1, <2>2, <2>3, <2>4 DEF RecoveryTypeOK
<1>2. Numbers
  BY DEF Numbers, Bounded
<1> QED BY <1>1, <1>2 DEF TypeInv

\* The log has a largest number.
LEMMA MaxSeqType ==
    ASSUME NEW E \in SUBSET Written, E # {}, Bounded(E)
    PROVE  MaxSeqOf(E) \in Nat
<1> DEFINE S == {e.seq : e \in E}
<1>1. S \in SUBSET Nat /\ S # {} /\ \A s \in S : s <= MaxSeq
  BY DEF Written, Bounded
<1>2. MaxSeq \in Nat
  BY RecoveryAssumption
<1> HIDE DEF S
<1>3. Max(S) \in Nat
  BY <1>1, <1>2, MaxOfBounded
<1> QED BY <1>3 DEF MaxSeqOf, S

\* The number is never lowered.
LEMMA SetInitType ==
    ASSUME NEW m \in Nat \ {0}, NEW n \in Nat
    PROVE  SetInit(m, n) \in Nat \ {0} /\ m <= SetInit(m, n)
BY DEF SetInit

\* A batch has the numbers from nextSeq on, and the lifetime it is written in.
LEMMA BatchIs ==
    ASSUME TypeInv, NEW keys \in Writes
    PROVE  /\ BatchOf(keys) \subseteq Written /\ BatchOf(keys) # {}
           /\ Len(keys) \in Nat
           /\ \A e \in BatchOf(keys) : /\ e.life = stops
                                       /\ nextSeq <= e.seq /\ e.seq < nextSeq + Len(keys)
<1> DEFINE N == Numbered(keys, nextSeq)
<1>1. nextSeq \in Nat /\ stops \in Nat
  BY DEF TypeInv, RecoveryTypeOK
<1>2. keys \in Seq(Key) /\ keys # <<>>
  BY RecoveryAssumption
<1>3. /\ N \subseteq Entry /\ Len(keys) \in Nat
      /\ \A e \in N : nextSeq <= e.seq /\ e.seq < nextSeq + Len(keys)
  BY <1>1, <1>2, NumberedIs
<1>4. N # {}
  <2>1. 1 \in DOMAIN keys
    BY <1>2
  <2> QED BY <2>1 DEF Numbered
<1> HIDE DEF N
<1>5. BatchOf(keys) = {[key |-> e.key, seq |-> e.seq, life |-> stops] : e \in N}
  BY DEF BatchOf, N
<1>6. \A e \in N : [key |-> e.key, seq |-> e.seq, life |-> stops] \in Written
  BY <1>1, <1>3 DEF Entry, Written
<1>7. \A e \in BatchOf(keys) : \E d \in N : e = [key |-> d.key, seq |-> d.seq, life |-> stops]
  BY <1>5
<1>8. BatchOf(keys) \subseteq Written
  BY <1>6, <1>7
<1>9. BatchOf(keys) # {}
  BY <1>4, <1>5
<1>10. \A e \in BatchOf(keys) : /\ e.life = stops
                                 /\ nextSeq <= e.seq /\ e.seq < nextSeq + Len(keys)
  BY <1>3, <1>7
<1> QED BY <1>3, <1>8, <1>9, <1>10

\* LogEntry takes one entry, and writes the buffer after the last one.
LEMMA LogEntryIs ==
    ASSUME TypeInv, NEW w \in Writer, LogEntry(w)
    PROVE  \E e \in toLog[w] :
              /\ toLog' = [toLog EXCEPT ![w] = toLog[w] \ {e}]
              /\ step' = [step EXCEPT ![w] = IF toLog[w] \ {e} = {} THEN "waiting" ELSE "logging"]
              /\ IF toLog[w] \ {e} = {}
                 THEN logFile' = logFile \cup logBuf \cup {e} /\ logBuf' = {}
                 ELSE logBuf' = logBuf \cup {e} /\ logFile' = logFile
<1> DEFINE e == CHOOSE e \in toLog[w] : \A d \in toLog[w] : e.seq <= d.seq
<1>1. toLog[w] # {} /\ toLog[w] \in SUBSET Written
  BY DEF LogEntry, Logs, TypeInv, RecoveryTypeOK
<1>2. \E d \in toLog[w] : \A c \in toLog[w] : d.seq <= c.seq
  BY <1>1, FirstOf DEF Written
<1>3. e \in toLog[w]
  BY <1>2
<1>4. /\ toLog' = [toLog EXCEPT ![w] = toLog[w] \ {e}]
      /\ step' = [step EXCEPT ![w] = IF toLog[w] \ {e} = {} THEN "waiting" ELSE "logging"]
      /\ IF toLog[w] \ {e} = {}
         THEN logFile' = logFile \cup logBuf \cup {e} /\ logBuf' = {}
         ELSE logBuf' = logBuf \cup {e} /\ logFile' = logFile
  BY DEF LogEntry, FlushesEachBatch
<1> HIDE DEF e
<1> QED BY <1>3, <1>4

LEMMA InsertType ==
    ASSUME TypeInv, NEW w \in Writer, Insert(w)
    PROVE  TypeInv'
<1> USE DEF TypeInv, RecoveryTypeOK
<1>1. PICK keys \in Writes :
         /\ nextSeq + Len(keys) - 1 <= MaxSeq
         /\ batch' = [batch EXCEPT ![w] = BatchOf(keys)]
         /\ toLog' = [toLog EXCEPT ![w] = BatchOf(keys)]
         /\ nextSeq' = nextSeq + Len(keys)
  BY DEF Insert
<1> DEFINE B == BatchOf(keys)
<1>2. /\ B \subseteq Written /\ B # {} /\ Len(keys) \in Nat
      /\ \A e \in B : e.seq < nextSeq + Len(keys)
  BY BatchIs
<1> HIDE DEF B
<1>3. Bounded(B)
  <2>1. SUFFICES ASSUME NEW e \in B PROVE e.seq <= MaxSeq
    BY DEF Bounded
  <2>2. e.seq \in Nat /\ e.seq < nextSeq + Len(keys) /\ MaxSeq \in Nat
    BY <1>2, RecoveryAssumption DEF Written
  <2> QED BY <1>1, <1>2, <2>2
<1>4. /\ batch' \in [Writer -> SUBSET Written] /\ toLog' \in [Writer -> SUBSET Written]
      /\ nextSeq' \in Nat \ {0}
  BY <1>1, <1>2 DEF B
<1>5. /\ step' \in [Writer -> Steps]
      /\ UNCHANGED <<files, version, stage, logBuf, mem, flushing, acked, lost, dropped, crashed,
                     stops>>
      /\ stage = "open"
  BY DEF Insert, Steps
<1>6. Numbers'
  BY <1>1, <1>3, <1>5 DEF Numbers, Bounded, files, B
<1>7. \A v \in Writer : toLog'[v] \subseteq batch'[v] /\ (step'[v] = "logging" <=> toLog'[v] # {})
  BY <1>1, <1>2 DEF B, Insert
<1> HIDE DEF TypeInv
<1> QED BY <1>4, <1>5, <1>6, <1>7 DEF files, version, TypeInv

\* What a flush adds.
LEMMA AddVersionIs ==
    ASSUME NEW E \in SUBSET Written, AddVersion(E), disk \subseteq Written
    PROVE  /\ publishing = "no" /\ publishing' = "added" /\ disk' = disk \cup E
           /\ disk' \subseteq Written /\ publishing' \in Publishings
BY DEF AddVersion, TablesWith, Publishings

LEMMA WriterType ==
    ASSUME TypeInv, NEW w \in Writer, WriterStep(w)
    PROVE  TypeInv'
<1> USE DEF TypeInv, RecoveryTypeOK
<1>1. CASE Insert(w)
  BY <1>1, InsertType
<1>2. CASE WriteLog(w)
  BY <1>2 DEF WriteLog, version, insertVars, history, Numbers, Bounded, Logs
<1>3. CASE LogEntry(w)
  <2>1. PICK e \in toLog[w] :
           /\ toLog' = [toLog EXCEPT ![w] = toLog[w] \ {e}]
           /\ step' = [step EXCEPT ![w] = IF toLog[w] \ {e} = {} THEN "waiting" ELSE "logging"]
           /\ IF toLog[w] \ {e} = {}
              THEN logFile' = logFile \cup logBuf \cup {e} /\ logBuf' = {}
              ELSE logBuf' = logBuf \cup {e} /\ logFile' = logFile
    BY <1>3, LogEntryIs
  <2>2. UNCHANGED <<seqFile, named, disk, publishing, stage, nextSeq, mem, flushing, history>>
    BY <1>3 DEF LogEntry, version
  <2>3. e \in batch[w] /\ e \in Written
    OBVIOUS
  <2>4. logFile' \subseteq logFile \cup logBuf \cup {e} /\ logBuf' \subseteq logBuf \cup {e}
        /\ logFile \subseteq logFile'
    BY <2>1
  <2>5. Numbers'
    BY <2>2, <2>3, <2>4 DEF Numbers, Bounded, history
  <2> QED BY <2>1, <2>2, <2>3, <2>4, <2>5 DEF Steps, history
<1>4. CASE AcquireMem(w)
  BY <1>4 DEF AcquireMem, files, version, processVars, history, Steps, Numbers, Bounded
<1>5. CASE InsertMem(w)
  BY <1>5 DEF InsertMem, files, version, Steps, Numbers, Bounded
<1>6. CASE MoveMem(w)
  BY <1>6 DEF MoveMem, files, version, history, Steps, Numbers, Bounded
<1>7. CASE FlushMem(w)
  <2>1. /\ step[w] = "flushing" /\ flushing' = {}
        /\ step' \in [Writer -> Steps]
        /\ \A v \in Writer : step'[v] = "logging" <=> step[v] = "logging"
        /\ UNCHANGED <<files, stage, nextSeq, logBuf, mem, toLog, history>>
    BY <1>7 DEF FlushMem, Steps
  <2>2. disk' \subseteq Written /\ publishing' \in Publishings
    BY <1>7, AddVersionIs DEF FlushMem, version
  <2> QED BY <2>1, <2>2 DEF files, history, Numbers, Bounded
<1> QED BY <1>1, <1>2, <1>3, <1>4, <1>5, <1>6, <1>7 DEF WriterStep

\* The steps in which a version is published.
LEMMA PublishType ==
    ASSUME TypeInv, CompactPublish \/ UnlinkNamed \/ TruncateCurrent \/ AppendCurrent
    PROVE  TypeInv'
<1> USE DEF TypeInv, RecoveryTypeOK, Numbers, Bounded
<1>1. CASE CompactPublish
  <2>1. disk' \subseteq Written /\ publishing' \in Publishings
    BY <1>1, AddVersionIs DEF CompactPublish
  <2> QED BY <1>1, <2>1 DEF CompactPublish, files, processVars, insertVars, history
<1>2. CASE UnlinkNamed \/ TruncateCurrent
  BY <1>2 DEF UnlinkNamed, TruncateCurrent, Publishings, processVars, insertVars, history
<1>3. CASE AppendCurrent
  <2>1. /\ publishing' = "no" /\ named' = disk
        /\ UNCHANGED <<logFile, seqFile, disk, nextSeq, logBuf, mem, flushing, toLog, history>>
    BY <1>3 DEF AppendCurrent
  <2>2. stage' \in Stages /\ (stage' # "open" => stage # "open") /\ (stage' = "recover" => stage = "recover")
    BY <1>3 DEF AppendCurrent, Stages
  <2>3. /\ step' \in [Writer -> Steps]
        /\ \A v \in Writer : /\ step'[v] = "logging" <=> step[v] = "logging"
                             /\ step[v] = "idle" => step'[v] = "idle"
    BY <1>3 DEF AppendCurrent, Steps
  <2> QED BY <2>1, <2>2, <2>3 DEF history, Publishings
<1> QED BY <1>1, <1>2, <1>3

LEMMA ProcessType ==
    ASSUME TypeInv, [RecoveryNext]_recoveryVars, ~\E w \in Writer : WriterStep(w)
    PROVE  TypeInv'
<1> USE DEF TypeInv, RecoveryTypeOK, Stages, Numbers, Bounded
<1>1. CASE Start
  <2>1. SetInit(1, seqFile) \in Nat \ {0}
    BY SetInitType
  <2> QED BY <1>1, <2>1 DEF Start, files, insertVars, history
<1>2. CASE TruncateLog
  <2>1. SetInit(nextSeq, MaxSeqOf(logFile)) \in Nat \ {0}
    BY <1>2, MaxSeqType, SetInitType DEF TruncateLog
  <2>2. \A w \in Writer : step[w] = "idle" /\ toLog[w] = {}
    BY <1>2 DEF TruncateLog
  <2>3. /\ stage' = "truncated" /\ logFile' = {} /\ mem' = {}
        /\ flushing' \in {mem \cup logFile, mem}
        /\ UNCHANGED <<seqFile, named, disk, publishing, logBuf, step, toLog, acked, lost, crashed,
                       stops>>
        /\ nextSeq' = SetInit(nextSeq, MaxSeqOf(logFile))
    BY <1>2 DEF TruncateLog, version, insertVars
  <2>4. /\ batch' \in [Writer -> SUBSET Written] /\ dropped' \subseteq Written
        /\ \A w \in Writer : batch'[w] \in {batch[w], {}}
    BY <1>2 DEF TruncateLog
  <2>5. Numbers'
    BY <2>3, <2>4
  <2> QED BY <2>1, <2>2, <2>3, <2>4, <2>5
<1>3. CASE FlushRecovered
  <2>1. disk' \subseteq Written /\ publishing' \in Publishings
    BY <1>3, AddVersionIs DEF FlushRecovered, version
  <2> QED BY <1>3, <2>1 DEF FlushRecovered, files, insertVars, history
<1>4. CASE Close
  <2>1. disk' \subseteq Written /\ publishing' \in Publishings
    BY <1>4, AddVersionIs DEF Close, version
  <2> QED BY <1>4, <2>1 DEF Close, files, insertVars, history
<1>5. CASE TruncateSeqFile
  BY <1>5 DEF TruncateSeqFile, version, insertVars, history
<1>6. CASE WriteSeqFile
  BY <1>6 DEF WriteSeqFile, LatestUsed, version, insertVars, history
<1>7. CASE DeleteLog
  BY <1>7 DEF DeleteLog, version, insertVars, history
<1>8. CASE Exit \/ Crash
  <2>1. ProcessGone
    BY <1>8 DEF Exit, Crash
  <2>2. crashed' \in BOOLEAN /\ lost' \subseteq Written
    BY <1>8 DEF Exit, Crash
  <2>3. batch' \in [Writer -> SUBSET Written] /\ \A w \in Writer : batch'[w] \in {batch[w], {}}
    BY <2>1 DEF ProcessGone
  <2> QED BY <2>1, <2>2, <2>3 DEF ProcessGone, files, Steps, Publishings
<1>9. CASE UNCHANGED recoveryVars
  BY <1>9 DEF recoveryVars, files, version, processVars, insertVars, history
<1> QED BY <1>1, <1>2, <1>3, <1>4, <1>5, <1>6, <1>7, <1>8, <1>9, PublishType DEF RecoveryNext

LEMMA TypeStep == TypeInv /\ [RecoveryNext]_recoveryVars => TypeInv'
BY WriterType, ProcessType

\* The values of the variables have their types, whatever crashes and restarts.
THEOREM RecoveryTypeCorrect == RecoverySpec => []RecoveryTypeOK
<1>1. RecoveryInit => TypeInv
  BY TypeInit
<1>2. TypeInv /\ [RecoveryNext]_recoveryVars => TypeInv'
  BY TypeStep
<1>3. TypeInv => RecoveryTypeOK
  BY DEF TypeInv
<1> QED BY <1>1, <1>2, <1>3, PTL DEF RecoverySpec

-----------------------------------------------------------------------------
(***************************************************************************)
(* Durability.                                                             *)
(***************************************************************************)
\* Entries that were logged are in the file of the log or in its buffer, and
\* in the file when the log has returned.
Logged(w) ==
    /\ step[w] = "logging" => batch[w] \ toLog[w] \subseteq logFile \cup logBuf
    /\ step[w] \in {"waiting", "inserting", "flushing", "publishing"} => batch[w] \subseteq logFile

\* Only an open database has inserts, and memtables but for the recovered one.
Holding(w) == step[w] \in {"inserting", "flushing", "publishing"}

Quiet ==
    /\ \A v, w \in Writer : Holding(v) /\ Holding(w) => v = w
    /\ stage # "open" => mem = {}
    /\ stage # "open" /\ stage # "truncated" => flushing = {}
    /\ stage = "open" /\ flushing # {} => \E w \in Writer : step[w] = "flushing"

\* Between publications the file names the current version.  While one is under
\* way, what the file does not name is in the log, unless init truncated it or
\* the file names nothing.
Named ==
    /\ publishing # "no" => stage \in {"naming", "open", "closing", "flushed"}
    /\ publishing = "no" /\ stage # "down" => named = disk
    /\ publishing = "added" /\ ~Unlogged => disk \subseteq named \cup logFile
    /\ stage = "open" => mem \cup flushing \subseteq logFile

\* What an opening finds, or what there is of it as long as no crash comes.
Persisted ==
    CASE stage = "down" -> named \cup logFile
      [] stage \in {"truncated", "naming"} -> disk \cup flushing
      [] stage \in {"recover", "open"} -> disk \cup logFile
      [] OTHER -> disk

Durable ==
    /\ acked \subseteq Persisted \cup lost \cup dropped
    /\ stage = "open" => acked \subseteq Stored \cup lost \cup dropped

SafeInv ==
    /\ \A w \in Writer : Logged(w)
    /\ Quiet
    /\ Named
    /\ Durable

LEMMA SafeInit == RecoveryInit => SafeInv
<1> SUFFICES ASSUME RecoveryInit PROVE SafeInv
  OBVIOUS
<1> USE DEF RecoveryInit
<1>1. \A w \in Writer : Logged(w)
  BY DEF Logged
<1>2. Quiet
  BY DEF Quiet, Holding
<1>3. Named
  BY DEF Named
<1>4. Durable
  BY DEF Durable, Persisted
<1> QED BY <1>1, <1>2, <1>3, <1>4 DEF SafeInv

\* While a batch is logged, what is on the way to the file is not lost.
LEMMA LogKeeps ==
    ASSUME TypeInv, SafeInv, NEW w \in Writer, WriteLog(w) \/ LogEntry(w)
    PROVE  SafeInv'
<1> USE DEF TypeInv, RecoveryTypeOK
<1>1. /\ UNCHANGED <<named, disk, publishing, stage, mem, flushing, acked, lost, dropped, batch>>
      /\ logFile \subseteq logFile' /\ logFile \cup logBuf \subseteq logFile' \cup logBuf'
      /\ step[w] = "logging" /\ step'[w] \in {"logging", "waiting"}
      /\ \A v \in Writer \ {w} : step'[v] = step[v] /\ toLog'[v] = toLog[v]
  <2>1. CASE WriteLog(w)
    BY <2>1 DEF WriteLog, Logs, version, insertVars, history
  <2>2. CASE LogEntry(w)
    BY <2>2, LogEntryIs DEF LogEntry, Logs, version, history
  <2> QED BY <2>1, <2>2
<1>2. Logged(w)'
  <2>1. CASE WriteLog(w)
    BY <2>1 DEF WriteLog, Logs, insertVars, history, Logged, SafeInv
  <2>2. CASE LogEntry(w)
    <3>1. PICK e \in toLog[w] :
             /\ toLog' = [toLog EXCEPT ![w] = toLog[w] \ {e}]
             /\ step' = [step EXCEPT ![w] = IF toLog[w] \ {e} = {} THEN "waiting" ELSE "logging"]
             /\ IF toLog[w] \ {e} = {}
                THEN logFile' = logFile \cup logBuf \cup {e} /\ logBuf' = {}
                ELSE logBuf' = logBuf \cup {e} /\ logFile' = logFile
      BY <2>2, LogEntryIs
    <3>2. batch[w] \ toLog[w] \subseteq logFile \cup logBuf
      BY <1>1 DEF SafeInv, Logged
    <3> QED BY <1>1, <3>1, <3>2 DEF Logged
  <2> QED BY <2>1, <2>2
<1>3. \A v \in Writer \ {w} : Logged(v)'
  BY <1>1 DEF SafeInv, Logged
<1>4. Quiet'
  <2>1. stage = "open"
    BY <1>1
  <2>2. \A v \in Writer : Holding(v)' <=> Holding(v)
    BY <1>1 DEF Holding
  <2>3. \A v \in Writer : step[v] = "flushing" => step'[v] = "flushing"
    BY <1>1
  <2> QED BY <1>1, <2>1, <2>2, <2>3 DEF SafeInv, Quiet
<1>5. Named'
  BY <1>1 DEF SafeInv, Named, Unlogged
<1>6. Durable'
  BY <1>1 DEF SafeInv, Durable, Persisted, Stored
<1> QED BY <1>2, <1>3, <1>4, <1>5, <1>6 DEF SafeInv

LEMMA InsertKeeps ==
    ASSUME TypeInv, SafeInv, NEW w \in Writer, Insert(w) \/ AcquireMem(w)
    PROVE  SafeInv'
<1> USE DEF TypeInv, RecoveryTypeOK
<1>1. /\ UNCHANGED <<logFile, named, logBuf, disk, publishing, stage, mem, flushing, acked, lost,
                     dropped>>
      /\ step[w] \in {"idle", "waiting"}
      /\ step[w] = "idle" => step'[w] = "logging" /\ batch'[w] = toLog'[w]
      /\ step[w] = "waiting" => step'[w] = "inserting" /\ batch'[w] = batch[w] /\ MemMutexFree
      /\ \A v \in Writer \ {w} : step'[v] = step[v] /\ toLog'[v] = toLog[v] /\ batch'[v] = batch[v]
  BY DEF Insert, AcquireMem, files, version, processVars, history
<1>2. \A v \in Writer : Logged(v)'
  BY <1>1 DEF SafeInv, Logged
<1>3. Quiet'
  <2>1. stage = "open"
    <3>1. CASE Insert(w)
      BY <3>1 DEF Insert
    <3>2. CASE AcquireMem(w)
      <4>1. step[w] # "idle"
        BY <3>2 DEF AcquireMem
      <4> QED BY <4>1
    <3> QED BY <3>1, <3>2
  <2>2. \A v \in Writer \ {w} : Holding(v)' <=> Holding(v)
    BY <1>1 DEF Holding
  <2>3. Holding(w)' => \A v \in Writer \ {w} : ~Holding(v)
    BY <1>1 DEF Holding, MemMutexFree
  <2>4. \A v \in Writer : step[v] = "flushing" => step'[v] = "flushing"
    BY <1>1
  <2> QED BY <1>1, <2>1, <2>2, <2>3, <2>4 DEF SafeInv, Quiet
<1>4. Named'
  BY <1>1 DEF SafeInv, Named, Unlogged
<1>5. Durable'
  BY <1>1 DEF SafeInv, Durable, Persisted, Stored
<1> QED BY <1>2, <1>3, <1>4, <1>5 DEF SafeInv

\* What is inserted is in the log and in the memtable.
LEMMA InsertMemKeeps ==
    ASSUME TypeInv, SafeInv, NEW w \in Writer, InsertMem(w)
    PROVE  SafeInv'
<1> USE DEF TypeInv, RecoveryTypeOK
<1>1. /\ mem' = mem \cup batch[w] /\ acked' = acked \cup batch[w]
      /\ step[w] = "inserting" /\ step' = [step EXCEPT ![w] = "idle"]
      /\ UNCHANGED <<logFile, named, logBuf, disk, publishing, stage, flushing, toLog, batch, lost,
                     dropped>>
  BY DEF InsertMem, files, version
<1>2. stage = "open"
  BY <1>1
<1>3. \A v \in Writer : Logged(v)'
  BY <1>1 DEF SafeInv, Logged
<1>4. Quiet'
  <2>1. \A v \in Writer : Holding(v)' => Holding(v)
    BY <1>1 DEF Holding
  <2>2. flushing = {}
    BY <1>1, <1>2 DEF SafeInv, Quiet, Holding
  <2> QED BY <1>1, <1>2, <2>1, <2>2 DEF SafeInv, Quiet
<1>5. batch[w] \subseteq logFile
  BY <1>1 DEF SafeInv, Logged
<1>6. Named'
  BY <1>1, <1>2, <1>5 DEF SafeInv, Named, Unlogged
<1>7. Durable'
  BY <1>1, <1>2, <1>5 DEF SafeInv, Durable, Persisted, Stored
<1> QED BY <1>3, <1>4, <1>6, <1>7 DEF SafeInv

\* A memtable that is moved out and flushed stays stored.
LEMMA FlushKeeps ==
    ASSUME TypeInv, SafeInv, NEW w \in Writer, MoveMem(w) \/ FlushMem(w)
    PROVE  SafeInv'
<1> USE DEF TypeInv, RecoveryTypeOK
<1>0. /\ step[w] \in {"inserting", "flushing"}
      /\ UNCHANGED <<logFile, named, logBuf, stage, toLog, batch, acked, lost, dropped>>
      /\ \A v \in Writer \ {w} : step'[v] = step[v]
      /\ step'[w] \in {"inserting", "flushing", "publishing"}
  <2>1. CASE MoveMem(w)
    BY <2>1 DEF MoveMem, files, version, history
  <2>2. CASE FlushMem(w)
    BY <2>2 DEF FlushMem, files, history
  <2> QED BY <2>1, <2>2
<1>1. stage = "open" /\ Holding(w)
  BY <1>0 DEF Holding
<1>2. \A v \in Writer : Logged(v)'
  BY <1>0 DEF SafeInv, Logged
<1>3. /\ \A v \in Writer : Holding(v)' <=> Holding(v)
      /\ \A v \in Writer : Holding(v) => v = w
  <2>1. \A v \in Writer : Holding(v)' <=> Holding(v)
    BY <1>0 DEF Holding
  <2>2. \A v \in Writer : Holding(v) => v = w
    BY <1>1 DEF SafeInv, Quiet
  <2> QED BY <2>1, <2>2
<1>4. CASE MoveMem(w)
  <2>1. /\ flushing' = mem /\ mem' = {} /\ disk' = disk /\ publishing' = publishing
        /\ step'[w] = "flushing" /\ step[w] = "inserting"
    BY <1>4 DEF MoveMem, files, version
  <2>2. flushing = {}
    BY <1>1, <1>3, <2>1 DEF SafeInv, Quiet, Holding
  <2>3. Quiet'
    BY <1>0, <1>1, <1>3, <2>1 DEF SafeInv, Quiet
  <2>4. Named'
    BY <1>0, <1>1, <2>1 DEF SafeInv, Named, Unlogged
  <2>5. Durable'
    BY <1>0, <1>1, <2>1, <2>2 DEF SafeInv, Durable, Persisted, Stored
  <2> QED BY <1>2, <2>3, <2>4, <2>5 DEF SafeInv
<1>5. CASE FlushMem(w)
  <2>1. /\ disk' = disk \cup flushing /\ flushing' = {} /\ mem' = mem
        /\ \/ UNCHANGED <<disk, publishing>>
           \/ publishing = "no" /\ publishing' = "added"
    BY <1>5, AddVersionIs DEF FlushMem, version
  <2>2. Quiet'
    BY <1>0, <1>1, <1>3, <2>1 DEF SafeInv, Quiet
  <2>3. Named'
    <3>1. publishing = "no" => named = disk
      BY <1>1 DEF SafeInv, Named
    <3>2. flushing \subseteq logFile
      BY <1>1 DEF SafeInv, Named
    <3> QED BY <1>0, <1>1, <2>1, <3>1, <3>2 DEF SafeInv, Named, Unlogged
  <2>4. Durable'
    BY <1>0, <1>1, <2>1 DEF SafeInv, Durable, Persisted, Stored
  <2> QED BY <1>2, <2>2, <2>3, <2>4 DEF SafeInv
<1> QED BY <1>4, <1>5

\* A version is published: until the name is appended, the log or the tables
\* that the process has keep what was there.
LEMMA PublishKeeps ==
    ASSUME TypeInv, SafeInv, CompactPublish \/ UnlinkNamed \/ TruncateCurrent \/ AppendCurrent
    PROVE  SafeInv'
<1> USE DEF TypeInv, RecoveryTypeOK
<1>1. CASE CompactPublish
  <2>1. /\ stage \in {"open", "flushed"} /\ publishing = "no" /\ publishing' = "added"
        /\ disk' = disk
        /\ UNCHANGED <<logFile, named, stage, logBuf, mem, flushing, step, toLog, batch, acked, lost,
                       dropped>>
    BY <1>1, AddVersionIs DEF CompactPublish, files, processVars, insertVars, history
  <2>2. named = disk
    BY <2>1 DEF SafeInv, Named
  <2> QED BY <2>1, <2>2 DEF SafeInv, Logged, Quiet, Holding, Named, Unlogged, Durable, Persisted,
                            Stored
<1>2. CASE UnlinkNamed \/ TruncateCurrent
  <2>1. /\ publishing # "no" /\ publishing' \in {"unlinked", "truncated"}
        /\ UNCHANGED <<logFile, disk, stage, logBuf, mem, flushing, step, toLog, batch, acked, lost,
                       dropped>>
    BY <1>2 DEF UnlinkNamed, TruncateCurrent, processVars, insertVars, history
  <2>2. stage # "down"
    BY <2>1 DEF SafeInv, Named
  <2> QED BY <2>1, <2>2 DEF SafeInv, Logged, Quiet, Holding, Named, Unlogged, Durable, Persisted,
                            Stored
<1>3. CASE AppendCurrent
  <2>1. /\ publishing = "truncated" /\ publishing' = "no" /\ named' = disk
        /\ UNCHANGED <<logFile, disk, logBuf, mem, flushing, toLog, batch, acked, lost, dropped>>
    BY <1>3 DEF AppendCurrent, history
  <2>2. stage \in {"naming", "open", "closing", "flushed"}
    BY <2>1 DEF SafeInv, Named
  <2>3. \/ stage = "naming" /\ stage' = "open"
        \/ stage = "closing" /\ stage' = "flushed"
        \/ stage' = stage /\ stage \in {"open", "flushed"}
    BY <1>3, <2>2 DEF AppendCurrent
  <2>4. /\ \A w \in Writer : \/ step[w] = "publishing" /\ step'[w] = "inserting"
                             \/ step[w] # "publishing" /\ step'[w] = step[w]
    BY <1>3 DEF AppendCurrent
  <2>5. \A w \in Writer : Logged(w)'
    BY <2>1, <2>4 DEF SafeInv, Logged
  <2>6. stage = "naming" => mem = {} /\ flushing = {}
    BY DEF SafeInv, Quiet
  <2>7. Quiet'
    <3>1. \A w \in Writer : Holding(w)' <=> Holding(w)
      BY <2>4 DEF Holding
    <3>2. \A w \in Writer : step[w] = "flushing" => step'[w] = "flushing"
      BY <2>4
    <3> QED BY <2>1, <2>3, <2>6, <3>1, <3>2 DEF SafeInv, Quiet
  <2>8. Named'
    BY <2>1, <2>2, <2>3, <2>6 DEF SafeInv, Named, Unlogged
  <2>9. Durable'
    BY <2>1, <2>2, <2>3, <2>6 DEF SafeInv, Durable, Persisted, Stored
  <2> QED BY <2>5, <2>7, <2>8, <2>9 DEF SafeInv
<1> QED BY <1>1, <1>2, <1>3

\* The start, the stop and the crash of the process.
LEMMA ProcessKeeps ==
    ASSUME TypeInv, SafeInv, [RecoveryNext]_recoveryVars, ~\E w \in Writer : WriterStep(w)
    PROVE  SafeInv'
<1> USE DEF TypeInv, RecoveryTypeOK
<1>1. ASSUME \A w \in Writer : step'[w] = "idle" PROVE \A w \in Writer : Logged(w)' /\ ~Holding(w)'
  BY <1>1 DEF Logged, Holding
<1>2. CASE Start
  <2>1. /\ stage = "down" /\ stage' = (IF logFile = {} THEN "open" ELSE "recover")
        /\ disk' = named
        /\ UNCHANGED <<logFile, named, publishing, mem, flushing, step, acked, lost, dropped>>
    BY <1>2 DEF Start, files, insertVars, history
  <2>2. mem = {} /\ flushing = {} /\ publishing = "no" /\ \A w \in Writer : step[w] = "idle"
    BY <2>1 DEF SafeInv, Quiet, Named
  <2>3. Quiet'
    BY <1>1, <2>1, <2>2 DEF Quiet
  <2>4. Named'
    BY <2>1, <2>2 DEF Named
  <2>5. Durable'
    BY <2>1, <2>2 DEF SafeInv, Durable, Persisted, Stored
  <2> QED BY <1>1, <2>1, <2>2, <2>3, <2>4, <2>5 DEF SafeInv
<1>3. CASE TruncateLog
  <2>1. /\ stage = "recover" /\ stage' = "truncated"
        /\ Fits(logFile) => flushing' = mem \cup logFile /\ dropped' = dropped
        /\ ~Fits(logFile) => dropped' = dropped \cup (logFile \ disk)
        /\ mem' = {}
        /\ UNCHANGED <<named, disk, publishing, step, acked, lost>>
    BY <1>3 DEF TruncateLog, version, insertVars
  <2>2. \A w \in Writer : step[w] = "idle"
    BY <2>1
  <2>3. Quiet'
    BY <1>1, <2>1, <2>2 DEF Quiet
  <2>4. publishing = "no"
    BY <2>1 DEF SafeInv, Named
  <2>5. Named'
    BY <2>1, <2>4 DEF SafeInv, Named
  <2>6. Durable'
    BY <2>1 DEF SafeInv, Durable, Persisted
  <2> QED BY <1>1, <2>1, <2>2, <2>3, <2>5, <2>6 DEF SafeInv
<1>4. CASE FlushRecovered
  <2>1. /\ stage = "truncated" /\ flushing' = {} /\ disk' = disk \cup flushing
        /\ \/ stage' = "open" /\ flushing = {} /\ publishing' = publishing
           \/ stage' = "naming" /\ publishing' = "added"
        /\ UNCHANGED <<logFile, named, mem, step, acked, lost, dropped>>
    BY <1>4, AddVersionIs DEF FlushRecovered, files, version, insertVars, history
  <2>2. mem = {} /\ publishing = "no" /\ \A w \in Writer : step[w] = "idle"
    BY <2>1 DEF SafeInv, Quiet, Named
  <2>3. Quiet'
    BY <1>1, <2>1, <2>2 DEF Quiet
  <2>4. Named'
    BY <2>1, <2>2 DEF SafeInv, Named, Unlogged
  <2>5. Durable'
    BY <2>1 DEF SafeInv, Durable, Persisted, Stored
  <2> QED BY <1>1, <2>1, <2>2, <2>3, <2>4, <2>5 DEF SafeInv
<1>5. CASE Close
  <2>1. /\ stage = "open" /\ \A w \in Writer : step[w] = "idle"
        /\ publishing = "no" /\ mem' = {} /\ disk' = disk \cup mem
        /\ \/ stage' = "closed" /\ publishing' = "no" /\ mem = {}
           \/ stage' = "closing" /\ publishing' = "added"
        /\ UNCHANGED <<logFile, named, flushing, step, acked, lost, dropped>>
    BY <1>5, AddVersionIs DEF Close, files, version, insertVars, history
  <2>2. flushing = {}
    BY <2>1 DEF SafeInv, Quiet
  <2>3. Quiet'
    BY <1>1, <2>1, <2>2 DEF Quiet
  <2>4. named = disk /\ mem \subseteq logFile
    BY <2>1 DEF SafeInv, Named
  <2>5. Named'
    BY <2>1, <2>4 DEF Named
  <2>6. Durable'
    BY <2>1, <2>2 DEF SafeInv, Durable, Persisted, Stored
  <2> QED BY <1>1, <2>1, <2>3, <2>5, <2>6 DEF SafeInv
<1>6. CASE TruncateSeqFile \/ WriteSeqFile \/ DeleteLog
  <2>1. /\ stage \in {"flushed", "renumbering", "numbered"}
        /\ stage' \in {"renumbering", "numbered", "closed"}
        /\ UNCHANGED <<named, disk, publishing, mem, flushing, step, acked, lost, dropped>>
        /\ stage = "flushed" => publishing = "no"
    BY <1>6 DEF TruncateSeqFile, WriteSeqFile, DeleteLog, version, insertVars, history
  <2>2. \A w \in Writer : step[w] = "idle"
    BY <2>1
  <2>3. Quiet'
    BY <1>1, <2>1, <2>2 DEF SafeInv, Quiet
  <2>4. publishing = "no"
    BY <2>1 DEF SafeInv, Named
  <2>5. Named'
    BY <2>1, <2>4 DEF SafeInv, Named
  <2>6. Durable'
    BY <2>1 DEF SafeInv, Durable, Persisted
  <2> QED BY <1>1, <2>1, <2>2, <2>3, <2>5, <2>6 DEF SafeInv
<1>7. CASE Exit \/ Crash
  <2>1. /\ stage # "down" /\ stage' = "down"
        /\ disk' = {} /\ publishing' = "no"
        /\ mem' = {} /\ flushing' = {} /\ \A w \in Writer : step'[w] = "idle"
        /\ UNCHANGED <<logFile, named, acked, dropped>>
    BY <1>7 DEF Exit, Crash, ProcessGone, files
  <2>2. Quiet'
    BY <1>1, <2>1 DEF Quiet
  <2>3. Named'
    BY <2>1 DEF Named
  <2>4. Persisted \subseteq named \cup logFile \cup lost' /\ lost \subseteq lost'
    <3>1. CASE Exit
      <4>1. stage = "closed" /\ lost' = lost
        BY <3>1 DEF Exit
      <4>2. named = disk
        BY <4>1 DEF SafeInv, Named
      <4> QED BY <4>1, <4>2 DEF Persisted
    <3>2. CASE Crash /\ (Unnamed \/ Unlogged)
      <4>1. lost' = lost \cup ((disk \cup flushing) \ (named \cup logFile))
        BY <3>2 DEF Crash
      <4>2. Persisted \subseteq disk \cup flushing \cup logFile
        BY <2>1 DEF Persisted
      <4> QED BY <4>1, <4>2
    <3>3. CASE Crash /\ ~(Unnamed \/ Unlogged)
      <4>1. lost' = lost
        BY <3>3 DEF Crash
      <4>2. publishing \in {"no", "added"}
        BY <3>3 DEF Unnamed, Publishings
      <4>3. disk \subseteq named \cup logFile
        BY <2>1, <3>3, <4>2 DEF SafeInv, Named
      <4>4. Persisted \subseteq disk \cup logFile
        BY <2>1, <3>3 DEF Persisted, Unlogged
      <4> QED BY <4>1, <4>3, <4>4
    <3> QED BY <1>7, <3>1, <3>2, <3>3
  <2>5. Durable'
    BY <2>1, <2>4 DEF SafeInv, Durable, Persisted
  <2> QED BY <1>1, <2>1, <2>2, <2>3, <2>5 DEF SafeInv
<1>8. CASE UNCHANGED recoveryVars
  BY <1>8 DEF recoveryVars, files, version, processVars, insertVars, history,
              SafeInv, Logged, Quiet, Holding, Named, Unlogged, Durable, Persisted, Stored
<1> QED BY <1>2, <1>3, <1>4, <1>5, <1>6, <1>7, <1>8, PublishKeeps DEF RecoveryNext

LEMMA SafeStep == TypeInv /\ SafeInv /\ [RecoveryNext]_recoveryVars => SafeInv'
<1> SUFFICES ASSUME TypeInv, SafeInv, [RecoveryNext]_recoveryVars PROVE SafeInv'
  OBVIOUS
<1>1. CASE \E w \in Writer : WriterStep(w)
  BY <1>1, LogKeeps, InsertKeeps, InsertMemKeeps, FlushKeeps DEF WriterStep
<1> QED BY <1>1, ProcessKeeps

\* What an insert that returned wrote is found after any sequence of crashes and
\* restarts, unless init dropped it, or a crash that came while a version was
\* published, or after init truncated the log, lost it.
THEOREM InsertsAreDurable == RecoverySpec => []AckedStoredOrLost
<1> DEFINE RecoveryInv == TypeInv /\ SafeInv
<1>1. RecoveryInit => RecoveryInv
  BY TypeInit, SafeInit
<1>2. RecoveryInv /\ [RecoveryNext]_recoveryVars => RecoveryInv'
  BY TypeStep, SafeStep
<1>3. RecoveryInv => AckedStoredOrLost
  BY DEF SafeInv, Durable, AckedStoredOrLost
<1> HIDE DEF RecoveryInv
<1> QED BY <1>1, <1>2, <1>3, PTL DEF RecoverySpec

-----------------------------------------------------------------------------
(***************************************************************************)
(* Closing and opening again, without crashes.                             *)
(***************************************************************************)
Below(E, n) == \A e \in E : e.seq < n

\* What close leaves: no log, and a number that no table exceeds.
Clean == logFile = {} /\ Below(named \cup disk, seqFile + 1)

InsertsAhead ==
    \A w \in Writer : step[w] # "idle" => batch[w] # {} /\ Below(batch[w], nextSeq)

\* As long as nothing was written, an open database is as close left it.
CleanInv ==
    /\ stage = "open" => InsertsAhead
    /\ ~crashed =>
         /\ stage \notin {"recover", "truncated", "naming"}
         /\ stage \in {"down", "closed"} => Clean
         /\ stage # "open" => mem = {}
         /\ flushing # {} => \E w \in Writer : step[w] = "flushing"
         /\ stage = "open" =>
              /\ Below(Stored \cup named, nextSeq)
              /\ mem # {} \/ (\E w \in Writer : step[w] # "idle") \/ Clean
         /\ stage \in {"closing", "flushed", "renumbering"} => Below(named \cup disk, nextSeq)
         /\ stage = "numbered" => Below(named \cup disk, seqFile + 1)

LEMMA CleanInit == RecoveryInit => CleanInv
BY DEF RecoveryInit, CleanInv, Clean, Below

\* The numbers of a batch are taken before the next ones are.
LEMMA InsertAhead ==
    ASSUME TypeInv, CleanInv, NEW w \in Writer, Insert(w)
    PROVE  /\ stage = "open" /\ nextSeq' \in Nat /\ nextSeq <= nextSeq'
           /\ InsertsAhead' /\ step'[w] = "logging"
<1> USE DEF TypeInv, RecoveryTypeOK
<1>1. PICK keys \in Writes :
         /\ batch' = [batch EXCEPT ![w] = BatchOf(keys)]
         /\ nextSeq' = nextSeq + Len(keys)
  BY DEF Insert
<1>2. /\ Len(keys) \in Nat /\ BatchOf(keys) # {}
      /\ \A e \in BatchOf(keys) : e.seq < nextSeq + Len(keys)
  BY BatchIs
<1>3. stage = "open" /\ step' = [step EXCEPT ![w] = "logging"]
  BY DEF Insert
<1>4. batch'[w] # {} /\ Below(batch'[w], nextSeq')
  BY <1>1, <1>2 DEF Below
<1>5. nextSeq' \in Nat /\ nextSeq <= nextSeq'
  BY <1>1, <1>2
<1>6. \A v \in Writer \ {w} : step'[v] = step[v] /\ batch'[v] = batch[v]
  BY <1>1, <1>3
<1>7. \A v \in Writer \ {w} : Below(batch[v], nextSeq) => Below(batch'[v], nextSeq')
  BY <1>5, <1>6 DEF Below, Written
<1>8. InsertsAhead'
  BY <1>3, <1>4, <1>6, <1>7 DEF InsertsAhead, CleanInv
<1> QED BY <1>3, <1>5, <1>8

LEMMA WriterClean ==
    ASSUME TypeInv, CleanInv, NEW w \in Writer, WriterStep(w)
    PROVE  CleanInv'
<1> USE DEF TypeInv, RecoveryTypeOK
<1>1. CASE Insert(w)
  <2>1. /\ UNCHANGED <<named, disk, stage, mem, flushing, crashed>>
        /\ nextSeq' \in Nat /\ nextSeq <= nextSeq' /\ InsertsAhead' /\ step'[w] # "idle"
        /\ stage = "open"
    BY <1>1, InsertAhead DEF Insert, files, version
  <2>2. Below(Stored \cup named, nextSeq) => Below(Stored' \cup named', nextSeq')
    BY <2>1 DEF Below, Stored, Written
  <2>3. \A v \in Writer : step[v] = "flushing" => step'[v] = "flushing"
    BY <1>1 DEF Insert
  <2> QED BY <2>1, <2>2, <2>3 DEF CleanInv
<1>2. CASE ~Insert(w)
  <2>1. /\ stage = "open" /\ UNCHANGED <<named, stage, nextSeq, batch, crashed>>
        /\ step[w] # "idle"
        /\ \A v \in Writer : step'[v] # "idle" => step[v] # "idle"
        /\ step'[w] # "idle" \/ mem' # {}
        /\ flushing' = {} \/ step'[w] = "flushing"
             \/ (flushing' = flushing /\ step[w] # "flushing")
        /\ \A v \in Writer \ {w} : step'[v] = step[v]
        /\ Stored' \subseteq Stored \cup batch[w]
    <3>1. CASE WriteLog(w)
      BY <3>1 DEF WriteLog, Logs, version, insertVars, history, Stored
    <3>2. CASE LogEntry(w)
      BY <3>2, LogEntryIs DEF LogEntry, Logs, version, history, Stored
    <3>3. CASE AcquireMem(w)
      <4>1. step[w] # "idle"
        BY <3>3 DEF AcquireMem
      <4> QED BY <3>3, <4>1 DEF AcquireMem, files, version, processVars, history, Stored
    <3>4. CASE InsertMem(w)
      <4>1. step[w] # "idle"
        BY <3>4 DEF InsertMem
      <4>2. batch[w] # {}
        BY <4>1 DEF CleanInv, InsertsAhead
      <4> QED BY <3>4, <4>1, <4>2 DEF InsertMem, files, version, Stored
    <3>5. CASE MoveMem(w)
      <4>1. step[w] # "idle"
        BY <3>5 DEF MoveMem
      <4> QED BY <3>5, <4>1 DEF MoveMem, files, version, history, Stored
    <3>6. CASE FlushMem(w)
      <4>1. step[w] # "idle" /\ disk' \subseteq disk \cup flushing
        BY <3>6, AddVersionIs DEF FlushMem, version
      <4> QED BY <3>6, <4>1 DEF FlushMem, files, history, Stored
    <3> QED BY <1>2, <3>1, <3>2, <3>3, <3>4, <3>5, <3>6 DEF WriterStep
  <2>2. InsertsAhead'
    BY <2>1 DEF CleanInv, InsertsAhead
  <2>3. Below(Stored \cup named, nextSeq) => Below(Stored' \cup named', nextSeq')
    BY <2>1 DEF CleanInv, InsertsAhead, Below
  <2>4. ~crashed /\ flushing' # {} => \E v \in Writer : step'[v] = "flushing"
    BY <2>1 DEF CleanInv
  <2> QED BY <2>1, <2>2, <2>3, <2>4 DEF CleanInv
<1> QED BY <1>1, <1>2

\* The versions of a publication have no new entries.
LEMMA PublishClean ==
    ASSUME TypeInv, SafeInv, CleanInv,
           CompactPublish \/ UnlinkNamed \/ TruncateCurrent \/ AppendCurrent
    PROVE  CleanInv'
<1> USE DEF TypeInv, RecoveryTypeOK
<1>1. /\ UNCHANGED <<logFile, seqFile, disk, nextSeq, mem, flushing, batch, crashed>>
      /\ named' \subseteq named \cup disk
      /\ \A w \in Writer : \/ step'[w] = step[w]
                           \/ step[w] = "publishing" /\ step'[w] = "inserting"
      /\ \/ stage = "naming" /\ stage' = "open"
         \/ stage = "closing" /\ stage' = "flushed"
         \/ stage' = stage /\ stage \in {"open", "closing", "flushed", "naming"}
  <2>1. CASE CompactPublish
    BY <2>1, AddVersionIs DEF CompactPublish, files, processVars, insertVars, history
  <2>2. CASE UnlinkNamed \/ TruncateCurrent
    <3>1. stage \in {"naming", "open", "closing", "flushed"}
      BY <2>2 DEF UnlinkNamed, TruncateCurrent, SafeInv, Named
    <3> QED BY <2>2, <3>1 DEF UnlinkNamed, TruncateCurrent, processVars, insertVars, history
  <2>3. CASE AppendCurrent
    <3>1. stage \in {"naming", "open", "closing", "flushed"}
      BY <2>3 DEF AppendCurrent, SafeInv, Named
    <3> QED BY <2>3, <3>1 DEF AppendCurrent, history
  <2> QED BY <2>1, <2>2, <2>3
<1>2. \A w \in Writer : step[w] = "idle" <=> step'[w] = "idle"
  BY <1>1
<1>3. \A w \in Writer : step[w] = "flushing" => step'[w] = "flushing"
  BY <1>1
<1>4. stage = "naming" => crashed /\ \A w \in Writer : step[w] = "idle"
  BY DEF CleanInv
<1>5. stage' = "open" => InsertsAhead'
  BY <1>1, <1>2, <1>4 DEF CleanInv, InsertsAhead
<1>6. Clean => Clean'
  BY <1>1 DEF Clean, Below
<1>7. /\ Below(named \cup disk, nextSeq) => Below(named' \cup disk', nextSeq')
      /\ Below(Stored \cup named, nextSeq) => Below(Stored' \cup named', nextSeq')
  BY <1>1 DEF Below, Stored
<1> QED BY <1>1, <1>2, <1>3, <1>4, <1>5, <1>6, <1>7 DEF CleanInv

LEMMA ProcessClean ==
    ASSUME TypeInv, SafeInv, CleanInv, [RecoveryNext]_recoveryVars,
           ~\E w \in Writer : WriterStep(w)
    PROVE  CleanInv'
<1> USE DEF TypeInv, RecoveryTypeOK
<1>1. ASSUME stage' = "open", \A w \in Writer : step'[w] = "idle" PROVE InsertsAhead'
  BY <1>1 DEF InsertsAhead
<1>2. CASE Start
  <2>1. /\ stage = "down" /\ stage' = (IF logFile = {} THEN "open" ELSE "recover")
        /\ nextSeq' = seqFile + 1 /\ disk' = named
        /\ UNCHANGED <<logFile, seqFile, named, mem, flushing, step, crashed>>
    BY <1>2 DEF Start, SetInit, files, insertVars, history
  <2>2. ~crashed => mem = {} /\ flushing = {}
    BY <2>1 DEF CleanInv
  <2>3. ~crashed => Clean /\ Stored' = named
    BY <2>1, <2>2 DEF CleanInv, Stored
  <2> QED BY <1>1, <2>1, <2>2, <2>3 DEF CleanInv, Clean, Below
<1>3. CASE TruncateLog \/ FlushRecovered
  <2>1. /\ stage \in {"recover", "truncated"} /\ stage' \in {"truncated", "naming", "open"}
        /\ UNCHANGED <<crashed, step>>
    BY <1>3 DEF TruncateLog, FlushRecovered, insertVars, history
  <2>2. crashed /\ \A w \in Writer : step[w] = "idle"
    BY <2>1 DEF CleanInv
  <2> QED BY <1>1, <2>1, <2>2 DEF CleanInv
<1>4. CASE Close
  <2>1. /\ stage = "open" /\ \A w \in Writer : step[w] = "idle"
        /\ UNCHANGED <<logFile, seqFile, named, nextSeq, flushing, step, crashed>>
        /\ mem' = {}
        /\ \/ mem = {} /\ stage' = "closed" /\ disk' = disk
           \/ stage' = "closing" /\ disk' = disk \cup mem
    BY <1>4, AddVersionIs DEF Close, files, version, insertVars, history
  <2>2. ~crashed /\ mem = {} => Clean
    BY <2>1 DEF CleanInv
  <2>3. ~crashed => Below(named \cup disk \cup mem, nextSeq)
    BY <2>1 DEF CleanInv, Below, Stored
  <2>4. ~crashed /\ stage' = "closing" => Below(named' \cup disk', nextSeq')
    BY <2>1, <2>3 DEF Below
  <2> QED BY <2>1, <2>2, <2>4 DEF CleanInv, Clean
<1>5. CASE TruncateSeqFile
  BY <1>5 DEF TruncateSeqFile, version, insertVars, history, CleanInv
<1>6. CASE WriteSeqFile
  <2>1. /\ stage = "renumbering" /\ stage' = "numbered" /\ seqFile' + 1 = nextSeq
        /\ UNCHANGED <<named, disk, mem, flushing, step, crashed>>
    BY <1>6 DEF WriteSeqFile, LatestUsed, version, insertVars, history
  <2> QED BY <2>1 DEF CleanInv
<1>7. CASE DeleteLog
  BY <1>7 DEF DeleteLog, version, insertVars, history, CleanInv, Clean
<1>8. CASE Exit
  <2>1. /\ stage = "closed" /\ stage' = "down" /\ mem' = {} /\ flushing' = {} /\ disk' = {}
        /\ UNCHANGED <<logFile, seqFile, named, crashed>>
    BY <1>8 DEF Exit, ProcessGone, files
  <2>2. Clean => Clean'
    BY <2>1 DEF Clean, Below
  <2> QED BY <2>1, <2>2 DEF CleanInv
<1>9. CASE Crash
  BY <1>9 DEF Crash, ProcessGone, CleanInv
<1>10. CASE UNCHANGED recoveryVars
  BY <1>10 DEF recoveryVars, files, version, processVars, insertVars, history,
               CleanInv, Clean, InsertsAhead, Stored
<1> QED BY <1>2, <1>3, <1>4, <1>5, <1>6, <1>7, <1>8, <1>9, <1>10, PublishClean DEF RecoveryNext

\* Until the first crash, a database that was closed and opened again numbers
\* its writes above all that it stores.
THEOREM CleanRestartsNumberOn == RecoverySpec => []StoredAreOlderUnlessCrashed
<1> DEFINE RecoveryInv == TypeInv /\ SafeInv /\ CleanInv
<1>1. RecoveryInit => RecoveryInv
  BY TypeInit, SafeInit, CleanInit
<1>2. RecoveryInv /\ [RecoveryNext]_recoveryVars => RecoveryInv'
  BY TypeStep, SafeStep, WriterClean, ProcessClean
<1>3. RecoveryInv => StoredAreOlderUnlessCrashed
  BY DEF CleanInv, Below, StoredAreOlderUnlessCrashed, StoredAreOlder
<1> HIDE DEF RecoveryInv
<1> QED BY <1>1, <1>2, <1>3, PTL DEF RecoverySpec

-----------------------------------------------------------------------------
(***************************************************************************)
(* Whole batches.                                                          *)
(***************************************************************************)
Small(w) == Cardinality(batch[w]) <= LogRoom

\* Some of the batch is logged, and some is not.
Midway(w) == step[w] = "logging" /\ toLog[w] # batch[w]

\* The buffer of the log is that of one batch, and as long as this one is small,
\* none of it was written.
LogBufInv ==
    /\ \A v, w \in Writer : Midway(v) /\ Midway(w) => v = w
    /\ (\A w \in Writer : ~Midway(w)) => logBuf = {}
    /\ \A w \in Writer : Midway(w) => logBuf \subseteq batch[w]
    /\ \A w \in Writer : Midway(w) /\ Small(w) => logBuf = batch[w] \ toLog[w]
    /\ \A w \in Writer : IsFiniteSet(batch[w])

\* A new batch is of entries that are nowhere yet.
Everywhere ==
    logFile \cup logBuf \cup named \cup disk \cup mem \cup flushing
        \cup UNION {batch[w] : w \in Writer}

Fresh ==
    /\ \A e \in Everywhere : e.life < stops \/ (e.life = stops /\ e.seq < nextSeq)
    /\ stage = "down" => nextSeq = 1
    /\ \A v, w \in Writer : v # w => batch[v] \cap batch[w] = {}

AllOrNone(w, E) == batch[w] \cap E = {} \/ batch[w] \subseteq E

\* A small batch is in a file or in a memtable as a whole, or not at all, and
\* one that is over is in one of them.
Kept(w) ==
    Small(w) =>
        /\ AllOrNone(w, logFile) /\ AllOrNone(w, named) /\ AllOrNone(w, disk)
        /\ AllOrNone(w, mem) /\ AllOrNone(w, flushing)
        /\ step[w] = "idle" =>
              batch[w] \subseteq Persisted /\ (stage = "open" => batch[w] \subseteq Stored)

WholeInv == LogBufInv /\ Fresh /\ \A w \in Writer : Kept(w)
LEMMA BatchIsFinite ==
    ASSUME TypeInv, NEW keys \in Writes
    PROVE  IsFiniteSet(BatchOf(keys))
<1> DEFINE f == [i \in 1 .. Len(keys) |->
                    [key |-> keys[i], seq |-> nextSeq + i - 1, life |-> stops]]
<1>1. keys \in Seq(Key)
  BY RecoveryAssumption
<1>2. Numbered(keys, nextSeq) = {[key |-> keys[i], seq |-> nextSeq + i - 1] : i \in 1 .. Len(keys)}
  BY <1>1 DEF Numbered
<1>3. \A e \in BatchOf(keys) : \E i \in 1 .. Len(keys) : f[i] = e
  <2>1. SUFFICES ASSUME NEW e \in BatchOf(keys) PROVE \E i \in 1 .. Len(keys) : f[i] = e
    OBVIOUS
  <2>2. PICK d \in Numbered(keys, nextSeq) : e = [key |-> d.key, seq |-> d.seq, life |-> stops]
    BY DEF BatchOf
  <2>3. PICK i \in 1 .. Len(keys) : d = [key |-> keys[i], seq |-> nextSeq + i - 1]
    BY <1>2
  <2> QED BY <2>2, <2>3
<1>4. \A i \in 1 .. Len(keys) : f[i] \in BatchOf(keys)
  <2>1. SUFFICES ASSUME NEW i \in 1 .. Len(keys) PROVE f[i] \in BatchOf(keys)
    OBVIOUS
  <2>2. [key |-> keys[i], seq |-> nextSeq + i - 1] \in Numbered(keys, nextSeq)
    BY <1>2
  <2> QED BY <2>2 DEF BatchOf
<1>5. f \in Surjection(1 .. Len(keys), BatchOf(keys))
  BY <1>3, <1>4 DEF Surjection
<1>6. IsFiniteSet(1 .. Len(keys))
  BY FS_Interval
<1> HIDE DEF f
<1> QED BY <1>5, <1>6, FS_Surjection

LEMMA WholeInit == RecoveryInit => WholeInv
<1> SUFFICES ASSUME RecoveryInit PROVE WholeInv
  OBVIOUS
<1>1. LogBufInv
  BY FS_EmptySet DEF RecoveryInit, LogBufInv, Midway
<1>2. Fresh
  BY DEF RecoveryInit, Fresh, Everywhere
<1>3. \A w \in Writer : Kept(w)
  BY DEF RecoveryInit, Kept, AllOrNone
<1> QED BY <1>1, <1>2, <1>3 DEF WholeInv

\* Only the writer that logs is in the middle of a batch, and the buffer is of
\* this one.
LEMMA LogsAlone ==
    ASSUME TypeInv, LogBufInv, NEW w \in Writer, Logs(w)
    PROVE  /\ step[w] = "logging" /\ \A v \in Writer \ {w} : ~Midway(v)
           /\ logBuf \subseteq batch[w]
           /\ Small(w) => logBuf = batch[w] \ toLog[w]
<1> USE DEF TypeInv, RecoveryTypeOK
<1>1. step[w] = "logging" /\ \A v \in Writer \ {w} : ~Midway(v)
  <2>1. step[w] = "logging" /\ (toLog[w] = batch[w] => LogMutexFree)
    BY DEF Logs
  <2> QED BY <2>1 DEF LogMutexFree, LogBufInv, Midway
<1>2. CASE Midway(w)
  BY <1>1, <1>2 DEF LogBufInv
<1>3. CASE ~Midway(w)
  <2>1. logBuf = {} /\ toLog[w] = batch[w]
    BY <1>1, <1>3 DEF LogBufInv, Midway
  <2> QED BY <1>1, <2>1
<1> QED BY <1>2, <1>3

\* An entry is logged: the buffer has all that was logged of a small batch.
LEMMA LogEntryBuf ==
    ASSUME TypeInv, LogBufInv, NEW w \in Writer, LogEntry(w)
    PROVE  LogBufInv'
<1> USE DEF TypeInv, RecoveryTypeOK
<1>1. PICK e \in toLog[w] :
         /\ toLog' = [toLog EXCEPT ![w] = toLog[w] \ {e}]
         /\ step' = [step EXCEPT ![w] = IF toLog[w] \ {e} = {} THEN "waiting" ELSE "logging"]
         /\ IF toLog[w] \ {e} = {}
            THEN logFile' = logFile \cup logBuf \cup {e} /\ logBuf' = {}
            ELSE logBuf' = logBuf \cup {e} /\ logFile' = logFile
  BY LogEntryIs
<1>2. batch' = batch
  BY DEF LogEntry, history
<1>3. /\ step[w] = "logging" /\ \A v \in Writer \ {w} : ~Midway(v)
      /\ logBuf \subseteq batch[w] /\ (Small(w) => logBuf = batch[w] \ toLog[w])
  BY LogsAlone DEF LogEntry
<1>4. \A v \in Writer \ {w} : ~Midway(v)'
  BY <1>1, <1>2, <1>3 DEF Midway
<1>5. toLog[w] \subseteq batch[w]
  OBVIOUS
<1>6. Midway(w)' <=> toLog[w] \ {e} # {}
  BY <1>1, <1>2, <1>3, <1>5 DEF Midway
<1>7. Midway(w)' /\ Small(w)' => logBuf' = batch'[w] \ toLog'[w]
  BY <1>1, <1>2, <1>3, <1>5, <1>6 DEF Small
<1>8. Midway(w)' => logBuf' \subseteq batch'[w]
  BY <1>1, <1>2, <1>3, <1>5, <1>6
<1>9. (\A v \in Writer : ~Midway(v)') => logBuf' = {}
  BY <1>1, <1>6
<1>10. \A v \in Writer : IsFiniteSet(batch'[v])
  BY <1>2 DEF LogBufInv
<1> QED BY <1>4, <1>7, <1>8, <1>9, <1>10 DEF LogBufInv

\* The buffer has room for all of a small batch.
LEMMA WriteLogIs ==
    ASSUME TypeInv, LogBufInv, NEW w \in Writer, WriteLog(w)
    PROVE  ~Small(w)
<1> USE DEF TypeInv, RecoveryTypeOK
<1>1. Cardinality(logBuf) >= LogRoom /\ step[w] = "logging"
  BY DEF WriteLog, Logs, LogFull
<1>2. LogRoom \in Nat \ {0}
  BY RecoveryAssumption
<1>3. SUFFICES ASSUME Small(w) PROVE FALSE
  OBVIOUS
<1>4. logBuf = batch[w] \ toLog[w] /\ IsFiniteSet(batch[w])
  BY <1>3, LogsAlone DEF WriteLog, LogBufInv
<1>5. toLog[w] # {} /\ toLog[w] \subseteq batch[w]
  BY <1>1
<1>6. logBuf \subseteq batch[w] /\ logBuf # batch[w]
  BY <1>4, <1>5
<1>7. Cardinality(logBuf) <= Cardinality(batch[w]) /\ Cardinality(logBuf) # Cardinality(batch[w])
  BY <1>4, <1>6, FS_Subset
<1>8. Cardinality(logBuf) \in Nat /\ Cardinality(batch[w]) \in Nat
  BY <1>4, <1>6, FS_Subset, FS_CardinalityType
<1> QED BY <1>1, <1>2, <1>3, <1>7, <1>8 DEF Small

LEMMA WriteLogBuf ==
    ASSUME TypeInv, LogBufInv, NEW w \in Writer, WriteLog(w)
    PROVE  LogBufInv'
<1> USE DEF TypeInv, RecoveryTypeOK
<1>1. logBuf' = {} /\ UNCHANGED <<step, toLog, batch>>
  BY DEF WriteLog, insertVars, history
<1>2. \A v \in Writer \ {w} : ~Midway(v)
  BY LogsAlone DEF WriteLog
<1>3. ~Small(w)
  BY WriteLogIs
<1>4. \A v \in Writer : (Midway(v)' <=> Midway(v)) /\ (Small(v)' <=> Small(v))
  BY <1>1 DEF Midway, Small
<1>5. \A v, x \in Writer : Midway(v)' /\ Midway(x)' => v = x
  BY <1>4 DEF LogBufInv
<1>6. \A v \in Writer : ~(Midway(v)' /\ Small(v)')
  BY <1>2, <1>3, <1>4
<1>7. \A v \in Writer : IsFiniteSet(batch'[v])
  BY <1>1 DEF LogBufInv
<1> QED BY <1>1, <1>5, <1>6, <1>7 DEF LogBufInv

\* Outside an insert, a batch stays as it is or is forgotten.
LEMMA ProcessBatches ==
    ASSUME [RecoveryNext]_recoveryVars, TypeInv, ~\E w \in Writer : WriterStep(w)
    PROVE  /\ \A w \in Writer : batch'[w] \in {batch[w], {}}
           /\ \/ logBuf' = {} /\ \A w \in Writer : step'[w] = "idle"
              \/ /\ UNCHANGED <<toLog, logBuf>>
                 /\ \A w \in Writer : (step'[w] = "idle" <=> step[w] = "idle")
                                      /\ (step'[w] = "logging" <=> step[w] = "logging")
                 /\ \A w \in Writer : step[w] = "logging" => batch'[w] = batch[w]
<1> USE DEF TypeInv, RecoveryTypeOK
<1>1. CASE \/ CompactPublish \/ UnlinkNamed \/ TruncateCurrent \/ Start \/ FlushRecovered \/ Close
           \/ TruncateSeqFile \/ WriteSeqFile \/ DeleteLog \/ UNCHANGED recoveryVars
  BY <1>1 DEF CompactPublish, UnlinkNamed, TruncateCurrent, Start, FlushRecovered, Close,
              TruncateSeqFile, WriteSeqFile, DeleteLog, recoveryVars, processVars, insertVars, history
<1>2. CASE AppendCurrent
  BY <1>2 DEF AppendCurrent, history
<1>3. CASE TruncateLog
  <2>1. \A w \in Writer : step[w] = "idle"
    BY <1>3 DEF TruncateLog
  <2>2. batch' \in {batch, [w \in Writer |-> IF batch[w] \cap disk = {} THEN {} ELSE batch[w]]}
        /\ UNCHANGED <<logBuf, step, toLog>>
    BY <1>3 DEF TruncateLog, insertVars
  <2> QED BY <2>1, <2>2
<1>4. CASE Exit \/ Crash
  BY <1>4 DEF Exit, Crash, ProcessGone
<1> QED BY <1>1, <1>2, <1>3, <1>4 DEF RecoveryNext

\* The other steps of writers and of the process do not log.
LEMMA OthersBuf ==
    ASSUME TypeInv, LogBufInv, [RecoveryNext]_recoveryVars,
           ~\E w \in Writer : WriteLog(w) \/ LogEntry(w)
    PROVE  LogBufInv'
<1> USE DEF TypeInv, RecoveryTypeOK
<1>1. CASE \E w \in Writer : Insert(w)
  <2>1. PICK w \in Writer : Insert(w)
    BY <1>1
  <2>2. PICK keys \in Writes :
           /\ batch' = [batch EXCEPT ![w] = BatchOf(keys)]
           /\ toLog' = [toLog EXCEPT ![w] = BatchOf(keys)]
    BY <2>1 DEF Insert
  <2>3. /\ logBuf' = logBuf /\ step[w] = "idle"
        /\ \A v \in Writer \ {w} : step'[v] = step[v]
    BY <2>1 DEF Insert
  <2>4. IsFiniteSet(BatchOf(keys))
    BY BatchIsFinite
  <2>5. ~Midway(w)' /\ ~Midway(w)
    BY <2>2, <2>3 DEF Midway
  <2>6. \A v \in Writer \ {w} : (Midway(v)' <=> Midway(v)) /\ (Small(v)' <=> Small(v))
                                /\ batch'[v] = batch[v] /\ toLog'[v] = toLog[v]
    BY <2>2, <2>3 DEF Midway, Small
  <2>7. \A v \in Writer : IsFiniteSet(batch'[v])
    BY <2>2, <2>4, <2>6 DEF LogBufInv
  <2> QED BY <2>3, <2>5, <2>6, <2>7 DEF LogBufInv
<1>2. CASE \E w \in Writer : AcquireMem(w) \/ InsertMem(w) \/ MoveMem(w) \/ FlushMem(w)
  <2>1. PICK w \in Writer : AcquireMem(w) \/ InsertMem(w) \/ MoveMem(w) \/ FlushMem(w)
    BY <1>2
  <2>2. /\ UNCHANGED <<logBuf, toLog, batch>> /\ step[w] # "logging" /\ step'[w] # "logging"
        /\ \A v \in Writer \ {w} : step'[v] = step[v]
    BY <2>1 DEF AcquireMem, InsertMem, MoveMem, FlushMem, processVars, history
  <2>3. \A v \in Writer : (Midway(v)' <=> Midway(v)) /\ (Small(v)' <=> Small(v))
    BY <2>2 DEF Midway, Small
  <2> QED BY <2>2, <2>3 DEF LogBufInv
<1>3. CASE ~\E w \in Writer : WriterStep(w)
  <2>1. \A w \in Writer : IsFiniteSet(batch'[w])
    BY <1>3, ProcessBatches, FS_EmptySet DEF LogBufInv
  <2>2. CASE logBuf' = {} /\ \A w \in Writer : step'[w] = "idle"
    BY <2>1, <2>2 DEF LogBufInv, Midway
  <2>3. CASE /\ UNCHANGED <<toLog, logBuf>>
             /\ \A w \in Writer : step'[w] = "logging" <=> step[w] = "logging"
             /\ \A w \in Writer : step[w] = "logging" => batch'[w] = batch[w]
    <3>1. \A v \in Writer : (Midway(v)' <=> Midway(v))
                            /\ (Midway(v) => batch'[v] = batch[v] /\ (Small(v)' <=> Small(v)))
      BY <2>3 DEF Midway, Small
    <3>2. (\A v \in Writer : ~Midway(v)') => logBuf' = {}
      BY <2>3, <3>1 DEF LogBufInv
    <3> QED BY <2>1, <2>3, <3>1, <3>2 DEF LogBufInv
  <2> QED BY <1>3, <2>2, <2>3, ProcessBatches
<1> QED BY <1>1, <1>2, <1>3 DEF WriterStep

LEMMA BufStep == TypeInv /\ LogBufInv /\ [RecoveryNext]_recoveryVars => LogBufInv'
BY LogEntryBuf, WriteLogBuf, OthersBuf

\* Only an insert brings new entries.
LEMMA NothingNew ==
    ASSUME TypeInv, [RecoveryNext]_recoveryVars, ~\E w \in Writer : Insert(w)
    PROVE  Everywhere' \subseteq Everywhere
<1> USE DEF TypeInv, RecoveryTypeOK
<1>1. CASE \E w \in Writer : WriterStep(w)
  <2>1. PICK w \in Writer : WriterStep(w)
    BY <1>1
  <2>2. batch' = batch /\ named' = named
    BY <2>1 DEF WriterStep, WriteLog, LogEntry, AcquireMem, InsertMem, MoveMem, FlushMem, files,
                history
  <2>3. /\ logFile' \cup logBuf' \subseteq logFile \cup logBuf \cup batch[w]
        /\ disk' \cup mem' \cup flushing' \subseteq disk \cup mem \cup flushing \cup batch[w]
    <3>1. CASE WriteLog(w)
      BY <3>1 DEF WriteLog, version
    <3>2. CASE LogEntry(w)
      <4>1. PICK e \in toLog[w] :
               IF toLog[w] \ {e} = {}
               THEN logFile' = logFile \cup logBuf \cup {e} /\ logBuf' = {}
               ELSE logBuf' = logBuf \cup {e} /\ logFile' = logFile
        BY <3>2, LogEntryIs
      <4>2. e \in batch[w] /\ UNCHANGED <<disk, mem, flushing>>
        BY <3>2 DEF LogEntry, version
      <4>3. logFile' \cup logBuf' \subseteq logFile \cup logBuf \cup {e}
        BY <4>1
      <4> QED BY <4>2, <4>3
    <3>3. CASE AcquireMem(w) \/ InsertMem(w) \/ MoveMem(w)
      BY <3>3 DEF AcquireMem, InsertMem, MoveMem, files, version, processVars
    <3>4. CASE FlushMem(w)
      BY <3>4, AddVersionIs DEF FlushMem, files, version
    <3> QED BY <2>1, <3>1, <3>2, <3>3, <3>4 DEF WriterStep
  <2> QED BY <2>2, <2>3 DEF Everywhere
<1>2. CASE ~\E w \in Writer : WriterStep(w)
  <2>1. \A w \in Writer : batch'[w] \in {batch[w], {}}
    BY <1>2, ProcessBatches
  <2>2. /\ logFile' \subseteq logFile /\ logBuf' \subseteq logBuf
        /\ named' \cup disk' \cup mem' \cup flushing'
              \subseteq logFile \cup named \cup disk \cup mem \cup flushing
    <3>1. CASE CompactPublish
      BY <3>1, AddVersionIs DEF CompactPublish, files, processVars
    <3>2. CASE UnlinkNamed \/ TruncateCurrent \/ AppendCurrent \/ Start
      BY <3>2 DEF UnlinkNamed, TruncateCurrent, AppendCurrent, Start, files, processVars
    <3>3. CASE TruncateLog
      BY <3>3 DEF TruncateLog, version
    <3>4. CASE FlushRecovered
      BY <3>4, AddVersionIs DEF FlushRecovered, files, version
    <3>5. CASE Close
      BY <3>5, AddVersionIs DEF Close, files, version
    <3>6. CASE TruncateSeqFile \/ WriteSeqFile \/ DeleteLog
      BY <3>6 DEF TruncateSeqFile, WriteSeqFile, DeleteLog, version
    <3>7. CASE Exit \/ Crash
      BY <3>7 DEF Exit, Crash, ProcessGone, files
    <3>8. CASE UNCHANGED recoveryVars
      BY <3>8 DEF recoveryVars, files, version, processVars
    <3> QED BY <1>2, <3>1, <3>2, <3>3, <3>4, <3>5, <3>6, <3>7, <3>8 DEF RecoveryNext
  <2> QED BY <2>1, <2>2 DEF Everywhere
<1> QED BY <1>1, <1>2

\* The number is raised, or another lifetime begins.
LEMMA NumberRaised ==
    ASSUME TypeInv, [RecoveryNext]_recoveryVars, Fresh
    PROVE  /\ \/ stops' = stops /\ nextSeq <= nextSeq' /\ (stage' = "down" => stage = "down")
              \/ stops' = stops + 1
           /\ stage' = "down" => nextSeq' = 1
<1> USE DEF TypeInv, RecoveryTypeOK
<1>1. CASE \E w \in Writer : Insert(w)
  <2>1. PICK w \in Writer, keys \in Writes :
           nextSeq' = nextSeq + Len(keys) /\ stage = "open" /\ UNCHANGED <<stage, stops>>
    BY <1>1 DEF Insert
  <2>2. Len(keys) \in Nat
    BY BatchIs
  <2> QED BY <2>1, <2>2
<1>2. CASE \E w \in Writer : WriterStep(w) /\ ~Insert(w)
  BY <1>2 DEF Fresh, WriterStep, WriteLog, LogEntry, AcquireMem, InsertMem, MoveMem, FlushMem,
              processVars, history
<1>3. CASE Start
  <2>1. nextSeq = 1 /\ nextSeq' = SetInit(1, seqFile) /\ stops' = stops /\ stage' # "down"
    BY <1>3 DEF Start, Fresh, history
  <2> QED BY <2>1, SetInitType
<1>4. CASE TruncateLog
  <2>1. /\ logFile # {} /\ Bounded(logFile) /\ nextSeq' = SetInit(nextSeq, MaxSeqOf(logFile))
        /\ stops' = stops /\ stage' # "down"
    BY <1>4 DEF TruncateLog, Numbers
  <2>2. MaxSeqOf(logFile) \in Nat
    BY <2>1, MaxSeqType
  <2> QED BY <2>1, <2>2, SetInitType
<1>5. CASE CompactPublish \/ UnlinkNamed \/ TruncateCurrent \/ AppendCurrent
  <2>1. nextSeq' = nextSeq /\ stops' = stops
    BY <1>5 DEF CompactPublish, UnlinkNamed, TruncateCurrent, AppendCurrent, processVars, history
  <2>2. stage' = "down" => stage = "down"
    BY <1>5 DEF CompactPublish, UnlinkNamed, TruncateCurrent, AppendCurrent, processVars
  <2> QED BY <2>1, <2>2 DEF Fresh
<1>6. CASE FlushRecovered \/ Close \/ TruncateSeqFile \/ WriteSeqFile \/ DeleteLog
  BY <1>6 DEF FlushRecovered, Close, TruncateSeqFile, WriteSeqFile, DeleteLog, history
<1>7. CASE Exit \/ Crash
  BY <1>7 DEF Exit, Crash, ProcessGone
<1>8. CASE UNCHANGED recoveryVars
  BY <1>8 DEF recoveryVars, processVars, history, Fresh
<1> QED BY <1>1, <1>2, <1>3, <1>4, <1>5, <1>6, <1>7, <1>8 DEF RecoveryNext

\* A new batch is apart from all that there is.
LEMMA BatchIsNew ==
    ASSUME TypeInv, Fresh, NEW keys \in Writes
    PROVE  BatchOf(keys) \cap Everywhere = {}
<1> USE DEF TypeInv, RecoveryTypeOK
<1>1. SUFFICES ASSUME NEW e \in BatchOf(keys), e \in Everywhere PROVE FALSE
  OBVIOUS
<1>2. e.life = stops /\ nextSeq <= e.seq /\ e \in Written
  BY BatchIs
<1>3. e.life < stops \/ (e.life = stops /\ e.seq < nextSeq)
  BY <1>1 DEF Fresh
<1> QED BY <1>2, <1>3 DEF Written

LEMMA FreshStep == TypeInv /\ Fresh /\ [RecoveryNext]_recoveryVars => Fresh'
<1> SUFFICES ASSUME TypeInv, Fresh, [RecoveryNext]_recoveryVars PROVE Fresh'
  OBVIOUS
<1> USE DEF TypeInv, RecoveryTypeOK
<1>1. /\ \/ stops' = stops /\ nextSeq <= nextSeq'
         \/ stops' = stops + 1
      /\ stage' = "down" => nextSeq' = 1
  BY NumberRaised
<1>2. Everywhere \subseteq Written
  BY DEF Everywhere
<1>3. stops' \in Nat /\ nextSeq' \in Nat
  BY TypeStep
<1>4. \A e \in Everywhere : e.life < stops' \/ (e.life = stops' /\ e.seq < nextSeq')
  BY <1>1, <1>2, <1>3 DEF Fresh, Written
<1>5. CASE ~\E w \in Writer : Insert(w)
  <2>1. Everywhere' \subseteq Everywhere
    BY <1>5, NothingNew
  <2>2. \A w \in Writer : batch'[w] \subseteq batch[w]
    <3>1. CASE \E w \in Writer : WriterStep(w)
      BY <1>5, <3>1 DEF WriterStep, WriteLog, LogEntry, AcquireMem, InsertMem, MoveMem, FlushMem,
                        history
    <3> QED BY <3>1, ProcessBatches
  <2>3. \A v, w \in Writer : v # w => batch'[v] \cap batch'[w] = {}
    BY <2>2 DEF Fresh
  <2> QED BY <1>1, <1>4, <2>1, <2>3 DEF Fresh
<1>6. CASE \E w \in Writer : Insert(w)
  <2>1. PICK w \in Writer : Insert(w)
    BY <1>6
  <2>2. PICK keys \in Writes :
           /\ batch' = [batch EXCEPT ![w] = BatchOf(keys)]
           /\ nextSeq' = nextSeq + Len(keys)
    BY <2>1 DEF Insert
  <2>3. UNCHANGED <<logFile, logBuf, named, disk, mem, flushing, stops>>
    BY <2>1 DEF Insert, files, version
  <2> DEFINE B == BatchOf(keys)
  <2>4. /\ B \cap Everywhere = {} /\ Len(keys) \in Nat
        /\ \A e \in B : e.life = stops /\ e.seq < nextSeq + Len(keys)
    BY BatchIs, BatchIsNew
  <2>5. batch'[w] = B /\ \A v \in Writer \ {w} : batch'[v] = batch[v]
    BY <2>2
  <2> HIDE DEF B
  <2>6. Everywhere' \subseteq Everywhere \cup B
    BY <2>3, <2>5 DEF Everywhere
  <2>7. \A e \in B : e.life = stops' /\ e.seq < nextSeq'
    BY <2>2, <2>3, <2>4
  <2>8. \A v \in Writer : batch[v] \subseteq Everywhere
    BY DEF Everywhere
  <2>9. \A v \in Writer \ {w} : batch'[v] \cap B = {}
    BY <2>4, <2>5, <2>8
  <2>10. \A v, x \in Writer : v # x => batch'[v] \cap batch'[x] = {}
    BY <2>5, <2>9 DEF Fresh
  <2>11. \A e \in Everywhere' : e.life < stops' \/ (e.life = stops' /\ e.seq < nextSeq')
    BY <1>4, <2>6, <2>7
  <2> QED BY <1>1, <2>10, <2>11 DEF Fresh
<1> QED BY <1>5, <1>6

\* Batches of other writers are apart, whatever is added of one to a file.
LEMMA OthersApart ==
    ASSUME TypeInv, Fresh, NEW w \in Writer, NEW v \in Writer \ {w},
           NEW E, NEW F, F \subseteq E \cup batch[w], E \subseteq F, AllOrNone(v, E)
    PROVE  batch[v] \cap F = {} \/ batch[v] \subseteq F
<1>1. batch[v] \cap batch[w] = {}
  BY DEF Fresh
<1> QED BY <1>1 DEF AllOrNone

\* While a batch is logged: a small one reaches the file in one write.
LEMMA LogKept ==
    ASSUME TypeInv, SafeInv, WholeInv, NEW w \in Writer, WriteLog(w) \/ LogEntry(w)
    PROVE  \A v \in Writer : Kept(v)'
<1> USE DEF TypeInv, RecoveryTypeOK
<1>1. /\ UNCHANGED <<named, disk, stage, mem, flushing, batch>>
      /\ logFile \subseteq logFile' /\ logFile' \subseteq logFile \cup batch[w]
      /\ step[w] = "logging" /\ step'[w] # "idle"
      /\ \A v \in Writer \ {w} : step'[v] = step[v]
      /\ Small(w) => logFile' = logFile \/ batch[w] \subseteq logFile'
  <2>1. logBuf \subseteq batch[w] /\ (Small(w) => logBuf = batch[w] \ toLog[w])
    BY LogsAlone DEF WriteLog, LogEntry, WholeInv
  <2>2. CASE WriteLog(w)
    <3>1. ~Small(w)
      BY <2>2, WriteLogIs DEF WholeInv
    <3> QED BY <2>1, <2>2, <3>1 DEF WriteLog, Logs, version, insertVars, history
  <2>3. CASE LogEntry(w)
    <3>1. PICK e \in toLog[w] :
             /\ step' = [step EXCEPT ![w] = IF toLog[w] \ {e} = {} THEN "waiting" ELSE "logging"]
             /\ IF toLog[w] \ {e} = {}
                THEN logFile' = logFile \cup logBuf \cup {e} /\ logBuf' = {}
                ELSE logBuf' = logBuf \cup {e} /\ logFile' = logFile
      BY <2>3, LogEntryIs
    <3>2. UNCHANGED <<named, disk, stage, mem, flushing, batch>> /\ step[w] = "logging"
      BY <2>3 DEF LogEntry, Logs, version, history
    <3>3. e \in batch[w]
      OBVIOUS
    <3>4. logFile' \subseteq logFile \cup batch[w] /\ logFile \subseteq logFile'
      BY <2>1, <3>1, <3>3
    <3>5. Small(w) => logFile' = logFile \/ batch[w] \subseteq logFile'
      BY <2>1, <3>1
    <3> QED BY <3>1, <3>2, <3>4, <3>5
  <2> QED BY <2>2, <2>3
<1>2. SUFFICES ASSUME NEW v \in Writer, Small(v)' PROVE Kept(v)'
  BY DEF Kept
<1>3. Small(v) /\ Kept(v)
  BY <1>1, <1>2 DEF Small, WholeInv
<1>4. AllOrNone(v, logFile)'
  <2>1. CASE v = w
    BY <1>1, <1>3, <2>1 DEF Kept, AllOrNone
  <2>2. CASE v # w
    BY <1>1, <1>3, <2>2, OthersApart DEF WholeInv, Kept, AllOrNone
  <2> QED BY <2>1, <2>2
<1>5. step'[v] = "idle" => batch'[v] \subseteq Persisted' /\ (stage' = "open" => batch'[v] \subseteq Stored')
  BY <1>1, <1>3 DEF Kept, Persisted, Stored
<1> QED BY <1>1, <1>3, <1>4, <1>5 DEF Kept, AllOrNone

\* What an insert and its flushes store stays, and a batch that is over was
\* inserted.
LEMMA WriterKept ==
    ASSUME TypeInv, SafeInv, WholeInv, NEW w \in Writer, WriterStep(w)
    PROVE  \A v \in Writer : Kept(v)'
<1> USE DEF TypeInv, RecoveryTypeOK
<1>1. SUFFICES ASSUME NEW v \in Writer, Small(v)' PROVE Kept(v)'
  BY DEF Kept
<1>2. CASE Insert(w)
  <2>1. PICK keys \in Writes : batch' = [batch EXCEPT ![w] = BatchOf(keys)]
    BY <1>2 DEF Insert
  <2>2. /\ UNCHANGED <<logFile, named, disk, stage, mem, flushing>>
        /\ step' = [step EXCEPT ![w] = "logging"]
    BY <1>2 DEF Insert, files, version
  <2>3. CASE v = w
    <3>1. batch'[v] \cap Everywhere = {} /\ step'[v] # "idle"
      BY <2>1, <2>2, <2>3, BatchIsNew DEF WholeInv
    <3>2. batch'[v] \cap (logFile \cup named \cup disk \cup mem \cup flushing) = {}
      BY <3>1 DEF Everywhere
    <3> QED BY <2>2, <3>1, <3>2 DEF Kept, AllOrNone
  <2>4. CASE v # w
    <3>1. batch'[v] = batch[v] /\ step'[v] = step[v]
      BY <2>1, <2>2, <2>4
    <3>2. Small(v)
      BY <1>1, <3>1 DEF Small
    <3> QED BY <2>2, <3>1, <3>2 DEF WholeInv, Kept, AllOrNone, Persisted, Stored
  <2> QED BY <2>3, <2>4
<1>3. CASE WriteLog(w) \/ LogEntry(w)
  BY <1>3, LogKept
<1>4. ASSUME AcquireMem(w) \/ InsertMem(w) \/ MoveMem(w) \/ FlushMem(w)
      PROVE  /\ stage = "open" /\ UNCHANGED <<logFile, named, stage, batch>>
             /\ \A x \in Writer \ {w} : step'[x] = step[x]
             /\ Small(v) /\ Kept(v)
             /\ step[w] # "idle"
  <2>1. /\ UNCHANGED <<logFile, named, stage, batch>>
        /\ \A x \in Writer \ {w} : step'[x] = step[x]
        /\ step[w] # "idle"
    BY <1>4 DEF AcquireMem, InsertMem, MoveMem, FlushMem, files, processVars, history
  <2>2. stage = "open" /\ Small(v)
    BY <1>1, <2>1 DEF Small
  <2> QED BY <2>1, <2>2 DEF WholeInv
<1>5. CASE AcquireMem(w)
  <2>1. UNCHANGED <<disk, mem, flushing>> /\ step'[w] # "idle"
    BY <1>5 DEF AcquireMem, version, processVars
  <2> QED BY <1>4, <1>5, <2>1 DEF Kept, AllOrNone, Persisted, Stored
<1>6. CASE InsertMem(w)
  <2>1. mem' = mem \cup batch[w] /\ UNCHANGED <<disk, flushing>>
    BY <1>6 DEF InsertMem, version
  <2>2. AllOrNone(v, mem)'
    <3>1. CASE v = w
      BY <1>4, <1>6, <2>1, <3>1 DEF AllOrNone
    <3>2. CASE v # w
      <4>1. mem' \subseteq mem \cup batch[w] /\ mem \subseteq mem' /\ AllOrNone(v, mem) /\ Fresh
        BY <1>4, <1>6, <2>1 DEF WholeInv, Kept
      <4>2. batch[v] \cap mem' = {} \/ batch[v] \subseteq mem'
        BY <3>2, <4>1, OthersApart
      <4> QED BY <1>4, <1>6, <4>2 DEF AllOrNone
    <3> QED BY <3>1, <3>2
  <2>3. batch[w] \subseteq logFile
    BY <1>6 DEF InsertMem, SafeInv, Logged
  <2>4. step'[v] = "idle" => batch'[v] \subseteq Persisted' /\ batch'[v] \subseteq Stored'
    <3>1. CASE v = w
      BY <1>4, <1>6, <2>1, <2>3, <3>1 DEF Persisted, Stored
    <3>2. CASE v # w
      BY <1>4, <1>6, <2>1, <3>2 DEF Kept, Persisted, Stored
    <3> QED BY <3>1, <3>2
  <2> QED BY <1>4, <1>6, <2>1, <2>2, <2>4 DEF Kept, AllOrNone
<1>7. CASE MoveMem(w)
  <2>1. flushing' = mem /\ mem' = {} /\ disk' = disk /\ step[w] = "inserting" /\ step'[w] # "idle"
    BY <1>7 DEF MoveMem, version
  <2>2. flushing = {}
    BY <1>4, <1>7, <2>1 DEF SafeInv, Quiet, Holding
  <2>3. step'[v] = "idle" => batch'[v] \subseteq Persisted' /\ batch'[v] \subseteq Stored'
    BY <1>4, <1>7, <2>1, <2>2 DEF Kept, Persisted, Stored
  <2> QED BY <1>4, <1>7, <2>1, <2>3 DEF Kept, AllOrNone
<1>8. CASE FlushMem(w)
  <2>1. disk' = disk \cup flushing /\ flushing' = {} /\ mem' = mem /\ step'[w] # "idle"
    BY <1>8, AddVersionIs DEF FlushMem, version
  <2>2. step'[v] = "idle" => batch'[v] \subseteq Persisted' /\ batch'[v] \subseteq Stored'
    BY <1>4, <1>8, <2>1 DEF Kept, Persisted, Stored
  <2>3. AllOrNone(v, disk)' /\ AllOrNone(v, flushing)' /\ AllOrNone(v, mem)'
    BY <1>4, <1>8, <2>1 DEF Kept, AllOrNone
  <2> QED BY <1>4, <1>8, <2>2, <2>3 DEF Kept, AllOrNone
<1> QED BY <1>2, <1>3, <1>5, <1>6, <1>7, <1>8 DEF WriterStep

\* Publishing a version, starting, stopping and crashing.
LEMMA PublishKept ==
    ASSUME TypeInv, SafeInv, WholeInv,
           CompactPublish \/ UnlinkNamed \/ TruncateCurrent \/ AppendCurrent
    PROVE  \A w \in Writer : Kept(w)'
<1> USE DEF TypeInv, RecoveryTypeOK
<1>1. /\ UNCHANGED <<logFile, disk, mem, flushing, batch>>
      /\ named' \in {named, {}, disk}
      /\ \A w \in Writer : step'[w] = "idle" <=> step[w] = "idle"
      /\ \/ stage = "naming" /\ stage' = "open"
         \/ stage = "closing" /\ stage' = "flushed"
         \/ stage' = stage /\ stage \in {"open", "closing", "flushed", "naming"}
  <2>1. CASE CompactPublish
    BY <2>1, AddVersionIs DEF CompactPublish, files, processVars, insertVars, history
  <2>2. CASE UnlinkNamed \/ TruncateCurrent
    <3>1. stage \in {"naming", "open", "closing", "flushed"}
      BY <2>2 DEF UnlinkNamed, TruncateCurrent, SafeInv, Named
    <3> QED BY <2>2, <3>1 DEF UnlinkNamed, TruncateCurrent, processVars, insertVars, history
  <2>3. CASE AppendCurrent
    <3>1. stage \in {"naming", "open", "closing", "flushed"}
      BY <2>3 DEF AppendCurrent, SafeInv, Named
    <3> QED BY <2>3, <3>1 DEF AppendCurrent, history
  <2> QED BY <2>1, <2>2, <2>3
<1>2. stage = "naming" => flushing = {}
  BY DEF SafeInv, Quiet
<1>3. SUFFICES ASSUME NEW w \in Writer, Small(w)' PROVE Kept(w)'
  BY DEF Kept
<1>4. Small(w) /\ Kept(w)
  BY <1>1, <1>3 DEF Small, WholeInv
<1>5. AllOrNone(w, named)' /\ AllOrNone(w, logFile)' /\ AllOrNone(w, disk)' /\ AllOrNone(w, mem)'
      /\ AllOrNone(w, flushing)'
  BY <1>1, <1>4 DEF Kept, AllOrNone
<1>6. step'[w] = "idle" => batch'[w] \subseteq Persisted' /\ (stage' = "open" => batch'[w] \subseteq Stored')
  BY <1>1, <1>2, <1>4 DEF Kept, Persisted, Stored
<1> QED BY <1>5, <1>6 DEF Kept

LEMMA ProcessKept ==
    ASSUME TypeInv, SafeInv, WholeInv, [RecoveryNext]_recoveryVars,
           ~\E w \in Writer : WriterStep(w)
    PROVE  \A w \in Writer : Kept(w)'
<1> USE DEF TypeInv, RecoveryTypeOK
<1>1. CASE CompactPublish \/ UnlinkNamed \/ TruncateCurrent \/ AppendCurrent
  BY <1>1, PublishKept
<1>2. SUFFICES ASSUME NEW w \in Writer, Small(w)', batch'[w] # {} PROVE Kept(w)'
  BY DEF Kept, AllOrNone
<1>3. batch'[w] = batch[w] /\ Small(w) /\ Kept(w)
  BY <1>2, ProcessBatches DEF Small, WholeInv
<1>4. stage # "open" => step[w] = "idle"
  OBVIOUS
<1>5. CASE Start
  <2>1. /\ stage = "down" /\ stage' = (IF logFile = {} THEN "open" ELSE "recover")
        /\ disk' = named
        /\ UNCHANGED <<logFile, named, mem, flushing, step>>
    BY <1>5 DEF Start, files, insertVars
  <2> QED BY <1>3, <1>4, <2>1 DEF Kept, AllOrNone, Persisted, Stored
<1>6. CASE TruncateLog
  <2>1. /\ stage = "recover" /\ stage' = "truncated" /\ logFile' = {} /\ mem' = {}
        /\ flushing' = IF Fits(logFile) THEN mem \cup logFile ELSE mem
        /\ Fits(logFile) \/ batch'[w] = (IF batch[w] \cap disk = {} THEN {} ELSE batch[w])
        /\ UNCHANGED <<named, disk, step>>
    BY <1>6 DEF TruncateLog, version, insertVars
  <2>2. mem = {}
    BY <2>1 DEF SafeInv, Quiet
  <2>3. AllOrNone(w, named)' /\ AllOrNone(w, logFile)' /\ AllOrNone(w, disk)' /\ AllOrNone(w, mem)'
        /\ AllOrNone(w, flushing)'
    BY <1>3, <2>1, <2>2 DEF Kept, AllOrNone
  <2>4. batch[w] \subseteq disk \cup logFile
    BY <1>3, <1>4, <2>1 DEF Kept, Persisted
  <2>5. batch'[w] \subseteq disk' \cup flushing'
    <3>1. CASE Fits(logFile)
      BY <1>3, <2>1, <2>4, <3>1
    <3>2. CASE ~Fits(logFile)
      <4>1. batch[w] \cap disk # {}
        BY <1>2, <1>3, <2>1, <3>2
      <4> QED BY <1>3, <2>1, <4>1 DEF Kept, AllOrNone
    <3> QED BY <3>1, <3>2
  <2> QED BY <2>1, <2>3, <2>5 DEF Kept, Persisted
<1>7. CASE FlushRecovered
  <2>1. /\ stage = "truncated" /\ flushing' = {} /\ disk' = disk \cup flushing
        /\ stage' \in {"open", "naming"}
        /\ UNCHANGED <<logFile, named, mem, step>>
    BY <1>7, AddVersionIs DEF FlushRecovered, files, version, insertVars
  <2>2. AllOrNone(w, named)' /\ AllOrNone(w, logFile)' /\ AllOrNone(w, disk)' /\ AllOrNone(w, mem)'
        /\ AllOrNone(w, flushing)'
    BY <1>3, <2>1 DEF Kept, AllOrNone
  <2>3. batch[w] \subseteq disk \cup flushing
    BY <1>3, <1>4, <2>1 DEF Kept, Persisted
  <2> QED BY <1>3, <2>1, <2>2, <2>3 DEF Kept, Persisted, Stored
<1>8. CASE Close
  <2>1. /\ stage = "open" /\ step[w] = "idle" /\ \A v \in Writer : step[v] = "idle"
        /\ mem' = {} /\ disk' = disk \cup mem /\ stage' \in {"closed", "closing"}
        /\ UNCHANGED <<logFile, named, flushing, step>>
    BY <1>8, AddVersionIs DEF Close, files, version, insertVars
  <2>2. flushing = {}
    BY <2>1 DEF SafeInv, Quiet
  <2>3. AllOrNone(w, named)' /\ AllOrNone(w, logFile)' /\ AllOrNone(w, disk)' /\ AllOrNone(w, mem)'
        /\ AllOrNone(w, flushing)'
    BY <1>3, <2>1 DEF Kept, AllOrNone
  <2>4. batch[w] \subseteq disk \cup mem
    BY <1>3, <2>1, <2>2 DEF Kept, Stored
  <2> QED BY <1>3, <2>1, <2>3, <2>4 DEF Kept, Persisted
<1>9. CASE TruncateSeqFile \/ WriteSeqFile \/ DeleteLog
  <2>1. /\ stage \in {"flushed", "renumbering", "numbered"}
        /\ stage' \in {"renumbering", "numbered", "closed"}
        /\ logFile' \in {logFile, {}}
        /\ UNCHANGED <<named, disk, mem, flushing, step>>
    BY <1>9 DEF TruncateSeqFile, WriteSeqFile, DeleteLog, version, insertVars
  <2>2. AllOrNone(w, named)' /\ AllOrNone(w, logFile)' /\ AllOrNone(w, disk)' /\ AllOrNone(w, mem)'
        /\ AllOrNone(w, flushing)'
    BY <1>3, <2>1 DEF Kept, AllOrNone
  <2> QED BY <1>3, <1>4, <2>1, <2>2 DEF Kept, Persisted
<1>10. CASE Exit \/ Crash
  <2>1. /\ stage' = "down" /\ UNCHANGED <<logFile, named>>
        /\ disk' = {} /\ mem' = {} /\ flushing' = {}
        /\ batch'[w] = IF batch[w] \cap (logFile \cup named) = {} THEN {} ELSE batch[w]
    BY <1>10 DEF Exit, Crash, ProcessGone, files
  <2>2. batch[w] \cap logFile # {} \/ batch[w] \cap named # {}
    BY <1>2, <2>1
  <2>3. batch[w] \subseteq logFile \/ batch[w] \subseteq named
    BY <1>3, <2>2 DEF Kept, AllOrNone
  <2>4. AllOrNone(w, named)' /\ AllOrNone(w, logFile)' /\ AllOrNone(w, disk)' /\ AllOrNone(w, mem)'
        /\ AllOrNone(w, flushing)'
    BY <1>3, <2>1 DEF Kept, AllOrNone
  <2> QED BY <1>3, <2>1, <2>3, <2>4 DEF Kept, Persisted
<1>11. CASE UNCHANGED recoveryVars
  BY <1>3, <1>11 DEF recoveryVars, files, version, processVars, insertVars, history, Kept, AllOrNone,
              Persisted, Stored
<1> QED BY <1>1, <1>5, <1>6, <1>7, <1>8, <1>9, <1>10, <1>11 DEF RecoveryNext

\* A batch that fits in the buffer of the log is never split by a crash, however
\* many follow, wherever they come.
THEOREM BatchesStayWhole == RecoverySpec => []BatchWhole
<1> DEFINE WInv == TypeInv /\ SafeInv /\ WholeInv
<1>1. RecoveryInit => WInv
  BY TypeInit, SafeInit, WholeInit
<1>2. WInv /\ [RecoveryNext]_recoveryVars => WInv'
  <2>1. SUFFICES ASSUME TypeInv, SafeInv, WholeInv, [RecoveryNext]_recoveryVars
                 PROVE  TypeInv' /\ SafeInv' /\ WholeInv'
    OBVIOUS
  <2>2. TypeInv' /\ SafeInv' /\ LogBufInv' /\ Fresh'
    BY <2>1, TypeStep, SafeStep, BufStep, FreshStep DEF WholeInv
  <2>3. \A w \in Writer : Kept(w)'
    BY <2>1, WriterKept, ProcessKept
  <2> QED BY <2>2, <2>3 DEF WholeInv
<1>3. WInv => BatchWhole
  BY DEF WholeInv, Kept, Small, BatchWhole
<1> HIDE DEF WInv
<1> QED BY <1>1, <1>2, <1>3, PTL DEF RecoverySpec
=============================================================================
