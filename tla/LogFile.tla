------------------------------ MODULE LogFile -------------------------------
(***************************************************************************)
(* The pre-write log as bytes: a batch is numbered, its entries are        *)
(* serialized into the buffer of the file and the buffer is written, and   *)
(* after a crash the entries are parsed from what the file has.            *)
(*                                                                         *)
(* A length or a number is one cell, and so is each character of a key or  *)
(* a value.  Batches are logged one at a time, under the mutex of the log; *)
(* that writers overlap elsewhere, and what the store does with what is    *)
(* recovered, is in Recovery.  A crash may leave the first part of a write *)
(* only, and parsing then reads past the end of what was read.             *)
(***************************************************************************)
EXTENDS Batches, Buffers

CONSTANTS
    Length,      \* how many characters a key or a value has
    Capacity,    \* of the buffer of the log: disk_block_bytes, or 0 if unbuffered
    LengthLimit, \* the length of a key has sixteen bits: this is 2^16
    Garbled,     \* a value of bytes that nobody wrote
    MaxSeq       \* bound on the sequence numbers used

ASSUME LogAssumption ==
    /\ Length \in [Key \cup {NoKey, Tomb} \cup Value -> Nat]
    /\ Length[Tomb] = 0
    /\ \A k \in Key \cup {NoKey} : Length[k] = 0 <=> k = NoKey
    /\ \A k \in Key : Length[k] < LengthLimit
    /\ LengthLimit \in Nat \ {0}
    /\ Capacity \in Nat /\ MaxSeq \in Nat

VARIABLES
    log,         \* m_log_file: its buffer and what the file has
    stage,       \* where the process is
    nextSeq,     \* m_newest_unused_seq
    cursor,      \* the entries of the batch that are serialized
    sent,        \* history: all entries serialized since the log was emptied
    returned,    \* how many of those are of inserts that returned
    cut,         \* history: whether a crash cut a write of the log short
    recovered    \* what recover returns

logFileVars == <<log, stage, nextSeq, cursor, sent, returned, cut, recovered>>
logVars == <<batchVars, logFileVars>>

(***************************************************************************)
(* The bytes of an entry.                                                  *)
(***************************************************************************)
Field(f, x) == <<[field |-> f, of |-> x, at |-> 0]>>
Characters(f, x) == [i \in 1 .. Length[x] |-> [field |-> f, of |-> x, at |-> i]]

\* sequenced_key::serialize_to
SerializedKey(e) ==
    Field("key length", Length[e.key] % LengthLimit)
        \o Characters("key", e.key) \o Field("number", e.seq)

\* kv_user_value::serialize_to
SerializedValue(v) == Field("value length", Length[v]) \o Characters("value", v)

\* kv_entry::serialize_to
Serialized(e) ==
    LET s == SerializedKey(e) \o SerializedValue(e.value)
    IN  Field("total", Len(s) + 1) \o s

\* serialized_bytes_size
SizeOf(e) == Len(Serialized(e))

(***************************************************************************)
(* Parsing.  An entry begins at cell i of the cells c.                     *)
(***************************************************************************)
TotalAt(c, i) == c[i].of
KeyLengthAt(c, i) == c[i + 1].of

\* serialized_sequenced_key, and the constructor of sequenced_key.
KeyAt(c, i) ==
    CHOOSE k \in Key \cup {NoKey} :
        Characters("key", k) = SubSeq(c, i + 2, i + 1 + KeyLengthAt(c, i))
NumberAt(c, i) == c[i + 2 + KeyLengthAt(c, i)].of

\* kv_user_value::parse
ValueAt(c, i) ==
    LET j == i + 3 + KeyLengthAt(c, i)
    IN  IF c[j].of = 0 THEN Tomb
        ELSE CHOOSE v \in Value : Characters("value", v) = SubSeq(c, j + 1, j + c[j].of)

EntryAt(c, i) == Record(KeyAt(c, i), NumberAt(c, i), ValueAt(c, i))

\* next_serialized_entry_beg
NextAt(c, i) == i + TotalAt(c, i)

\* An entry begins at cell i, and all of it is there.
WholeAt(c, i) == i <= Len(c) /\ NextAt(c, i) \in (i + 1) .. (Len(c) + 1)

\* kv_entries_from_buffer, as far as the cells go.
EntriesFrom(c) ==
    LET from[i \in 1 .. Len(c) + 1] ==
            IF WholeAt(c, i) THEN <<EntryAt(c, i)>> \o from[NextAt(c, i)] ELSE <<>>
    IN  from[1]

\* The cells of an entry that is not all there.
TornTail(c) ==
    LET from[i \in 1 .. Len(c) + 1] ==
            IF WholeAt(c, i) THEN from[NextAt(c, i)] ELSE SubSeq(c, i, Len(c))
    IN  from[1]

Torn(c) == TornTail(c) # <<>>

\* What parsing makes of such an entry: the fields that are there are right,
\* all others are what memory has behind the buffer.
Overread(t) ==
    LET keyThere == Len(t) > 1 /\ Len(t) >= 2 + KeyLengthAt(t, 1)
        numberThere == keyThere /\ Len(t) >= 3 + KeyLengthAt(t, 1)
        lengthThere == numberThere /\ Len(t) >= 4 + KeyLengthAt(t, 1)
    IN  {Record(k, n, v) :
            k \in IF keyThere THEN {KeyAt(t, 1)} \ {NoKey} ELSE Key,
            n \in IF numberThere THEN {NumberAt(t, 1)} ELSE {0, MaxSeq},
            v \in IF lengthThere THEN {Garbled} ELSE {Garbled, Tomb}}

(***************************************************************************)
(* insert                                                                  *)
(***************************************************************************)
Stages == {"open", "logging", "down", "recovered", "aborted"}

LogTypeOK ==
    /\ log.buffer.capa = Capacity
    /\ Len(log.buffer.data) <= Capacity
    /\ stage \in Stages
    /\ nextSeq \in Nat
    /\ cursor \in 0 .. Len(entries)
    /\ returned \in 0 .. Len(sent)
    /\ cut \in BOOLEAN
    /\ \A r \in Range(recovered) : r.value \in Value \cup {Tomb, Garbled}

LogFileInit ==
    /\ BatchInit
    /\ log = NewWritable(Capacity, <<>>)
    /\ stage = "open"
    /\ nextSeq = First
    /\ cursor = 0
    /\ sent = <<>>
    /\ returned = 0
    /\ cut = FALSE
    /\ recovered = <<>>

\* A client fills a batch ...
Fill ==
    /\ stage = "open"
    /\ FillBatch
    /\ nextSeq + Len(entries') - 1 <= MaxSeq
    /\ UNCHANGED logFileVars

\* ... and inserts it: it is numbered.
Insert ==
    /\ stage = "open"
    /\ SetFirst(nextSeq)
    /\ nextSeq' = nextSeq + Len(entries)
    /\ stage' = "logging"
    /\ UNCHANGED <<log, cursor, sent, returned, cut, recovered>>

AllSerialized == cursor = Len(entries)
NextEntry == entries[cursor + 1]
NextFits == ~AllSerialized /\ SizeOf(NextEntry) <= Left(log.buffer)

\* Mutant: the buffer is written only to make room.
WhenFull == ~AllSerialized /\ ~NextFits

\* The buffer is written when an entry made it full, when the next one has no
\* room, and by may_flush_impl after the last one.
FlushIsDue == IsFull(log.buffer) \/ ~NextFits

MustFlush == stage = "logging" /\ FlushIsDue /\ log.buffer.data # <<>>

Flush ==
    /\ MustFlush
    /\ log' = FlushValid(log)
    /\ UNCHANGED <<batchVars, stage, nextSeq, cursor, sent, returned, cut, recovered>>

LogEntry ==
    /\ stage = "logging"
    /\ ~MustFlush
    /\ NextFits
    /\ log' = [log EXCEPT !.buffer = AppendTo(@, Serialized(NextEntry))]
    /\ cursor' = cursor + 1
    /\ sent' = Append(sent, NextEntry)
    /\ UNCHANGED <<batchVars, stage, nextSeq, returned, cut, recovered>>

\* The insert is over, and the client may fill another batch.
InsertOver ==
    /\ stage' = "open"
    /\ cursor' = 0
    /\ NewBatch

\* An entry is larger than the whole buffer: the insert throws, and those of
\* the batch that came before stay in the log.
Throw ==
    /\ stage = "logging"
    /\ ~MustFlush
    /\ ~AllSerialized
    /\ ~NextFits
    /\ InsertOver
    /\ UNCHANGED <<log, nextSeq, sent, returned, cut, recovered>>

EndInsert ==
    /\ stage = "logging"
    /\ ~MustFlush
    /\ AllSerialized
    /\ InsertOver
    /\ returned' = Len(sent)
    /\ UNCHANGED <<log, nextSeq, sent, cut, recovered>>

(***************************************************************************)
(* Crash and recovery                                                      *)
(***************************************************************************)
\* A crash in the middle of a write leaves a part of what was written.
Crash ==
    /\ stage \in {"open", "logging"}
    /\ \E n \in IF MustFlush THEN 0 .. Len(log.buffer.data) ELSE {0} :
          /\ log' = NewWritable(Capacity, log.file \o SubSeq(log.buffer.data, 1, n))
          /\ cut' = (n \notin {0, Len(log.buffer.data)})
    /\ stage' = "down"
    /\ cursor' = 0
    /\ NewBatch
    /\ UNCHANGED <<nextSeq, sent, returned, recovered>>

\* An empty key does not pass the assertion of the constructor.
Parsable(es) == \A i \in DOMAIN es : es[i].key # NoKey

\* recover returns the entries that the file has, and one more if it is torn.
Recover ==
    /\ stage = "down"
    /\ Parsable(EntriesFrom(log.file))
    /\ \/ /\ ~Torn(log.file)
          /\ recovered' = EntriesFrom(log.file)
       \/ /\ Torn(log.file)
          /\ \E e \in Overread(TornTail(log.file)) :
                recovered' = Append(EntriesFrom(log.file), e)
    /\ stage' = "recovered"
    /\ UNCHANGED <<batchVars, log, nextSeq, cursor, sent, returned, cut>>

\* recover ends the process.
Abort ==
    /\ stage = "down"
    /\ ~Parsable(EntriesFrom(log.file)) \/ Torn(log.file)
    /\ stage' = "aborted"
    /\ UNCHANGED <<batchVars, log, nextSeq, cursor, sent, returned, cut, recovered>>

\* truncate_file, and what was recovered is stored elsewhere.
Truncate ==
    /\ stage = "recovered"
    /\ log' = NewWritable(Capacity, <<>>)
    /\ stage' = "open"
    /\ sent' = <<>>
    /\ returned' = 0
    /\ cut' = FALSE
    /\ recovered' = <<>>
    /\ UNCHANGED <<batchVars, nextSeq, cursor>>

LogFileNext ==
    \/ Fill
    \/ Insert
    \/ Flush
    \/ LogEntry
    \/ Throw
    \/ EndInsert
    \/ Crash
    \/ Recover
    \/ Abort
    \/ Truncate

LogFileSpec == LogFileInit /\ [][LogFileNext]_logVars

(***************************************************************************)
(* Properties.                                                             *)
(***************************************************************************)
\* What a reader of the store sees of a logged value: an empty one is no value.
AsRead(es) ==
    [i \in DOMAIN es |-> [es[i] EXCEPT !.value = IF Length[@] = 0 THEN Tomb ELSE @]]

\* Every entry of an insert that returned is recovered, in the order of the
\* log, and what follows was logged too; a torn write adds at most one entry.
RecoveredAsLogged ==
    stage = "recovered" =>
        LET logged == AsRead(sent)
            parsed == IF Torn(log.file) THEN Front(recovered) ELSE recovered
        IN  /\ Torn(log.file) => cut
            /\ IsPrefix(SubSeq(logged, 1, returned), recovered)
            /\ IsPrefix(parsed, logged)

\* The database opens again, unless a batch had an entry of the empty key, or
\* a write of the log was cut short.
OpensAgain ==
    stage = "aborted" =>
        cut \/ \E i \in DOMAIN sent : sent[i].key = NoKey

\* The bytes implement a log of entries: those in the file are durable, those
\* in the buffer are pending.
EntryLog ==
    INSTANCE EntryLog WITH
        Item <- [key : Key \cup {NoKey}, seq : 0 .. MaxSeq, value : Value \cup {Tomb}],
        durable <- EntriesFrom(log.file),
        pending <- EntriesFrom(log.buffer.data)

LogOfEntries == EntryLog!LogSpec
=============================================================================
