------------------------------ MODULE Batches -------------------------------
(***************************************************************************)
(* A write batch while a client fills it, until the store numbers its      *)
(* entries and keeps them.                                                 *)
(***************************************************************************)
EXTENDS Entries, SequencesExt

CONSTANTS
    Value,       \* values of writes
    Tomb,        \* a deletion
    NoKey,       \* the empty key, which no client uses
    First,       \* the first number that the store hands out
    Others,      \* batches that are written into this one
    MaxEntries   \* bounds the batch

ASSUME BatchAssumption ==
    /\ Tomb \notin Value
    /\ NoKey \in Nat \ Key
    /\ First \in Nat
    /\ \A o \in Others : o \in Seq([key : Key, seq : Nat, value : Value \cup {Tomb}])

VARIABLES
    entries,    \* m_entries
    seqnumber,  \* m_seqnumber
    asked,      \* history: the last operation on each key, a set of one
    numbered    \* set_first_sequence_num was called, by the store

batchVars == <<entries, seqnumber, asked, numbered>>

Record(k, n, v) == [key |-> k, seq |-> n, value |-> v]

BatchTypeOK ==
    /\ entries \in Seq([key : Key \cup {NoKey}, seq : Nat, value : Value \cup {Tomb}])
    /\ seqnumber \in Nat
    /\ asked \in [Key -> SUBSET (Value \cup {Tomb})]
    /\ numbered \in BOOLEAN

NothingAsked == [k \in Key |-> {}]

BatchInit ==
    /\ entries = <<>>
    /\ seqnumber = 0
    /\ asked = NothingAsked
    /\ numbered = FALSE

\* The client starts another batch.
NewBatch ==
    /\ entries' = <<>>
    /\ seqnumber' = 0
    /\ asked' = NothingAsked
    /\ numbered' = FALSE

\* The client has the batch, and room in the model for n entries more.
Filling(n) ==
    /\ ~numbered
    /\ Len(entries) + n <= MaxEntries
    /\ UNCHANGED <<seqnumber, numbered>>

\* Mutant: numbers are counted down from the first.
CountedDown == seqnumber - Len(entries)

\* The number an entry has until the store numbers the batch.
NextNumber == seqnumber + Len(entries)

\* write(key, value)
Write(k, v) ==
    /\ Filling(1)
    /\ entries' = Append(entries, Record(k, NextNumber, v))
    /\ asked' = [asked EXCEPT ![k] = {v}]

\* write(other): the entries of the other batch, with the numbers they have.
WriteBatch(other) ==
    /\ Filling(Len(other))
    /\ entries' = entries \o other
    /\ asked' = [k \in Key |->
                   LET own == {i \in DOMAIN other : other[i].key = k}
                   IN  IF own = {} THEN asked[k] ELSE {other[Max(own)].value}]

\* remove_from_db(key) when the batch has no entry of the key.
RemoveOther(k) ==
    /\ Filling(1)
    /\ k \notin {e.key : e \in Range(entries)}
    /\ entries' = Append(entries, Record(k, NextNumber, Tomb))
    /\ asked' = [asked EXCEPT ![k] = {Tomb}]

\* What std::remove_if moves to the front.
OthersThan(k) ==
    LET others[i \in 0 .. Len(entries)] ==
            IF i = 0 THEN <<>>
            ELSE IF entries[i].key = k THEN others[i - 1]
            ELSE Append(others[i - 1], entries[i])
    IN  others[Len(entries)]

\* The first entry behind those is made the tombstone.  Entries that were moved
\* to the front left empty strings behind, so it has its key only if it is one
\* of those that were not moved.
LeftBehind(k) ==
    LET e == entries[Len(OthersThan(k)) + 1]
    IN  Record(IF e.key = k THEN k ELSE NoKey, e.seq, Tomb)

\* remove_from_db(key) when the batch has entries of the key.
RemoveOwn(k) ==
    /\ Filling(0)
    /\ k \in {e.key : e \in Range(entries)}
    /\ entries' = Append(OthersThan(k), LeftBehind(k))
    /\ asked' = [asked EXCEPT ![k] = {Tomb}]

\* Mutant: every entry gets the first number.
FirstForAll(first, i) == first

\* repropogate_sequence_num
NumberOf(first, i) == first + i - 1

\* set_first_sequence_num, by the store.
SetFirst(first) ==
    /\ ~numbered
    /\ entries # <<>>
    /\ seqnumber' = first
    /\ entries' = [i \in DOMAIN entries |-> [entries[i] EXCEPT !.seq = NumberOf(first, i)]]
    /\ numbered' = TRUE
    /\ UNCHANGED asked

FillBatch ==
    \/ \E k \in Key : (\E v \in Value : Write(k, v)) \/ RemoveOther(k) \/ RemoveOwn(k)
    \/ \E o \in Others : WriteBatch(o)

BatchNext == FillBatch \/ SetFirst(First)

BatchSpec == BatchInit /\ [][BatchNext]_batchVars

(***************************************************************************)
(* Properties.                                                             *)
(***************************************************************************)
LastNumber == seqnumber + Len(entries) - 1

\* "If there's any write operation relates to the same key specified by the
\* parameter `key` will be removed": what the store finds of a key in the
\* numbered batch is the client's last word on it.  A removed key may also have
\* no entry at all, but never a value it was given before.
LastWordOrNothing ==
    numbered =>
        \A k \in Key : \A v \in asked[k] :
            \/ {e.value : e \in NewestOf(Range(entries), k, LastNumber)} = {v}
            \/ v = Tomb /\ OfKey(Range(entries), k, LastNumber) = {}

\* "Write a tomb record into db": a removed key has a tombstone, so that older
\* values of it in the store are deleted too.
RemovedIsDeleted ==
    numbered =>
        \A k \in Key : asked[k] = {Tomb} =>
            \E e \in Range(entries) : e.key = k /\ e.value = Tomb
=============================================================================
