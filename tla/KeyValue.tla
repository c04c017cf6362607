------------------------------ MODULE KeyValue ------------------------------
(***************************************************************************)
(* What db.h promises of a store with one writer, without memtables,       *)
(* levels and compactions: batches are stored as a whole, and a get finds  *)
(* the newest entry stored when it looked, up to the number of its         *)
(* snapshot.                                                               *)
(*                                                                         *)
(* One weakness is part of the promise, since the code has it: what was    *)
(* stored is made durable now and then, and if that comes after a snapshot *)
(* was begun, a get with this snapshot may find only what was durable      *)
(* before.                                                                 *)
(***************************************************************************)
EXTENDS Entries

CONSTANTS
    Reader,
    Writes       \* the batches written: sequences of keys

VARIABLES
    last,        \* the last number given to an entry
    pending,     \* the batch that is being inserted
    stored,      \* all entries of batches whose insert returned
    durable,     \* those of them that a snapshot may rely on
    phase,       \* what each reader does
    asOf,        \* what was durable when its snapshot was begun
    upTo,        \* the number of its snapshot
    asked,       \* the key and the number of its get
    sees,        \* what was stored when its get looked
    answer       \* of each key, the number of the entry found last, or 0

kvVars == <<last, pending, stored, durable, phase, asOf, upTo, asked, sees, answer>>
readerState == <<phase, asOf, upTo, asked, sees, answer>>
writerState == <<last, pending, stored, durable>>

Nothing == [k \in Key |-> 0]

KvInit ==
    /\ last = 0
    /\ pending = {}
    /\ stored = {}
    /\ durable = {}
    /\ phase = [r \in Reader |-> "none"]
    /\ asOf = [r \in Reader |-> {}]
    /\ upTo = [r \in Reader |-> 0]
    /\ asked = [r \in Reader |-> {}]
    /\ sees = [r \in Reader |-> {}]
    /\ answer = [r \in Reader |-> Nothing]

\* An insert is called ...
Begin ==
    /\ pending = {}
    /\ \E keys \in Writes :
          /\ pending' = Numbered(keys, last + 1)
          /\ last' = last + Len(keys)
    /\ UNCHANGED <<stored, durable, readerState>>

\* ... and returns.
Store ==
    /\ pending # {}
    /\ stored' = stored \cup pending
    /\ pending' = {}
    /\ UNCHANGED <<last, durable, readerState>>

Persist ==
    /\ durable' = stored
    /\ UNCHANGED <<last, pending, stored, readerState>>

\* A snapshot is begun ...
BeginSnapshot(r) ==
    /\ phase[r] = "none"
    /\ phase' = [phase EXCEPT ![r] = "begun"]
    /\ asOf' = [asOf EXCEPT ![r] = durable]
    /\ UNCHANGED <<writerState, upTo, asked, sees, answer>>

\* ... and has a number.
EndSnapshot(r) ==
    /\ phase[r] = "begun"
    /\ phase' = [phase EXCEPT ![r] = "held"]
    /\ upTo' = [upTo EXCEPT ![r] = last]
    /\ UNCHANGED <<writerState, asOf, asked, sees, answer>>

\* A snapshot with number zero is none: the get takes the latest number.
Ask(r, k) ==
    /\ phase[r] = "held"
    /\ phase' = [phase EXCEPT ![r] = "asked"]
    /\ asked' = [asked EXCEPT ![r] =
                   {[key |-> k, seq |-> IF upTo[r] = 0 THEN last ELSE upTo[r]]}]
    /\ UNCHANGED <<writerState, asOf, upTo, sees, answer>>

Look(r) ==
    /\ phase[r] = "asked"
    /\ phase' = [phase EXCEPT ![r] = "looked"]
    /\ sees' = [sees EXCEPT ![r] = stored]
    /\ UNCHANGED <<writerState, asOf, upTo, asked, answer>>

\* What a get may take for the content of the store: with a snapshot it is
\* what was durable, without one it may be any part of what is stored.
LateContents(r) ==
    IF asOf[r] = durable THEN {}
    ELSE IF upTo[r] = 0 THEN SUBSET stored ELSE {asOf[r]}

\* The get returns the newest entry of the content E.
Return(r, E) ==
    /\ phase' = [phase EXCEPT ![r] = "held"]
    /\ \E q \in asked[r] :
          answer' = [answer EXCEPT ![r][q.key] = LargestSeq(OfKey(E, q.key, q.seq), q.key)]
    /\ asked' = [asked EXCEPT ![r] = {}]
    /\ UNCHANGED <<writerState, asOf, upTo>>

\* It looks and returns at once, ...
Answer(r) ==
    /\ phase[r] = "asked"
    /\ Return(r, stored)
    /\ UNCHANGED sees

\* ... or later.
AnswerLater(r) ==
    /\ phase[r] = "looked"
    /\ \E E \in {sees[r]} \cup LateContents(r) : Return(r, E)
    /\ sees' = [sees EXCEPT ![r] = {}]

DropSnapshot(r) ==
    /\ phase[r] = "held"
    /\ phase' = [phase EXCEPT ![r] = "none"]
    /\ asOf' = [asOf EXCEPT ![r] = {}]
    /\ upTo' = [upTo EXCEPT ![r] = 0]
    /\ answer' = [answer EXCEPT ![r] = Nothing]
    /\ UNCHANGED <<writerState, asked, sees>>

KvReaderStep(r) ==
    \/ BeginSnapshot(r)
    \/ EndSnapshot(r)
    \/ \E k \in Key : Ask(r, k)
    \/ Look(r)
    \/ Answer(r)
    \/ AnswerLater(r)
    \/ DropSnapshot(r)

KvNext ==
    \/ Begin
    \/ Store
    \/ Persist
    \/ \E r \in Reader : KvReaderStep(r)

KvSpec == KvInit /\ [][KvNext]_kvVars
=============================================================================
