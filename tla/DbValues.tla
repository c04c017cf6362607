------------------------------ MODULE DbValues ------------------------------
(***************************************************************************)
(* The open store of DbLocal implements the abstract store of KeyValue, if *)
(* it has one writer and no background loop compacts beside it.            *)
(*                                                                         *)
(* Compactions drop entries that a newer one hides, so what was stored is  *)
(* kept in history variables, which no step of the store reads.            *)
(***************************************************************************)
EXTENDS DbLocal

VARIABLES
    stored,      \* the entries of inserts that returned
    durable,     \* those that were flushed
    asOf,        \* of each reader, what was flushed when its snapshot was begun
    sees         \* what was stored when its get searched the memtable

historyVars == <<stored, durable, asOf, sees>>
valuesVars == <<dbVars, historyVars>>

ASSUME OneWriterAssumption == \A v, w \in Writer : v = w

ValuesInit ==
    /\ DbInit
    /\ stored = {}
    /\ durable = {}
    /\ asOf = [r \in Reader |-> {}]
    /\ sees = [r \in Reader |-> {}]

\* What reader r keeps of x: it begins with the step from stage a, and ends with
\* the step to stage b.
KeptOf(r, old, x, a, b) ==
    IF stage'[r] = b THEN {} ELSE IF stage[r] = a /\ stage'[r] # a THEN x ELSE old

RecordHistory ==
    /\ stored' = stored \cup (mem' \ mem)
    /\ durable' = durable \cup (flushing \ flushing')
    /\ asOf' = [r \in Reader |-> KeptOf(r, asOf[r], durable, "idle", "idle")]
    /\ sees' = [r \in Reader |-> KeptOf(r, sees[r], stored, "asked", "held")]

ValuesNext == DbNext /\ RecordHistory

ValuesSpec == ValuesInit /\ [][ValuesNext]_valuesVars

(***************************************************************************)
(* The refinement.                                                         *)
(***************************************************************************)
Pending == UNION {batch[w] : w \in {w \in Writer : step[w] # "idle"}}

PhaseOf(r) ==
    CASE stage[r] = "idle" -> "none"
      [] stage[r] = "pinned" -> "begun"
      [] stage[r] = "tables" -> "looked"
      [] stage[r] \in {"held", "asked"} -> stage[r]

Asked(r) == IF stage[r] \in {"asked", "tables"} THEN {query[r]} ELSE {}

KV ==
    INSTANCE KeyValue WITH
        last <- nextSeq - 1,
        pending <- Pending,
        phase <- [r \in Reader |-> PhaseOf(r)],
        upTo <- view,
        asked <- [r \in Reader |-> Asked(r)],
        answer <- got

\* Batches are stored as a whole, and what a get finds is what was stored when
\* it looked, up to its number; only when a memtable was flushed after the
\* snapshot was begun may it be what had been flushed before.
StoresValues == KV!KvSpec
=============================================================================
