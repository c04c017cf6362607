------------------------------ MODULE EntryLog ------------------------------
(***************************************************************************)
(* What a pre-write log promises, without its bytes: entries are appended  *)
(* in order, a crash loses the last of those that were not made durable,   *)
(* and never one before another that it keeps.                             *)
(***************************************************************************)
EXTENDS Naturals, Sequences

CONSTANT Item       \* what is logged

VARIABLES
    durable,        \* the entries that a crash leaves
    pending         \* those that it may lose

entryLogVars == <<durable, pending>>

LogInit == durable = <<>> /\ pending = <<>>

LogItem(e) ==
    /\ pending' = Append(pending, e)
    /\ UNCHANGED durable

\* Everything is made durable.
Persist ==
    /\ durable' = durable \o pending
    /\ pending' = <<>>

\* A crash keeps the first of the pending entries.
Lose ==
    /\ \E n \in 0 .. Len(pending) : durable' = durable \o SubSeq(pending, 1, n)
    /\ pending' = <<>>

\* The store has the entries elsewhere, and empties the log.
Empty == durable' = <<>> /\ pending' = <<>>

LogNext ==
    \/ \E e \in Item : LogItem(e)
    \/ Persist
    \/ Lose
    \/ Empty

LogSpec == LogInit /\ [][LogNext]_entryLogVars
=============================================================================
