------------------------------ MODULE Entries -------------------------------
(***************************************************************************)
(* Entries: a user key with a sequence number, which stands for the value  *)
(* written under it, or for a tombstone.                                   *)
(***************************************************************************)
EXTENDS Naturals, FiniteSets, Sequences, FiniteSetsExt

CONSTANT Key     \* user keys; numbers, for their order

ASSUME KeyAssumption == Key \subseteq Nat

\* Sequence numbers are compared between entries of one key only.
Entry == [key : Key, seq : Nat]

OfKey(E, k, s) == {e \in E : e.key = k /\ e.seq <= s}

\* The entry of k with the largest sequence number up to s: none or one.
NewestOf(E, k, s) ==
    {e \in OfKey(E, k, s) : \A d \in OfKey(E, k, s) : d.seq <= e.seq}

\* The largest sequence number of k in E, or zero.
LargestSeq(E, k) == Max({e.seq : e \in {e \in E : e.key = k}} \cup {0})

\* set_first_sequence_num: the entries of a batch are numbered in turn.
Numbered(keys, first) ==
    {[key |-> keys[i], seq |-> first + i - 1] : i \in DOMAIN keys}
=============================================================================
