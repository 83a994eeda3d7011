------------------------------- MODULE MCOutbox -------------------------------
(***************************************************************************)
(* Outbox for the model checker.                                           *)
(***************************************************************************)
EXTENDS Outbox, TLC

\* Two dispatchers that share an owner name: a dispatcher and its restart, or
\* two of them under the default OUTBOX_OWNER.
SameOwner == [d \in Dispatchers |-> "outbox-dispatcher"]

Symmetry == Permutations(Dispatchers) \cup Permutations(Msgs) \cup Permutations(Bodies)
===============================================================================
