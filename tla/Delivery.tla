------------------------------- MODULE Delivery -------------------------------
(***************************************************************************)
(* What the delivery tables promise of an external request, whatever the   *)
(* dispatchers, the provider and the callbacks do: it is requested once,   *)
(* may be sent, and is confirmed by the first receipt; it never goes back, *)
(* and a receipt that was accepted stays as it was accepted.               *)
(***************************************************************************)
CONSTANTS
    Requests,       \* external requests
    Receipts        \* receipts: records with msg, req and body

VARIABLES
    phase,          \* request -> none, requested, sent or confirmed
    kept            \* accepted receipts

vars == <<phase, kept>>

Init ==
    /\ phase = [r \in Requests |-> "none"]
    /\ kept = {}

Request(r) ==
    /\ phase[r] = "none"
    /\ phase' = [phase EXCEPT ![r] = "requested"]
    /\ UNCHANGED kept

Send(r) ==
    /\ phase[r] = "requested"
    /\ phase' = [phase EXCEPT ![r] = "sent"]
    /\ UNCHANGED kept

\* A request that was given up (requested for ever) may still be confirmed.
Confirm(x) ==
    /\ phase[x.req] # "none"
    /\ \A y \in kept : y.msg # x.msg
    /\ phase' = [phase EXCEPT ![x.req] = "confirmed"]
    /\ kept' = kept \cup {x}

Next ==
    \/ \E r \in Requests : Request(r) \/ Send(r)
    \/ \E x \in Receipts : Confirm(x)

Spec == Init /\ [][Next]_vars
===============================================================================
