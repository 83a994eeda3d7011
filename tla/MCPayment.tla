------------------------------- MODULE MCPayment ------------------------------
(***************************************************************************)
(* Payment for the model checker.                                          *)
(***************************************************************************)
EXTENDS Payment, TLC

Symmetry == Permutations(Callers) \cup Permutations(Msgs)
===============================================================================
