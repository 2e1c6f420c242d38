----------------------------- MODULE MCRecords -----------------------------
(***************************************************************************)
(* An instance of Records for TLC: visitors of two networks, one of whom   *)
(* has the address that stands for their network.                          *)
(***************************************************************************)
EXTENDS Records, TLC

Symmetry == Permutations(Request)
=============================================================================
