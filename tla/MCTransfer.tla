----------------------------- MODULE MCTransfer -----------------------------
(***************************************************************************)
(* Instances of Transfer for TLC: a window longer than the ramp, one       *)
(* shorter than it, and none.                                              *)
(***************************************************************************)
EXTENDS Transfer
=============================================================================
