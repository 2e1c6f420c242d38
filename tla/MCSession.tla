----------------------------- MODULE MCSession -----------------------------
(***************************************************************************)
(* Session with two streams, for TLC.                                      *)
(***************************************************************************)
EXTENDS Session, TLC

Symmetry == Permutations(Stream)
=============================================================================
