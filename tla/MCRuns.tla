------------------------------- MODULE MCRuns -------------------------------
(***************************************************************************)
(* Instances of Runs for TLC.                                              *)
(***************************************************************************)
EXTENDS Runs, TLC

Symmetry == Permutations(Run) \cup Permutations(Stream) \cup Permutations(Closer)
=============================================================================
