------------------------------- MODULE MCPlot -------------------------------
(***************************************************************************)
(* An instance of Plot for TLC: enough time for two tests, with series     *)
(* that fill up and a view from the closest to the widest.                 *)
(***************************************************************************)
EXTENDS Plot
=============================================================================
