----------------------------- MODULE MCMonitor ------------------------------
(***************************************************************************)
(* Instances of Monitor for TLC: a history of four points, which five      *)
(* samples compact, and a timeline on which a stint may begin after that.  *)
(***************************************************************************)
EXTENDS Monitor
=============================================================================
