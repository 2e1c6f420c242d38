------------------------------ MODULE MCLift ------------------------------
(***************************************************************************)
(* Instances of Lift for TLC, with the proportions of tempo.ts in beats of *)
(* about half a second: a landing is shorter than a fall over the whole    *)
(* dial, and a throw outlasts it.                                          *)
(***************************************************************************)
EXTENDS Lift
=============================================================================
