------------------------------ MODULE MCCerts ------------------------------
(***************************************************************************)
(* Instances of Certs for TLC: two handshakes and up to two renewals, so   *)
(* that a slow reload can meet the next renewal and the next reload.       *)
(***************************************************************************)
EXTENDS Certs
=============================================================================
