------------------------------ MODULE MCClient ------------------------------
(***************************************************************************)
(* Instances of Client for TLC.  Three attempts are enough for one to      *)
(* overlap, follow or overwrite another, and for a third to be affected.   *)
(***************************************************************************)
EXTENDS Client, TLC

Symmetry == Permutations(Attempt)

\* A visit that uses fewer of the page's controls than another has only some of
\* its behaviours, so the one that uses them all stands for those with its options.
MCSettings == {options \cup Control : options \in SUBSET Option}

\* No property says anything once a start has met a run being opened, so the
\* state such a start leads to is checked and none after it.
Claimed == "opened" \notin unseen
=============================================================================
