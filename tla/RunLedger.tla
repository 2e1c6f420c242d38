----------------------------- MODULE RunLedger -----------------------------
(***************************************************************************)
(* What the server promises about runs: each is opened once, ends once, is *)
(* recorded at most once and only after it ended, and what is recorded is  *)
(* never taken back.  A run may also be given up at any point before it is *)
(* recorded: because nobody came back for it, because there was nothing to *)
(* store or storing failed, or because the server restarted.               *)
(* Runs.tla is shown to implement this.                                    *)
(***************************************************************************)
EXTENDS Sequences

CONSTANT Run

VARIABLES status, \* where each run is in its life
          book    \* the runs on record, oldest first

lvars == <<status, book>>

LInit ==
    /\ status = [r \in Run |-> "unused"]
    /\ book = << >>

Becomes(R, old, new) ==
    /\ \A r \in R : status[r] \in old
    /\ status' = [r \in Run |-> IF r \in R THEN new ELSE status[r]]

OpenRun(r) ==
    /\ Becomes({r}, {"unused"}, "measuring")
    /\ UNCHANGED book

EndRun(r) ==
    /\ Becomes({r}, {"measuring"}, "ended")
    /\ UNCHANGED book

Record(r) ==
    /\ Becomes({r}, {"ended"}, "recorded")
    /\ book' = Append(book, r)

GiveUp(R) ==
    /\ Becomes(R, {"measuring", "ended"}, "given up")
    /\ UNCHANGED book

LNext ==
    \/ \E R \in SUBSET Run : GiveUp(R)
    \/ \E r \in Run : OpenRun(r) \/ EndRun(r) \/ Record(r)

LSpec == LInit /\ [][LNext]_lvars
=============================================================================
