------------------------------ MODULE Transfer ------------------------------
(***************************************************************************)
(* One throughput phase of the page (engine/phases/transfer-phase.ts with  *)
(* its download and upload streams, and the byte counts of                 *)
(* engine/meter.ts): several streams, each retrying on its own, against a  *)
(* window that the clock ends, and a caller who may abort.                 *)
(*                                                                         *)
(* A step is an event and the promise callbacks before the next one: the   *)
(* end of the last stream and what run does then are one step.  The clock  *)
(* runs from the phase's start, and timers may fire late.                  *)
(***************************************************************************)
EXTENDS Naturals, FiniteSets

CONSTANTS Stream,   \* the parallel streams, at least one
          None,     \* null
          Endless,  \* Infinity
          Windows,  \* options.durationMs
          Graces,   \* options.graceMs
          MaxClock, \* bound: the clock
          MaxMoved  \* bound: the bytes moved

ASSUME TransferAssumption ==
    /\ IsFiniteSet(Stream) /\ Stream # {}
    /\ None \notin [at : Nat, bytes : Nat, total : Nat]
    /\ Endless \notin Nat
    /\ Windows \subseteq Nat \cup {Endless}
    /\ Graces \subseteq Nat
    /\ MaxClock \in Nat /\ MaxMoved \in Nat

MAX_STREAM_FAILURES == 3

VARIABLES window,   \* durationMs
          grace,    \* graceMs
          clock,    \* performance.now() - started
          signal,   \* options.signal.aborted
          control,  \* controller.signal.aborted
          ticking,  \* the ticker's interval is set
          meter,    \* RateMeter: all bytes, those at the grace mark, graced
          captured, \* the result, or null
          streams,  \* what each transfer is at, and its failures in a row
          outcome,  \* what run returned or threw, or "running"
          ramp      \* history: bytes moved in the grace period, up to the figure

options == <<window, grace>>
tvars == <<options, clock, signal, control, ticking, meter, captured, streams, outcome, ramp>>

Finite == window # Endless

InitTransfer ==
    /\ window \in Windows
    /\ grace \in Graces
    /\ clock = 0
    /\ signal = FALSE
    /\ control = FALSE
    /\ ticking = TRUE
    /\ meter = [total |-> 0, base |-> 0, graced |-> FALSE]
    /\ captured = None
    /\ streams = [s \in Stream |-> [at |-> "request", failures |-> 0]]
    /\ outcome = "running"
    /\ ramp = 0

-----------------------------------------------------------------------------
(* The meter and the result.                                               *)

MarkGraceOnly(m) == [m EXCEPT !.graced = TRUE] \* mutant: the ramp's bytes stay in

MarkGrace(m) == [m EXCEPT !.base = m.total, !.graced = TRUE]

Graced(m) == IF m.graced THEN m ELSE MarkGrace(m)

\* The first capture counts; a window shorter than the grace period is empty.
Capture(m) ==
    IF captured # None THEN captured
    ELSE [at |-> clock, bytes |-> m.total - Graced(m).base, total |-> m.total]

Over(stream) == stream.at \in {"returned", "rejected"}

EndingBlind(next) == \* mutant: an abort is not told from a finished window
    IF (\A s \in Stream : next[s].at = "rejected") /\ ~signal THEN "failed" ELSE "result"

(***************************************************************************)
(* How the phase ends once every stream is over: all of them giving up is  *)
(* a failure; being cut short is one only where there was a window.        *)
(***************************************************************************)
Ending(next) ==
    IF (\A s \in Stream : next[s].at = "rejected") /\ ~signal THEN "failed"
    ELSE IF signal /\ captured = None /\ Finite THEN "aborted"
    ELSE "result"

\* Promise.allSettled, with streams and meter as they are now, and what follows it.
SettleAll(next, m) ==
    IF \E s \in Stream : ~Over(next[s])
    THEN meter' = m /\ UNCHANGED <<control, ticking, captured, outcome>>
    ELSE /\ control' = TRUE
         /\ ticking' = FALSE
         /\ outcome' = Ending(next)
         /\ IF outcome' = "result"
            THEN /\ captured' = Capture(m)
                 /\ meter' = Graced(m)
            ELSE meter' = m /\ UNCHANGED captured

-----------------------------------------------------------------------------
(* The ticker and the caller.                                              *)

\* The interval of TICK_MS.
Ticker ==
    /\ ticking
    /\ LET marked == IF clock >= grace THEN Graced(meter) ELSE meter
       IN  IF Finite /\ clock >= window
           THEN /\ captured' = Capture(marked)
                /\ meter' = Graced(marked)
                /\ ticking' = FALSE
                /\ control' = TRUE
           ELSE /\ meter' = marked
                /\ UNCHANGED <<captured, ticking, control>>
    /\ UNCHANGED <<options, clock, signal, streams, outcome, ramp>>

CallerUnheard == \* mutant: the streams are not told
    /\ outcome = "running" /\ ~signal
    /\ signal' = TRUE
    /\ UNCHANGED <<options, clock, control, ticking, meter, captured, streams, outcome, ramp>>

\* options.signal aborts; the listener passes it on while run is under way.
CallerAborts ==
    /\ outcome = "running" /\ ~signal
    /\ signal' = TRUE
    /\ control' = TRUE
    /\ UNCHANGED <<options, clock, ticking, meter, captured, streams, outcome, ramp>>

Pass ==
    /\ outcome = "running"
    /\ clock < MaxClock
    /\ clock' = clock + 1
    /\ UNCHANGED <<options, signal, control, ticking, meter, captured, streams, outcome, ramp>>

-----------------------------------------------------------------------------
(* A stream: withRetries around the requests of transfer.                  *)

\* Where the loop of withRetries goes next.
Onward == IF control THEN "returned" ELSE "request"

Becomes(s, at, failures, m) ==
    /\ streams' = [streams EXCEPT ![s] = [at |-> at, failures |-> failures]]
    /\ SettleAll(streams', m)
    /\ UNCHANGED <<options, clock, signal>>

\* RateMeter.add
Moved(bytes) == [meter EXCEPT !.total = @ + bytes]

InRamp(bytes) == IF clock < grace /\ captured = None THEN bytes ELSE 0

\* A chunk arrived, or left; one may still do so after the abort.
Move(s) ==
    /\ streams[s].at = "request"
    /\ meter.total < MaxMoved
    /\ meter' = Moved(1)
    /\ ramp' = ramp + InRamp(1)
    /\ UNCHANGED <<options, clock, signal, control, ticking, captured, streams, outcome>>

\* The request was completed, with what the last progress event had not seen,
\* or an upload was aborted, which is no failure.  Another one follows.
Complete(s) ==
    /\ streams[s].at = "request"
    /\ \E rest \in 0..1 :
          /\ meter.total + rest <= MaxMoved
          /\ Becomes(s, Onward, 0, Moved(rest))
          /\ ramp' = ramp + InRamp(rest)

\* The request failed for a reason of its own, or was aborted.
Fail(s) ==
    LET failures == streams[s].failures + 1
    IN  /\ streams[s].at = "request"
        /\ IF control THEN Becomes(s, "returned", streams[s].failures, meter)
           ELSE Becomes(s, IF failures >= MAX_STREAM_FAILURES THEN "rejected" ELSE "backoff",
                        failures, meter)
        /\ UNCHANGED ramp

WakeAnyway(s) == \* mutant: the loop does not look at the signal after its sleep
    /\ streams[s].at = "backoff"
    /\ Becomes(s, "request", streams[s].failures, meter)
    /\ UNCHANGED ramp

\* The sleep is over, or cut short by the abort.
Wake(s) ==
    /\ streams[s].at = "backoff"
    /\ Becomes(s, Onward, streams[s].failures, meter)
    /\ UNCHANGED ramp

NextTransfer ==
    \/ Ticker
    \/ CallerAborts
    \/ Pass
    \/ \E s \in Stream : Move(s) \/ Complete(s) \/ Fail(s) \/ Wake(s)

SpecTransfer == InitTransfer /\ [][NextTransfer]_tvars

(***************************************************************************)
(* Time passes and the interval fires; a sleep ends; and a request whose   *)
(* signal aborts ends.  Nothing is assumed of a request otherwise.         *)
(***************************************************************************)
FairSpecTransfer ==
    /\ SpecTransfer
    /\ WF_tvars(Pass) /\ WF_tvars(Ticker)
    /\ \A s \in Stream : WF_tvars(Wake(s)) /\ WF_tvars(control /\ (Complete(s) \/ Fail(s)))

-----------------------------------------------------------------------------
Result == [at : 0..MaxClock, bytes : 0..MaxMoved, total : 0..MaxMoved]

TypeTransfer ==
    /\ window \in Windows /\ grace \in Graces
    /\ clock \in 0..MaxClock
    /\ signal \in BOOLEAN /\ control \in BOOLEAN /\ ticking \in BOOLEAN
    /\ meter \in [total : 0..MaxMoved, base : 0..MaxMoved, graced : BOOLEAN]
    /\ captured \in {None} \cup Result
    /\ streams \in [Stream -> [at : {"request", "backoff", "returned", "rejected"},
                               failures : 0..MAX_STREAM_FAILURES]]
    /\ outcome \in {"running", "result", "failed", "aborted"}
    /\ ramp \in 0..MaxMoved
    /\ meter.base <= meter.total

(***************************************************************************)
(* The figure never counts the ramp: what it was computed from excludes    *)
(* every byte moved before the grace period was over (meter.ts:13-20).     *)
(***************************************************************************)
RampExcluded == captured # None => captured.bytes + ramp <= captured.total

(***************************************************************************)
(* A phase with a window returns a figure only for a window that finished, *)
(* whoever aborted when and however its streams ended                      *)
(* (transfer-phase.ts:66-68 and 147-151); an endless one is never reported *)
(* as aborted.                                                             *)
(***************************************************************************)
FigureForWholeWindow ==
    /\ outcome = "result" /\ Finite => captured.at >= window
    /\ outcome = "result" /\ ~Finite => signal
    /\ outcome = "aborted" => Finite

(***************************************************************************)
(* Once the window is over or the caller has aborted, no stream makes      *)
(* another request, and what was captured stays as it is.                  *)
(***************************************************************************)
NothingAfterTheEnd ==
    [][/\ control => \A s \in Stream : streams'[s].at = "request" => streams[s].at = "request"
       /\ captured # None => captured' = captured]_tvars

(***************************************************************************)
(* "The phase always ends on the clock, never on the workers"              *)
(* (transfer-phase.ts:66): one with a window ends, and any does once its   *)
(* caller aborts.                                                          *)
(***************************************************************************)
PhaseEnds == Finite \/ signal ~> outcome # "running"
=============================================================================
