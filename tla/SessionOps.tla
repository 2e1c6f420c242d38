----------------------------- MODULE SessionOps -----------------------------
(***************************************************************************)
(* The accounting of one run (internal/session/session.go): what Begin,    *)
(* Add, End and Totals compute, as operators on a session's value.         *)
(*                                                                         *)
(* A time.Time is a number of ticks and Go's zero time is 0, so a clock    *)
(* that is used with these operators starts at 1.  Totals keeps bytes and  *)
(* times; Mbps is positive exactly when both the measured bytes and the    *)
(* window are, which is all the server decides on.                         *)
(***************************************************************************)
EXTENDS Integers

CONSTANTS Grace,  \* ramp that does not count, in ticks
          Drain   \* tail that does not count, in ticks

ASSUME SessionAssumption ==
    /\ Grace \in Nat
    /\ Drain \in Nat

Dir == {"down", "up"}

Leg == [bytes : Nat, started : Nat, from : Nat, fromByte : Nat,
        until : Nat, byteAt : Nat, streams : Nat, open : Int]

Session == [legs : [Dir -> Leg], lastTouch : Nat]

NewLeg == [bytes |-> 0, started |-> 0, from |-> 0, fromByte |-> 0,
           until |-> 0, byteAt |-> 0, streams |-> 0, open |-> 0]

NewSession(t) == [legs |-> [d \in Dir |-> NewLeg], lastTouch |-> t]

StartedAtEach(l, t) == t \* mutant: every stream restarts the ramp

StartedAt(l, t) == IF l.started = 0 THEN t ELSE l.started

OpensAtOnce(l, t) == l.from = 0 \* mutant: the ramp counts

\* The first bytes past the ramp open the window.
Opens(l, t) == l.from = 0 /\ t - StartedAt(l, t) >= Grace

AddLeg(l, n, t) ==
    LET counted == l.from # 0 \/ Opens(l, t)
    IN  [l EXCEPT !.bytes = @ + n,
                  !.started = StartedAt(l, t),
                  !.from = IF Opens(l, t) THEN t ELSE @,
                  !.fromByte = IF Opens(l, t) THEN l.bytes + n ELSE @,
                  !.until = IF counted THEN t ELSE @,
                  !.byteAt = IF counted THEN l.bytes + n ELSE @]

BeginLeg(l, t) ==
    [l EXCEPT !.streams = @ + 1, !.open = @ + 1, !.started = StartedAt(l, t)]

EndLeg(l) == [l EXCEPT !.open = @ - 1]

\* An Add of nothing returns before it touches the session.
Add(s, d, n, t) ==
    IF n <= 0 THEN s
    ELSE [s EXCEPT !.legs[d] = AddLeg(@, n, t), !.lastTouch = t]

Begin(s, d, t) == [s EXCEPT !.legs[d] = BeginLeg(@, t), !.lastTouch = t]

End(s, d, t) == [s EXCEPT !.legs[d] = EndLeg(@), !.lastTouch = t]

HasWindow(l) == l.from # 0 /\ l.until # 0 /\ l.until - Drain > l.from

TotalsUndrained(l) == \* mutant: the tail counts
    [bytes    |-> l.bytes,
     streams  |-> l.streams,
     measured |-> IF HasWindow(l) THEN l.byteAt - l.fromByte ELSE 0,
     window   |-> IF HasWindow(l) THEN l.until - l.from ELSE 0]

Totals(l) ==
    LET full  == l.until - l.from
        kept  == l.until - Drain - l.from
        moved == l.byteAt - l.fromByte
    IN  [bytes    |-> l.bytes,
         streams  |-> l.streams,
         measured |-> IF HasWindow(l) THEN (moved * kept) \div full ELSE 0,
         window   |-> IF HasWindow(l) THEN kept ELSE 0]

\* Totals.Mbps() > 0
Worthwhile(total) == total.window > 0 /\ total.measured > 0

Idle(s, t) == t - s.lastTouch

Active(s) == \E d \in Dir : s.legs[d].open > 0
=============================================================================
