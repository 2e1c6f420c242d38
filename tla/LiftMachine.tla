---------------------------- MODULE LiftMachine ----------------------------
(***************************************************************************)
(* The mechanism of the lift visual (web/src/ui/visuals): the pointer that *)
(* carries the reading, the reversing gear, the belt and brake between     *)
(* them and the car, and the queue of orders for the car.  One operator    *)
(* per method, on the machine as a record.                                 *)
(*                                                                         *)
(* Places are levels of the dial and of the shaft, 0 the stop and the      *)
(* ground floor; durations are whole beats of the frame loop.  Where a     *)
(* journey or a fall has got to in between is any place on its way: the    *)
(* easing is left open.                                                    *)
(***************************************************************************)
EXTENDS Integers, Sequences

CONSTANTS Top,      \* the full scale of the dial, and the top of the shaft
          Sweep,    \* SWEEP_MS: the pointer falling over the whole dial
          Shift,    \* SHIFT_MS: a throw of the reversing gear
          Land,     \* LAND_MS: a leg running into its floor
          RideFull, \* RIDE_FULL_MS: a ride over the whole shaft
          Settle    \* SETTLE_MS: the quiet after a reversal

\* The shortest fall and ride (SWEEP_MIN_MS, RIDE_MIN_MS) last a beat.
ASSUME LiftAssumption ==
    /\ {Top, Sweep, Shift, Land, RideFull, Settle} \subseteq Nat \ {0}

Level == 0..Top
Drive == {"up", "down"}
Rest == 0

Larger(m, n) == IF m > n THEN m ELSE n
Distance(m, n) == IF m > n THEN m - n ELSE n - m

SweepTime(level) == Larger(1, (Sweep * level) \div Top)
RideTime(distance) == Larger(1, (RideFull * distance) \div Top)

\* An order for the car: a ride, or a throw of the reversing gear.
RideOrder(to) == [throw |-> FALSE, drive |-> "up", to |-> to]
ThrowOrder(drive) == [throw |-> TRUE, drive |-> drive, to |-> Rest]

Machine ==
    [pointer : [at : Level, aim : Level, left : Nat],
     car     : [at : Level, to : Level, left : Nat],
     orders  : Seq([throw : BOOLEAN, drive : Drive, to : Level]),
     drive   : Drive,
     gear    : [seat : Drive, left : Nat],
     belt    : Drive]

\* At rest on the ground floor, seated to go up.
Assembled ==
    [pointer |-> [at |-> 0, aim |-> 0, left |-> 0],
     car     |-> [at |-> Rest, to |-> Rest, left |-> 0],
     orders  |-> <<>>,
     drive   |-> "up",
     gear    |-> [seat |-> "up", left |-> 0],
     belt    |-> "up"]

Riding(m) == m.car.left > 0
Throwing(m) == m.gear.left > 0
Free(m) == ~Riding(m) /\ m.orders = <<>>
Destination(m) == IF Riding(m) THEN m.car.to ELSE m.car.at

-----------------------------------------------------------------------------
(* The pointer.                                                            *)

\* Only on the way down, and only once; a reading above zero ends a fall.
Aim(m, level) ==
    [m EXCEPT !.pointer.aim = level,
              !.pointer.left = IF level > 0 THEN 0
                               ELSE IF m.pointer.aim > 0 THEN SweepTime(m.pointer.at)
                               ELSE @]

\* Where the pointer may be a beat later: on its way down, or one level closer.
Pointed(p) ==
    IF p.left > 0
    THEN [at : IF p.left = 1 THEN {0} ELSE 0..p.at, aim : {p.aim}, left : {p.left - 1}]
    ELSE {[p EXCEPT !.at = IF p.at < p.aim THEN @ + 1 ELSE IF p.at > p.aim THEN @ - 1 ELSE @]}

PointerSettled(m) == m.pointer.left = 0 /\ m.pointer.at = m.pointer.aim

-----------------------------------------------------------------------------
(* The car and its orders.                                                 *)

Take(m, to, time) == [m EXCEPT !.car.to = to, !.car.left = time]

\* A leg the machine is already running into that floor is left alone.
LandCar(m) ==
    LET floor == IF m.drive = "down" THEN Rest ELSE Top
    IN  IF Riding(m) /\ m.car.to = floor THEN m ELSE Take(m, floor, Land)

RideTo(m, to) ==
    IF to = Destination(m) THEN m ELSE Take(m, to, RideTime(Distance(to, Destination(m))))

Home(m, fall) == Take(m, Rest, Larger(fall, RideTime(Distance(m.car.at, Rest))))

\* The throw and the crossing of the belt are one piece of work.
Obey(m, order) ==
    IF order.throw
    THEN [m EXCEPT !.gear = [seat |-> order.drive, left |-> Shift], !.belt = order.drive]
    ELSE RideTo(m, order.to)

Order(m, order) ==
    IF Riding(m) THEN [m EXCEPT !.orders = Append(@, order)] ELSE Obey(m, order)

DrainOne(m) == \* mutant: one order per arrival
    IF m.orders = <<>> THEN m ELSE Obey([m EXCEPT !.orders = Tail(@)], Head(m.orders))

\* On arrival, until something starts moving again: what is still to be
\* done then queues as it was.
Drain(m) ==
    LET done[i \in 0..Len(m.orders)] ==
            IF i = 0 THEN [m EXCEPT !.orders = <<>>] ELSE Order(done[i - 1], m.orders[i])
    IN  done[Len(m.orders)]

\* Where the car may be on its way, a beat later.
Between(m, n) == IF m < n THEN m..n ELSE n..m

Carried(m) ==
    IF ~Riding(m) THEN {m}
    ELSE IF m.car.left = 1
    THEN {Drain([m EXCEPT !.car.left = 0, !.car.at = m.car.to])}
    ELSE {[m EXCEPT !.car.left = @ - 1, !.car.at = at] : at \in Between(m.car.at, m.car.to)}

-----------------------------------------------------------------------------
(* The machine.                                                            *)

ReverseDriveAtOnce(m, drive) == \* mutant: not queued behind the landing
    Obey([m EXCEPT !.drive = drive], ThrowOrder(drive))

ReverseDrive(m, drive) == Order([m EXCEPT !.drive = drive], ThrowOrder(drive))

Ride(m, to) == Order(m, RideOrder(to))

ResetKeeping(m) == \* mutant: the last run's orders are inherited
    LET still == [Aim(m, 0) EXCEPT !.drive = "up", !.gear = [seat |-> "up", left |-> 0],
                                   !.belt = "up"]
        fall == IF m.pointer.at > 0
                THEN Larger(still.pointer.left, SweepTime(m.pointer.at)) ELSE 0
    IN  IF fall > 0 \/ m.car.at # Rest THEN Home(still, fall) ELSE still

Reset(m) ==
    LET still == [Aim(m, 0) EXCEPT !.drive = "up", !.gear = [seat |-> "up", left |-> 0],
                                   !.belt = "up", !.orders = <<>>]
        fall == IF m.pointer.at > 0
                THEN Larger(still.pointer.left, SweepTime(m.pointer.at)) ELSE 0
    IN  IF fall > 0 \/ m.car.at # Rest THEN Home(still, fall) ELSE still

SettleTime(m) == Larger(m.car.left, m.pointer.left)

\* The crossed belt raises the car with the reading; the brake drops the move.
Turn(m, delta) ==
    LET at == IF m.belt = "up" THEN m.car.at + delta ELSE m.car.at - delta
    IN  IF Throwing(m) \/ Riding(m) THEN m
        ELSE [m EXCEPT !.car.at = IF at < 0 THEN 0 ELSE IF at > Top THEN Top ELSE at]

\* One beat: the pointer, the gear, the train between them, then the car.
Update(m) ==
    UNION {Carried(Turn([m EXCEPT !.pointer = p,
                                  !.gear.left = IF @ > 0 THEN @ - 1 ELSE 0],
                        p.at - m.pointer.at)) : p \in Pointed(m.pointer)}

AtRest(m) == PointerSettled(m) /\ ~Throwing(m) /\ Free(m)
=============================================================================
