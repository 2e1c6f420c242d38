-------------------------------- MODULE Lift --------------------------------
(***************************************************************************)
(* The lift visual driven by staged tests: the frame loop of               *)
(* ui/visuals/lift/lift.ts, the phases of engine/runner.ts with the pauses *)
(* that wait for the machine, and the translation of one into the other in *)
(* ui/features/test-controller.ts.                                         *)
(*                                                                         *)
(* The pauses run on the clock and the machine on animation frames, which  *)
(* a page in the background does not get: a beat may pass without one.     *)
(***************************************************************************)
EXTENDS LiftMachine

VARIABLES machine, \* LiftVisual.machine
          loop,    \* LiftVisual.frame: an animation frame is asked for
          pc,      \* where the staged test is
          timer,   \* beats its pause still lasts
          opening, \* Pacing.latencyMs
          late     \* history: a frame was missed since the test began

vars == <<machine, loop, pc, timer, opening, late>>

(***************************************************************************)
(* "opening": run() awaits openRun; "settling": the pause before the first *)
(* probe; "latency": the probes, and the rest of the car's ride up.        *)
(***************************************************************************)
Measuring == {"download", "upload"}
Underway == {"settling", "latency", "toDownload", "toUpload"} \cup Measuring

Transition == Land + Shift + Settle

\* In tempo.ts the needle falls well within the pause between two transfers.
ASSUME TempoAssumption == Sweep <= Transition

Init ==
    /\ machine = Assembled
    /\ loop = FALSE
    /\ pc = "idle"
    /\ timer = 0
    /\ opening = 0
    /\ late = FALSE

\* Every command to the visual starts the frame loop.
Commanded(m) == machine' = m /\ loop' = TRUE

\* A beat of the clock, with an animation frame or without.
Beat(frame) ==
    /\ loop \/ timer > 0
    /\ timer' = IF timer > 0 THEN timer - 1 ELSE 0
    /\ IF loop /\ frame
       THEN /\ machine' \in Update(machine)
            /\ loop' = ~AtRest(machine')
            /\ UNCHANGED late
       ELSE /\ late' = (late \/ loop)
            /\ UNCHANGED <<machine, loop>>
    /\ UNCHANGED <<pc, opening>>

\* TestController.run up to its await of openRun.
Start ==
    /\ pc = "idle"
    /\ pc' = "opening"
    /\ Commanded(Reset(machine))
    /\ timer' = 0
    /\ late' = FALSE
    /\ UNCHANGED opening

\* setDrive
Select(m, drive) == IF drive = m.drive THEN m ELSE ReverseDrive(m, drive)

UnsettledOpening == \* mutant: the opening pause is not asked of the visual
    /\ pc = "opening"
    /\ pc' = "settling"
    /\ timer' = 0
    /\ opening' = RideTime(Distance(Top, Destination(machine)))
    /\ Commanded(Aim(Select(Ride(machine, Top), "up"), 0))
    /\ UNCHANGED late

\* The pauses are asked of the machine after its reset and before its ride.
Opened ==
    /\ pc = "opening"
    /\ pc' = "settling"
    /\ timer' = SettleTime(machine)
    /\ opening' = RideTime(Distance(Top, Destination(machine)))
    /\ Commanded(Aim(Select(Ride(machine, Top), "up"), 0))
    /\ UNCHANGED late

\* The time the probes take counts towards the ride.
Probe ==
    /\ pc = "settling"
    /\ timer = 0
    /\ pc' = "latency"
    /\ timer' = opening
    /\ Commanded(Aim(machine, 0))
    /\ UNCHANGED <<opening, late>>

\* The phase that ends shows its figure, then the drive is reversed.
Turnabout(from, to, drive) ==
    /\ pc = from
    /\ timer = 0
    /\ pc' = to
    /\ timer' = Transition
    /\ \E level \in IF from \in Measuring THEN Level ELSE {0} :
          Commanded(Aim(Select(LandCar(Aim(machine, level)), drive), 0))
    /\ UNCHANGED <<opening, late>>

Measure(from, phase, drive) ==
    /\ pc = from
    /\ timer = 0
    /\ pc' = phase
    /\ Commanded(Aim(Select(machine, drive), 0))
    /\ UNCHANGED <<timer, opening, late>>

Reading(level) ==
    /\ pc \in Measuring
    /\ Commanded(Aim(machine, level))
    /\ UNCHANGED <<pc, timer, opening, late>>

Park(m) == Ride(m, Rest)

Done(level) ==
    /\ pc = "upload"
    /\ pc' = "idle"
    /\ Commanded(Park(Aim(machine, level)))
    /\ UNCHANGED <<timer, opening, late>>

\* Stopped or failed, in any pause or phase.
Interrupted ==
    /\ pc \in Underway
    /\ pc' = "idle"
    /\ timer' = 0
    /\ Commanded(Park(Aim(machine, 0)))
    /\ UNCHANGED <<opening, late>>

Next ==
    \/ \E frame \in BOOLEAN : Beat(frame)
    \/ Start
    \/ Opened
    \/ Probe
    \/ Turnabout("latency", "toDownload", "down")
    \/ Measure("toDownload", "download", "down")
    \/ Turnabout("download", "toUpload", "up")
    \/ Measure("toUpload", "upload", "up")
    \/ \E level \in Level : Reading(level) \/ Done(level)
    \/ Interrupted

Spec == Init /\ [][Next]_vars

\* The browser goes on asking for frames of a page that is looked at.
FairSpec == Spec /\ WF_vars(Beat(TRUE))
-----------------------------------------------------------------------------
TypeOK ==
    /\ machine \in Machine
    /\ loop \in BOOLEAN
    /\ pc \in {"idle", "opening"} \cup Underway
    /\ timer \in Nat
    /\ opening \in Nat
    /\ late \in BOOLEAN

(***************************************************************************)
(* "A new run does not inherit the last one's orders" (car.ts:117-123):    *)
(* the drive the machine was last set to is the one its gear and belt are  *)
(* in, or will be in once the throws still queued are done.                *)
(***************************************************************************)
Seated(m) ==
    LET throws == {i \in DOMAIN m.orders : m.orders[i].throw}
    IN  IF throws = {} THEN m.gear.seat
        ELSE m.orders[CHOOSE i \in throws : \A j \in throws : j <= i].drive

SeatFollowsDrive ==
    /\ Seated(machine) = machine.drive
    /\ machine.belt = machine.gear.seat

(***************************************************************************)
(* "The gear cannot be thrown while it is still running" (machine.ts:      *)
(* 134-136): in a test that gets its frames the car is on no journey while *)
(* the gear is thrown.                                                     *)
(***************************************************************************)
ThrowsAtRest ==
    pc # "idle" /\ ~late => ~(Throwing(machine) /\ Riding(machine))

(***************************************************************************)
(* The pauses are long enough (runner.ts:73-85): no probe goes out while   *)
(* the reading falls, and a transfer begins with the gear seated for it,   *)
(* the car let go at the floor it starts from and the pointer at its stop, *)
(* in a test that gets its frames.                                         *)
(***************************************************************************)
ReadyToMeasure ==
    [][~late =>
        /\ pc' = "latency" /\ pc # "latency" => PointerSettled(machine)
        /\ pc' \in Measuring /\ pc # pc' =>
              /\ AtRest(machine)
              /\ machine.gear.seat = IF pc' = "download" THEN "down" ELSE "up"
              /\ machine.car.at = IF pc' = "download" THEN Top ELSE Rest]_vars

(***************************************************************************)
(* The frame loop ends once the machine has nothing left to do, whatever   *)
(* was queued when the last test ended (car.ts:142-146, lift.ts:193-198).  *)
(***************************************************************************)
ComesToRest == <>[](pc = "idle") => <>[]~loop
=============================================================================
