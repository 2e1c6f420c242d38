------------------------------ MODULE Monitor -------------------------------
(***************************************************************************)
(* The continuous session: engine/monitor.ts with its two legs, driven by  *)
(* the start button and the direction switches of                          *)
(* ui/features/monitor-panel.ts.                                           *)
(*                                                                         *)
(* A step is an event: a press, a timer, a reading or the end of a leg's   *)
(* phase, with the promise callbacks that run before the next event. In    *)
(* particular the end of the last leg, settleIfStopped, the continuation   *)
(* of start and that of the panel's run are one step.                      *)
(***************************************************************************)
EXTENDS Timeline, FiniteSets

CONSTANTS SampleMs, \* SAMPLE_MS, in ticks of the clock
          Capacity, \* CAPACITY: the points the history keeps
          MaxTime,  \* bound: the clock
          MaxStart, \* bound: where on the timeline a stint may begin
          MaxBytes  \* bound: what a leg moves

ASSUME MonitorAssumption ==
    /\ SampleMs \in Nat \ {0}
    /\ Capacity \in Nat /\ Capacity >= 4 /\ Capacity % 2 = 0
    /\ MaxTime \in Nat \ {0}
    /\ MaxStart \in Nat
    /\ MaxBytes \in Nat

Key == {"down", "up"}

VARIABLES switches,  \* MonitorPanel.directions
          shown,     \* MonitorPanel.running: the button says Pause
          running,   \* Monitor.running
          stopping,  \* Monitor.stopping
          legs,      \* Monitor.legs
          points,    \* Monitor.series
          startedAt, \* Monitor.startedAt
          timeBase,  \* Monitor.timeBase
          due,       \* when the sampler fires next; 0 without a sampler
          now        \* performance.now()

session == <<shown, running, stopping, legs>>
timeline == <<points, startedAt, timeBase, due>>
vars == <<switches, session, timeline, now>>

\* controller: "none" is null, "live" and "aborted" are what its signal says.
Leg == [controller : {"none", "live", "aborted"}, tick : 0..MaxBytes, carried : 0..MaxBytes]

Idle == [controller |-> "none", tick |-> 0, carried |-> 0]

Runs(leg) == leg.controller # "none"

Init ==
    /\ switches = [k \in Key |-> k = "down"]
    /\ shown = FALSE
    /\ running = FALSE
    /\ stopping = FALSE
    /\ legs = [k \in Key |-> Idle]
    /\ points = <<>>
    /\ startedAt = 1
    /\ timeBase = 0
    /\ due = 0
    /\ now = 1

-----------------------------------------------------------------------------
(* One leg.                                                                *)

\* Leg.start; a leg that still winds down is left alone.
StartLeg(leg) ==
    IF Runs(leg) THEN leg ELSE [leg EXCEPT !.controller = "live", !.tick = 0]

\* Leg.stop
AbortLeg(leg) == IF Runs(leg) THEN [leg EXCEPT !.controller = "aborted"] ELSE leg

\* The finally of Leg.start.
Wound(leg) == [controller |-> "none", tick |-> 0, carried |-> leg.carried + leg.tick]

-----------------------------------------------------------------------------
(* The session.                                                            *)

\* Where a sample taken now lies.
Position == timeBase + (now - startedAt)

(***************************************************************************)
(* settleIfStopped, with the legs as they are now.  When the session is    *)
(* over, start adds its last point and the panel's run ends.               *)
(***************************************************************************)
Settle(next, stop) ==
    IF stop /\ \A k \in Key : ~Runs(next[k])
    THEN /\ running' = FALSE /\ stopping' = FALSE /\ shown' = FALSE
         /\ points' = AddPoint(points, Position, Capacity)
         /\ due' = 0
    ELSE /\ stopping' = stop
         /\ UNCHANGED <<running, shown, points, due>>

ResumeAtZero(series) == 0 \* mutant: every stint begins a timeline of its own

\* Where a new stint begins.
Resume(series) == IF series = <<>> THEN 0 ELSE Newest(series) + SampleMs

(***************************************************************************)
(* MonitorPanel.run and Monitor.start.  Another server selected since gets *)
(* a Monitor of its own.                                                   *)
(***************************************************************************)
Start ==
    /\ ~shown /\ ~running
    /\ shown' = TRUE /\ running' = TRUE /\ stopping' = FALSE
    /\ \E fresh \in BOOLEAN :
          LET old == IF fresh THEN [k \in Key |-> Idle] ELSE legs
          IN  /\ legs' = [k \in Key |-> IF switches[k] THEN StartLeg(old[k]) ELSE old[k]]
              /\ points' = IF fresh THEN <<>> ELSE points
    /\ timeBase' = Resume(points')
    /\ timeBase' <= MaxStart
    /\ startedAt' = now
    /\ due' = now + SampleMs
    /\ UNCHANGED <<switches, now>>

\* Monitor.stop, from the button, the space key or leaving the page.
Stop ==
    /\ shown
    /\ IF ~running \/ stopping THEN UNCHANGED <<session, timeline>>
       ELSE /\ legs' = [k \in Key |-> AbortLeg(legs[k])]
            /\ Settle(legs', TRUE)
            /\ UNCHANGED <<startedAt, timeBase>>
    /\ UNCHANGED <<switches, now>>

(***************************************************************************)
(* An aborted transfer ends before the next event (Fetch and               *)
(* XMLHttpRequest settle what is pending as the signal fires), so no press *)
(* of a switch falls between an abort and the end it causes.  Everything   *)
(* else is let in between all the same.                                    *)
(***************************************************************************)
Settled(key) == ~stopping /\ legs[key].controller # "aborted"

\* MonitorPanel.flip and, during a session, Monitor.setDirections for both directions.
Flip(key) ==
    /\ Settled(key)
    /\ switches' = [switches EXCEPT ![key] = ~@]
    /\ legs' = IF ~shown \/ ~running THEN legs
               ELSE [k \in Key |-> IF switches'[k] THEN StartLeg(legs[k]) ELSE AbortLeg(legs[k])]
    /\ UNCHANGED <<shown, running, stopping, timeline, now>>

\* A phase reports; it may still do so while it winds down.
Report(key) ==
    /\ Runs(legs[key])
    /\ legs[key].carried + legs[key].tick < MaxBytes
    /\ legs' = [legs EXCEPT ![key].tick = @ + 1]
    /\ UNCHANGED <<switches, shown, running, stopping, timeline, now>>

LegEndsUnheard(key) == \* mutant: the session is not settled when a leg ends
    /\ legs[key].controller = "aborted"
    /\ legs' = [legs EXCEPT ![key] = Wound(@)]
    /\ UNCHANGED <<switches, shown, running, stopping, timeline, now>>

\* The phase of an aborted leg has returned.
LegEnds(key) ==
    /\ legs[key].controller = "aborted"
    /\ legs' = [legs EXCEPT ![key] = Wound(@)]
    /\ Settle(legs', stopping)
    /\ UNCHANGED <<switches, startedAt, timeBase, now>>

LegFailsAlone(key) == \* mutant: a failure leaves the other leg running
    /\ legs[key].controller = "live"
    /\ legs' = [legs EXCEPT ![key] = Wound(@)]
    /\ Settle(legs', stopping)
    /\ UNCHANGED <<switches, startedAt, timeBase, now>>

\* Its phase has failed: the error is reported and the session stopped.
LegFails(key) ==
    /\ legs[key].controller = "live"
    /\ legs' = [k \in Key |-> IF k = key THEN Wound(legs[k])
                              ELSE IF stopping THEN legs[k] ELSE AbortLeg(legs[k])]
    /\ Settle(legs', TRUE)
    /\ UNCHANGED <<switches, startedAt, timeBase, now>>

\* The interval of the sampler; it may fire late.
Sample ==
    /\ due # 0 /\ due <= now
    /\ points' = AddPoint(points, Position, Capacity)
    /\ due' = due + SampleMs
    /\ UNCHANGED <<switches, session, startedAt, timeBase, now>>

\* The Clear button, disabled during a session and without a history.
Clear ==
    /\ ~shown /\ ~running
    /\ points # <<>>
    /\ points' = <<>>
    /\ timeBase' = 0
    /\ UNCHANGED <<switches, session, startedAt, due, now>>

Tick ==
    /\ now < MaxTime
    /\ now' = now + 1
    /\ UNCHANGED <<switches, session, timeline>>

Next ==
    \/ Start
    \/ Stop
    \/ \E key \in Key : Flip(key) \/ Report(key) \/ LegEnds(key) \/ LegFails(key)
    \/ Sample
    \/ Clear
    \/ Tick

Spec == Init /\ [][Next]_vars

\* A phase that was aborted returns: every stream of it listens to the signal.
FairSpec == Spec /\ \A key \in Key : WF_vars(LegEnds(key))

-----------------------------------------------------------------------------
TypeOK ==
    /\ switches \in [Key -> BOOLEAN]
    /\ shown \in BOOLEAN /\ running \in BOOLEAN /\ stopping \in BOOLEAN
    /\ legs \in [Key -> Leg]
    /\ points \in Seq(Nat) /\ Len(points) <= Capacity
    /\ startedAt \in 1..MaxTime
    /\ timeBase \in Nat
    /\ due \in 0..(MaxTime + SampleMs)
    /\ now \in 1..MaxTime

(***************************************************************************)
(* Bytes move only in a session that is running, the panel and its monitor *)
(* agree on whether it is (monitor.ts:306-310, "resolving while a leg is   *)
(* still finishing would report the session over while bytes were still    *)
(* moving"), and samples are taken exactly while it is.                    *)
(***************************************************************************)
LegsWithinSession ==
    /\ shown = running
    /\ running <=> due # 0
    /\ (\E k \in Key : Runs(legs[k])) => running

(***************************************************************************)
(* During a session that nobody has stopped, and once nothing winds down,  *)
(* the directions that load the link are the ones switched on              *)
(* (monitor.ts:320-331, monitor-panel.ts:964-977).                         *)
(***************************************************************************)
SwitchesHonoured ==
    running /\ ~stopping =>
        \A k \in Key : legs[k].controller # "aborted" => (Runs(legs[k]) <=> switches[k])

(***************************************************************************)
(* The graph's points are in order across stints, pauses and compactions   *)
(* (monitor.ts:170-179), and the clock that scrolls it is never behind the *)
(* newest of them (monitor.ts:243-252).                                    *)
(***************************************************************************)
TimelineOrdered ==
    /\ Ordered(points)
    /\ running /\ points # <<>> => Newest(points) <= Position

\* elapsedMs
Elapsed ==
    LET last == IF points = <<>> THEN 0 ELSE Newest(points)
    IN  IF running /\ last < Position THEN Position ELSE last

(***************************************************************************)
(* Unless the history is thrown away, the beginning of the session stays   *)
(* where it happened (series.ts:160-165) and its clock does not go back.   *)
(***************************************************************************)
SessionKept ==
    [][points # <<>> /\ points' # <<>> => points'[1] = points[1] /\ Elapsed' >= Elapsed]_vars

(***************************************************************************)
(* What a direction has moved is not forgotten when it is switched off or  *)
(* the session paused (monitor.ts:100); a new server starts from nothing.  *)
(***************************************************************************)
MovedKept ==
    [][\/ \A k \in Key : legs'[k].carried + legs'[k].tick >= legs[k].carried + legs[k].tick
       \/ points' = <<>> /\ ~running]_vars

(***************************************************************************)
(* Stop "ends the session" (monitor.ts:291-304).                           *)
(***************************************************************************)
StopEndsSession == stopping ~> ~running
=============================================================================
