---------------------------- MODULE EngineProofs -----------------------------
(***************************************************************************)
(* Proofs about the page's measuring engine.  The first part is about      *)
(* Monitor, for any spacing of samples and any even capacity of the        *)
(* history: what loads the link is what the switches say, and the timeline *)
(* survives pauses and compactions.  The second is about Transfer, for any *)
(* streams, windows and grace periods: what a phase returns, however       *)
(* failures, the clock and the caller's abort are ordered.                 *)
(***************************************************************************)
EXTENDS Monitor, Transfer, TLAPS

-----------------------------------------------------------------------------
(* The history.                                                            *)

History == {p \in Seq(Nat) : Len(p) <= Capacity}

(***************************************************************************)
(* Compaction halves a history, keeps its order and its first point, and   *)
(* an odd one's last point (series.ts:153-174).                            *)
(***************************************************************************)
LEMMA CompactKeeps ==
    ASSUME NEW p \in Seq(Nat), p # <<>>, Ordered(p)
    PROVE  /\ Compact(p) \in Seq(Nat)
           /\ Len(Compact(p)) = (Len(p) + 1) \div 2
           /\ Ordered(Compact(p))
           /\ Compact(p)[1] = p[1]
           /\ Len(p) % 2 = 1 => Newest(Compact(p)) = Newest(p)
<1> DEFINE n == (Len(p) + 1) \div 2
<1>1. Len(p) \in Nat \ {0} /\ DOMAIN p = 1..Len(p) /\ \A i \in 1..Len(p) : p[i] \in Nat
  OBVIOUS
<1>2. n \in Nat \ {0} /\ \A i \in 1..n : 2 * i - 1 \in 1..Len(p)
  BY <1>1
<1>3. Len(p) % 2 = 1 => 2 * n - 1 = Len(p)
  BY <1>1
<1> HIDE DEF n
<1>4. Compact(p) = [i \in 1..n |-> p[2 * i - 1]]
  BY DEF Compact, n
<1>5. Compact(p) \in Seq(Nat) /\ Len(Compact(p)) = n /\ DOMAIN Compact(p) = 1..n
  BY <1>1, <1>2, <1>4
<1>6. \A i, j \in 1..n : i <= j => Compact(p)[i] <= Compact(p)[j]
  <2> SUFFICES ASSUME NEW i \in 1..n, NEW j \in 1..n, i <= j
               PROVE  p[2 * i - 1] <= p[2 * j - 1]
    BY <1>4
  <2>1. 2 * i - 1 \in DOMAIN p /\ 2 * j - 1 \in DOMAIN p /\ 2 * i - 1 <= 2 * j - 1
    BY <1>1, <1>2
  <2> QED
    BY <2>1 DEF Ordered
<1>7. Compact(p)[1] = p[1] /\ Compact(p)[n] = p[2 * n - 1]
  BY <1>2, <1>4
<1> QED
  BY <1>3, <1>5, <1>6, <1>7 DEF Ordered, Newest, n

(***************************************************************************)
(* A point no older than the newest one goes to the end of the history,    *)
(* which stays bounded, ordered and where it began.  With an even capacity *)
(* the point that overfills it is an odd one, and so is kept.              *)
(***************************************************************************)
LEMMA AddKeeps ==
    ASSUME NEW p \in History, Ordered(p), NEW t \in Nat, p # <<>> => Newest(p) <= t
    PROVE  LET q == AddPoint(p, t, Capacity)
           IN  /\ q \in History /\ q # <<>>
               /\ Ordered(q)
               /\ Newest(q) = t
               /\ p # <<>> => q[1] = p[1]
<1> USE MonitorAssumption DEF MonitorAssumption
<1> DEFINE longer == Append(p, t)
<1>1. /\ p \in Seq(Nat) /\ Len(p) \in Nat /\ Len(p) <= Capacity
      /\ longer \in Seq(Nat) /\ Len(longer) = Len(p) + 1
      /\ longer[Len(longer)] = t /\ longer # <<>>
      /\ \A i \in 1..Len(p) : longer[i] = p[i]
  BY DEF History
<1>2. Newest(longer) = t /\ (p # <<>> => longer[1] = p[1])
  BY <1>1 DEF Newest
<1>3. Ordered(longer)
  <2> SUFFICES ASSUME NEW i \in 1..Len(longer), NEW j \in 1..Len(longer), i <= j
               PROVE  longer[i] <= longer[j]
    BY <1>1 DEF Ordered
  <2>1. CASE j = Len(longer)
    <3>1. CASE i = Len(longer)
      BY <1>1, <2>1, <3>1
    <3>2. CASE i # Len(longer)
      <4>1. i \in 1..Len(p) /\ Len(p) \in 1..Len(p) /\ p # <<>>
        BY <1>1, <3>2
      <4>2. p[i] <= p[Len(p)] /\ p[i] \in Nat /\ p[Len(p)] \in Nat
        BY <1>1, <4>1 DEF Ordered
      <4> QED
        BY <1>1, <2>1, <4>1, <4>2 DEF Newest
    <3> QED
      BY <3>1, <3>2
  <2>2. CASE j # Len(longer)
    BY <1>1, <2>2 DEF Ordered
  <2> QED
    BY <2>1, <2>2
<1>4. CASE Len(longer) <= Capacity
  BY <1>1, <1>2, <1>3, <1>4 DEF AddPoint, History
<1>5. CASE Len(longer) > Capacity
  <2>1. Len(longer) = Capacity + 1
    BY <1>1, <1>5
  <2>2. AddPoint(p, t, Capacity) = Compact(longer)
    BY <1>5 DEF AddPoint
  <2>3. /\ Len(longer) % 2 = 1
        /\ (Len(longer) + 1) \div 2 \in 1..Capacity
    BY <2>1
  <2> DEFINE q == Compact(longer)
  <2>4. /\ q \in Seq(Nat)
        /\ Len(q) = (Len(longer) + 1) \div 2
        /\ Ordered(q)
        /\ q[1] = longer[1]
        /\ Newest(q) = Newest(longer)
    <3> HIDE DEF longer
    <3> QED
      BY <1>1, <1>3, <2>3, CompactKeeps
  <2>5. Len(q) \in 1..Capacity
    BY <2>3, <2>4
  <2> HIDE DEF longer, q
  <2>6. q # <<>> /\ q \in History
    BY <2>4, <2>5 DEF History
  <2>7. Newest(q) = t /\ (p # <<>> => q[1] = p[1])
    BY <1>2, <2>4
  <2>8. AddPoint(p, t, Capacity) = q
    BY <2>2 DEF q
  <2> QED
    BY <2>4, <2>6, <2>7, <2>8
<1> QED
  BY <1>1, <1>4, <1>5

-----------------------------------------------------------------------------
(* The legs.                                                               *)

\* What a leg has moved, in this stint and the earlier ones.
Bytes(leg) == leg.carried + leg.tick

\* A leg without a controller has put its bytes away.
Sound(leg) ==
    /\ Bytes(leg) <= MaxBytes
    /\ ~Runs(leg) => leg.tick = 0

(***************************************************************************)
(* Switching a leg on, switching it off and its end leave what it moved    *)
(* alone (monitor.ts:100).                                                 *)
(***************************************************************************)
LEMMA LegKeepsBytes ==
    ASSUME NEW leg \in Leg, Sound(leg)
    PROVE  /\ \A next \in {StartLeg(leg), AbortLeg(leg), Wound(leg)} :
                 next \in Leg /\ Sound(next) /\ Bytes(next) = Bytes(leg)
           /\ StartLeg(leg).controller = IF Runs(leg) THEN leg.controller ELSE "live"
           /\ AbortLeg(leg).controller = IF Runs(leg) THEN "aborted" ELSE "none"
           /\ ~Runs(Wound(leg))
<1> USE MonitorAssumption DEF MonitorAssumption, Runs
<1>1. /\ leg.controller \in {"none", "live", "aborted"}
      /\ leg.carried \in 0..MaxBytes /\ leg.tick \in 0..MaxBytes
      /\ leg.carried + leg.tick <= MaxBytes
      /\ leg.controller = "none" => leg.tick = 0
      /\ leg = [controller |-> leg.controller, tick |-> leg.tick, carried |-> leg.carried]
  BY DEF Leg, Sound, Bytes
<1>2. StartLeg(leg) = IF leg.controller # "none" THEN leg
                      ELSE [controller |-> "live", tick |-> 0, carried |-> leg.carried]
  <2> DEFINE next == [leg EXCEPT !.controller = "live", !.tick = 0]
  <2>1. /\ next = [f \in {"controller", "tick", "carried"} |->
                      IF f = "tick" THEN 0 ELSE IF f = "controller" THEN "live" ELSE leg[f]]
    BY DEF Leg
  <2>2. next = [controller |-> "live", tick |-> 0, carried |-> leg.carried]
    BY <2>1
  <2> QED
    BY <2>2 DEF StartLeg
<1>3. AbortLeg(leg) = IF leg.controller = "none" THEN leg
                      ELSE [controller |-> "aborted", tick |-> leg.tick, carried |-> leg.carried]
  BY <1>1 DEF AbortLeg, Leg
<1>4. StartLeg(leg) \in Leg /\ Sound(StartLeg(leg)) /\ Bytes(StartLeg(leg)) = Bytes(leg)
  BY <1>1, <1>2 DEF Leg, Sound, Bytes
<1>5. AbortLeg(leg) \in Leg /\ Sound(AbortLeg(leg)) /\ Bytes(AbortLeg(leg)) = Bytes(leg)
  BY <1>1, <1>3 DEF Leg, Sound, Bytes
<1>6. Wound(leg) \in Leg /\ Sound(Wound(leg)) /\ Bytes(Wound(leg)) = Bytes(leg)
  BY <1>1 DEF Wound, Leg, Sound, Bytes
<1>7. /\ StartLeg(leg).controller = IF Runs(leg) THEN leg.controller ELSE "live"
      /\ AbortLeg(leg).controller = IF Runs(leg) THEN "aborted" ELSE "none"
      /\ ~Runs(Wound(leg))
  BY <1>1, <1>2, <1>3 DEF Wound
<1> QED
  BY <1>4, <1>5, <1>6, <1>7

-----------------------------------------------------------------------------
(* The inductive invariant.                                                *)

\* A leg that was aborted in a session nobody stopped was switched off.
AbortedAreOff ==
    running /\ ~stopping => \A k \in Key : legs[k].controller = "aborted" => ~switches[k]

IInv ==
    /\ TypeOK
    /\ startedAt <= now
    /\ \A k \in Key : Sound(legs[k])
    /\ LegsWithinSession
    /\ SwitchesHonoured
    /\ AbortedAreOff
    /\ TimelineOrdered

\* What SessionKept says of a step.
KeepsSession ==
    points # <<>> /\ points' # <<>> => points'[1] = points[1] /\ Elapsed' >= Elapsed

\* What MovedKept says of a step.
KeepsMoved ==
    \/ \A k \in Key : legs'[k].carried + legs'[k].tick >= legs[k].carried + legs[k].tick
    \/ points' = <<>> /\ ~running

LEMMA InitIInv == Init => IInv
<1> SUFFICES ASSUME Init PROVE IInv
  OBVIOUS
<1> USE MonitorAssumption DEF MonitorAssumption, Init
<1>1. Idle \in Leg /\ Sound(Idle) /\ ~Runs(Idle)
  BY DEF Idle, Leg, Sound, Bytes, Runs
<1>2. points = <<>> /\ points \in Seq(Nat) /\ Len(points) = 0 /\ DOMAIN points = {}
  OBVIOUS
<1>3. TypeOK
  <2>1. legs \in [Key -> Leg] /\ switches \in [Key -> BOOLEAN]
    BY <1>1
  <2>2. startedAt \in 1..MaxTime /\ now \in 1..MaxTime /\ due \in 0..(MaxTime + SampleMs)
        /\ timeBase \in Nat /\ Len(points) <= Capacity
    BY <1>2
  <2>3. shown \in BOOLEAN /\ running \in BOOLEAN /\ stopping \in BOOLEAN
    OBVIOUS
  <2> HIDE DEF Init
  <2> QED
    BY <1>2, <2>1, <2>2, <2>3 DEF TypeOK
<1>4. LegsWithinSession /\ SwitchesHonoured /\ AbortedAreOff
  BY <1>1 DEF LegsWithinSession, SwitchesHonoured, AbortedAreOff
<1>5. TimelineOrdered
  BY <1>2 DEF TimelineOrdered, Ordered
<1> QED
  BY <1>1, <1>3, <1>4, <1>5 DEF IInv

\* The clock that scrolls the graph.
LEMMA ElapsedIsNat == IInv => Position \in Nat /\ Elapsed \in Nat
<1> SUFFICES ASSUME IInv PROVE Position \in Nat /\ Elapsed \in Nat
  OBVIOUS
<1>1. /\ startedAt \in Nat /\ now \in Nat /\ timeBase \in Nat /\ startedAt <= now
      /\ points \in Seq(Nat)
  BY MonitorAssumption DEF IInv, TypeOK, MonitorAssumption
<1>2. Position \in Nat
  BY <1>1 DEF Position
<1>3. points # <<>> => Newest(points) \in Nat
  BY <1>1 DEF Newest
<1> QED
  BY <1>2, <1>3 DEF Elapsed

(***************************************************************************)
(* A point taken now, in a session that runs, fits the history.            *)
(***************************************************************************)
LEMMA SamplingKeeps ==
    ASSUME IInv, running, points' = AddPoint(points, Position, Capacity)
    PROVE  /\ points' \in Seq(Nat) /\ Len(points') <= Capacity /\ points' # <<>>
           /\ Ordered(points')
           /\ Position \in Nat
           /\ Newest(points') = Position
           /\ points # <<>> => points'[1] = points[1]
           /\ points # <<>> => Elapsed = Position
<1>1. /\ startedAt \in Nat /\ now \in Nat /\ timeBase \in Nat /\ startedAt <= now
      /\ points \in Seq(Nat) /\ Len(points) <= Capacity
  BY MonitorAssumption DEF IInv, TypeOK, MonitorAssumption
<1>2. Position \in Nat
  BY <1>1 DEF Position
<1>3. Ordered(points) /\ (points # <<>> => Newest(points) <= Position)
  BY DEF IInv, TimelineOrdered
<1>4. points \in History
  BY <1>1 DEF History
<1>5. /\ points' \in History /\ points' # <<>> /\ Ordered(points')
      /\ Newest(points') = Position
      /\ points # <<>> => points'[1] = points[1]
  BY <1>2, <1>3, <1>4, AddKeeps
<1>6. points # <<>> => Elapsed = Position
  <2> SUFFICES ASSUME points # <<>> PROVE Elapsed = Position
    OBVIOUS
  <2>1. Newest(points) \in Nat
    BY <1>1 DEF Newest
  <2> QED
    BY <1>2, <1>3, <2>1 DEF Elapsed
<1> QED
  BY <1>2, <1>5, <1>6 DEF History

(***************************************************************************)
(* However the legs come to be as they are, settling the session keeps the *)
(* invariant, provided that in a session nobody stops they are what the    *)
(* switches say.                                                           *)
(***************************************************************************)
LEMMA SettleKeeps ==
    ASSUME IInv, running,
           legs' \in [Key -> Leg], \A k \in Key : Sound(legs'[k]),
           NEW stop \in BOOLEAN,
           ~stop => \A k \in Key : /\ legs'[k].controller = "aborted" => ~switches[k]
                                   /\ legs'[k].controller # "aborted" => (Runs(legs'[k]) <=> switches[k]),
           Settle(legs', stop),
           UNCHANGED <<switches, startedAt, timeBase, now>>
    PROVE  IInv' /\ KeepsSession
<1>1. CASE stop /\ \A k \in Key : ~Runs(legs'[k])
  <2>1. /\ running' = FALSE /\ stopping' = FALSE /\ shown' = FALSE /\ due' = 0
        /\ points' = AddPoint(points, Position, Capacity)
    BY <1>1 DEF Settle
  <2>2. /\ points' \in Seq(Nat) /\ Len(points') <= Capacity /\ points' # <<>>
        /\ Ordered(points')
        /\ Position \in Nat /\ Newest(points') = Position
        /\ points # <<>> => points'[1] = points[1]
        /\ points # <<>> => Elapsed = Position
    BY <2>1, SamplingKeeps
  <2>3. TypeOK'
    <3>1. due' \in 0..(MaxTime + SampleMs)
      BY <2>1, MonitorAssumption DEF MonitorAssumption
    <3>2. running' \in BOOLEAN /\ stopping' \in BOOLEAN /\ shown' \in BOOLEAN
      BY <2>1
    <3> QED
      BY <2>2, <3>1, <3>2 DEF IInv, TypeOK
  <2>4. LegsWithinSession' /\ SwitchesHonoured' /\ AbortedAreOff' /\ TimelineOrdered'
    BY <1>1, <2>1, <2>2 DEF LegsWithinSession, SwitchesHonoured, AbortedAreOff, TimelineOrdered
  <2>5. Elapsed' = Position
    BY <2>1, <2>2 DEF Elapsed
  <2>6. KeepsSession
    BY <2>2, <2>5 DEF KeepsSession
  <2> QED
    BY <2>3, <2>4, <2>6 DEF IInv
<1>2. CASE ~(stop /\ \A k \in Key : ~Runs(legs'[k]))
  <2>1. stopping' = stop /\ UNCHANGED <<running, shown, points, due>>
    BY <1>2 DEF Settle
  <2>2. TypeOK'
    BY <2>1 DEF IInv, TypeOK
  <2>3. LegsWithinSession'
    BY <2>1 DEF IInv, LegsWithinSession
  <2>4. SwitchesHonoured' /\ AbortedAreOff'
    BY <2>1 DEF SwitchesHonoured, AbortedAreOff
  <2>5. Position' = Position
    BY DEF Position
  <2>6. TimelineOrdered'
    BY <2>1, <2>5 DEF IInv, TimelineOrdered
  <2>7. Elapsed' = Elapsed
    BY <2>1, <2>5 DEF Elapsed
  <2>8. KeepsSession
    <3>1. Elapsed \in Nat
      BY ElapsedIsNat
    <3> QED
      BY <2>1, <2>7, <3>1 DEF KeepsSession
  <2> QED
    BY <2>2, <2>3, <2>4, <2>6, <2>8 DEF IInv
<1> QED
  BY <1>1, <1>2

-----------------------------------------------------------------------------
(* The actions.                                                            *)

\* A stint resumes behind the newest point, with the directions switched on.
LEMMA StartKeeps == IInv /\ Start => IInv' /\ KeepsSession /\ KeepsMoved
<1> SUFFICES ASSUME IInv, Start PROVE IInv' /\ KeepsSession /\ KeepsMoved
  OBVIOUS
<1> USE MonitorAssumption DEF MonitorAssumption
<1>1. /\ ~shown /\ ~running /\ shown' = TRUE /\ running' = TRUE /\ stopping' = FALSE
      /\ timeBase' = Resume(points')
      /\ startedAt' = now /\ due' = now + SampleMs
      /\ UNCHANGED <<switches, now>>
  BY DEF Start
<1>2. PICK fresh \in BOOLEAN :
        /\ legs' = [k \in Key |->
                      LET leg == IF fresh THEN Idle ELSE legs[k]
                      IN  IF switches[k] THEN StartLeg(leg) ELSE leg]
        /\ points' = IF fresh THEN <<>> ELSE points
  BY DEF Start
<1> DEFINE Old(k) == IF fresh THEN Idle ELSE legs[k]
<1>3. \A k \in Key : Old(k) \in Leg /\ Sound(Old(k)) /\ ~Runs(Old(k))
  <2>1. Idle \in Leg /\ Sound(Idle) /\ ~Runs(Idle)
    BY DEF Idle, Leg, Sound, Bytes, Runs
  <2> QED
    BY <1>1, <2>1 DEF IInv, TypeOK, LegsWithinSession
<1>4. \A k \in Key : legs'[k] = IF switches[k] THEN StartLeg(Old(k)) ELSE Old(k)
  BY <1>2
<1>5. legs' = [k \in Key |-> legs'[k]]
  BY <1>2
<1> HIDE DEF Old
<1>6. \A k \in Key : /\ legs'[k] \in Leg /\ Sound(legs'[k])
                     /\ Bytes(legs'[k]) = Bytes(Old(k))
                     /\ legs'[k].controller = IF switches[k] THEN "live" ELSE "none"
  BY <1>3, <1>4, LegKeepsBytes DEF Runs
<1>7. /\ points' \in Seq(Nat) /\ Len(points') <= Capacity /\ Ordered(points')
      /\ points' # <<>> => points' = points
  <2>1. \A p \in {<<>>} : p \in Seq(Nat) /\ Len(p) <= Capacity /\ Ordered(p)
    BY DEF Ordered
  <2> QED
    BY <1>2, <2>1 DEF IInv, TypeOK, TimelineOrdered
<1>8. /\ timeBase' \in Nat /\ now \in 1..MaxTime /\ now \in Nat
      /\ points' # <<>> => Newest(points') \in Nat /\ Newest(points') <= timeBase'
  BY <1>1, <1>7 DEF Resume, Newest, IInv, TypeOK
<1>9. Position' = timeBase'
  BY <1>1, <1>8 DEF Position
<1>10. TypeOK'
  <2>1. due' \in 0..(MaxTime + SampleMs) /\ startedAt' \in 1..MaxTime /\ now' \in 1..MaxTime
    BY <1>1, <1>8
  <2>2. legs' \in [Key -> Leg]
    BY <1>5, <1>6
  <2>3. shown' \in BOOLEAN /\ running' \in BOOLEAN /\ stopping' \in BOOLEAN
    BY <1>1
  <2> QED
    BY <1>1, <1>7, <1>8, <2>1, <2>2, <2>3 DEF IInv, TypeOK
<1>11. LegsWithinSession' /\ SwitchesHonoured' /\ AbortedAreOff'
  BY <1>1, <1>6, <1>8 DEF LegsWithinSession, SwitchesHonoured, AbortedAreOff, Runs
<1>12. TimelineOrdered' /\ startedAt' <= now'
  BY <1>1, <1>7, <1>8, <1>9 DEF TimelineOrdered
<1>13. KeepsSession
  <2> SUFFICES ASSUME points # <<>>, points' # <<>> PROVE points' = points /\ Elapsed' >= Elapsed
    BY DEF KeepsSession
  <2>1. points' = points /\ Elapsed = Newest(points) /\ Elapsed \in Nat
    BY <1>1, <1>7, ElapsedIsNat DEF Elapsed
  <2>2. Elapsed' \in {Newest(points'), Position'}
    BY DEF Elapsed
  <2> QED
    BY <1>8, <1>9, <2>1, <2>2
<1>14. KeepsMoved
  <2>1. CASE fresh
    BY <1>1, <1>2, <2>1 DEF KeepsMoved
  <2>2. CASE ~fresh
    BY <1>6, <2>2 DEF KeepsMoved, Bytes, Old, IInv, TypeOK, Leg
  <2> QED
    BY <2>1, <2>2
<1> QED
  BY <1>6, <1>10, <1>11, <1>12, <1>13, <1>14 DEF IInv

(***************************************************************************)
(* Stop and the two ends of a leg change legs without losing bytes and     *)
(* settle the session with them.                                           *)
(***************************************************************************)
LEMMA EndingKeeps ==
    ASSUME IInv,
           Stop \/ \E key \in Key : LegEnds(key) \/ LegFails(key)
    PROVE  IInv' /\ KeepsSession /\ KeepsMoved
<1>1. \A k \in Key : legs[k] \in Leg /\ Sound(legs[k])
  BY DEF IInv, TypeOK
<1>2. CASE Stop /\ (~running \/ stopping)
  <2>1. UNCHANGED <<switches, now, shown, running, stopping, legs, points, startedAt, timeBase, due>>
    BY <1>2 DEF Stop, session, timeline
  <2>2. IInv'
    BY <2>1 DEF IInv, TypeOK, LegsWithinSession, SwitchesHonoured, AbortedAreOff,
                TimelineOrdered, Position
  <2>3. Elapsed' = Elapsed /\ Elapsed \in Nat
    BY <2>1, ElapsedIsNat DEF Elapsed, Position
  <2>4. KeepsMoved
    BY <1>1, <2>1 DEF KeepsMoved, Leg
  <2> QED
    BY <2>1, <2>2, <2>3, <2>4 DEF KeepsSession
<1>3. CASE Stop /\ ~(~running \/ stopping)
  <2>1. /\ legs' = [k \in Key |-> AbortLeg(legs[k])] /\ Settle(legs', TRUE)
        /\ UNCHANGED <<switches, startedAt, timeBase, now>>
    BY <1>3 DEF Stop
  <2>2. \A k \in Key : /\ legs'[k] \in Leg /\ Sound(legs'[k])
                       /\ Bytes(legs'[k]) = Bytes(legs[k])
    BY <1>1, <2>1, LegKeepsBytes
  <2>3. legs' \in [Key -> Leg]
    BY <2>1, <2>2
  <2>4. IInv' /\ KeepsSession
    BY <1>3, <2>1, <2>2, <2>3, SettleKeeps
  <2> QED
    BY <1>1, <2>2, <2>4 DEF KeepsMoved, Bytes, Leg
<1>4. ASSUME NEW key \in Key, LegEnds(key) PROVE IInv' /\ KeepsSession /\ KeepsMoved
  <2>1. /\ legs[key].controller = "aborted"
        /\ legs' = [legs EXCEPT ![key] = Wound(legs[key])] /\ Settle(legs', stopping)
        /\ UNCHANGED <<switches, startedAt, timeBase, now>>
    BY <1>4 DEF LegEnds
  <2>2. running
    BY <2>1 DEF IInv, LegsWithinSession, Runs
  <2>3. /\ legs'[key] = Wound(legs[key])
        /\ \A k \in Key \ {key} : legs'[k] = legs[k]
    BY <2>1 DEF IInv, TypeOK
  <2>4. \A k \in Key : /\ legs'[k] \in Leg /\ Sound(legs'[k])
                       /\ Bytes(legs'[k]) = Bytes(legs[k])
    BY <1>1, <2>3, LegKeepsBytes
  <2>5. legs' \in [Key -> Leg] /\ stopping \in BOOLEAN
    BY <2>1, <2>4 DEF IInv, TypeOK
  <2>6. ~Runs(legs'[key])
    BY <1>1, <2>3, LegKeepsBytes
  <2>7. ~stopping => \A k \in Key :
            /\ legs'[k].controller = "aborted" => ~switches[k]
            /\ legs'[k].controller # "aborted" => (Runs(legs'[k]) <=> switches[k])
    BY <2>1, <2>2, <2>3, <2>6 DEF IInv, SwitchesHonoured, AbortedAreOff, Runs
  <2>8. IInv' /\ KeepsSession
    BY <2>1, <2>2, <2>4, <2>5, <2>7, SettleKeeps
  <2> QED
    BY <1>1, <2>4, <2>8 DEF KeepsMoved, Bytes, Leg
<1>5. ASSUME NEW key \in Key, LegFails(key) PROVE IInv' /\ KeepsSession /\ KeepsMoved
  <2>1. /\ legs[key].controller = "live"
        /\ legs' = [k \in Key |-> IF k = key THEN Wound(legs[k])
                                  ELSE IF stopping THEN legs[k] ELSE AbortLeg(legs[k])]
        /\ Settle(legs', TRUE)
        /\ UNCHANGED <<switches, startedAt, timeBase, now>>
    BY <1>5 DEF LegFails
  <2>2. running
    BY <2>1 DEF IInv, LegsWithinSession, Runs
  <2>3. \A k \in Key : legs'[k] \in {Wound(legs[k]), AbortLeg(legs[k]), legs[k]}
    BY <2>1
  <2>4. \A k \in Key : /\ legs'[k] \in Leg /\ Sound(legs'[k])
                       /\ Bytes(legs'[k]) = Bytes(legs[k])
    BY <1>1, <2>3, LegKeepsBytes
  <2>5. legs' \in [Key -> Leg]
    BY <2>1, <2>4
  <2>6. IInv' /\ KeepsSession
    BY <2>1, <2>2, <2>4, <2>5, SettleKeeps
  <2> QED
    BY <1>1, <2>4, <2>6 DEF KeepsMoved, Bytes, Leg
<1> QED
  BY <1>2, <1>3, <1>4, <1>5

(***************************************************************************)
(* A switch gives its direction a leg or aborts it; the other direction is *)
(* set to what it was.                                                     *)
(***************************************************************************)
LEMMA FlipKeeps ==
    ASSUME IInv, NEW key \in Key, Flip(key)
    PROVE  IInv' /\ KeepsSession /\ KeepsMoved
<1>1. \A k \in Key : legs[k] \in Leg /\ Sound(legs[k])
  BY DEF IInv, TypeOK
<1>2. /\ ~stopping /\ legs[key].controller # "aborted"
      /\ switches' = [switches EXCEPT ![key] = ~switches[key]]
      /\ UNCHANGED <<shown, running, stopping, points, startedAt, timeBase, due, now>>
  BY DEF Flip, Settled, timeline
<1>3. switches' \in [Key -> BOOLEAN] /\ \A k \in Key \ {key} : switches'[k] = switches[k]
  BY <1>2 DEF IInv, TypeOK
<1>4. Position' = Position /\ Elapsed' = Elapsed /\ Elapsed \in Nat
  BY <1>2, ElapsedIsNat DEF Position, Elapsed
<1>5. KeepsSession /\ TimelineOrdered'
  BY <1>2, <1>4 DEF KeepsSession, IInv, TimelineOrdered
<1>6. CASE ~running
  <2>1. legs' = legs
    BY <1>6 DEF Flip
  <2>2. IInv'
    BY <1>2, <1>3, <1>5, <1>6, <2>1
       DEF IInv, TypeOK, LegsWithinSession, SwitchesHonoured, AbortedAreOff
  <2> QED
    BY <1>1, <1>5, <2>1, <2>2 DEF KeepsMoved, Leg
<1>7. CASE running
  <2>1. legs' = [k \in Key |-> IF switches'[k] THEN StartLeg(legs[k]) ELSE AbortLeg(legs[k])]
    BY <1>7 DEF Flip, IInv, LegsWithinSession
  <2>2. \A k \in Key :
           /\ legs'[k] \in Leg /\ Sound(legs'[k]) /\ Bytes(legs'[k]) = Bytes(legs[k])
           /\ switches'[k] =>
                 legs'[k].controller = IF Runs(legs[k]) THEN legs[k].controller ELSE "live"
           /\ ~switches'[k] =>
                 legs'[k].controller = IF Runs(legs[k]) THEN "aborted" ELSE "none"
    BY <1>1, <2>1, LegKeepsBytes
  <2>3. legs' \in [Key -> Leg]
    BY <2>1, <2>2
  <2>4. TypeOK' /\ LegsWithinSession'
    BY <1>2, <1>3, <1>7, <2>3 DEF IInv, TypeOK, LegsWithinSession
  <2>5. SwitchesHonoured'
    BY <2>2 DEF SwitchesHonoured, Runs
  <2>6. AbortedAreOff'
    <3>1. \A k \in Key : legs[k].controller = "aborted" => ~switches'[k]
      BY <1>2, <1>3, <1>7 DEF IInv, AbortedAreOff
    <3> QED
      BY <2>2, <3>1 DEF AbortedAreOff, Runs
  <2> QED
    BY <1>1, <1>2, <1>5, <2>2, <2>4, <2>5, <2>6 DEF IInv, KeepsMoved, Bytes, Leg
<1> QED
  BY <1>6, <1>7 DEF IInv, TypeOK

\* Bytes, samples, Clear and the passing of time.
LEMMA RestKeeps ==
    ASSUME IInv,
           (\E key \in Key : Report(key)) \/ Sample \/ Clear \/ Tick \/ UNCHANGED vars
    PROVE  IInv' /\ KeepsSession /\ KeepsMoved
<1> USE MonitorAssumption DEF MonitorAssumption
<1>1. \A k \in Key : legs[k] \in Leg /\ Sound(legs[k])
  BY DEF IInv, TypeOK
<1>2. Elapsed \in Nat /\ Position \in Nat
  BY ElapsedIsNat
<1>3. ASSUME NEW key \in Key, Report(key) PROVE IInv' /\ KeepsSession /\ KeepsMoved
  <2>1. /\ legs[key].controller # "none"
        /\ legs[key].carried + legs[key].tick < MaxBytes
        /\ legs' = [legs EXCEPT ![key].tick = legs[key].tick + 1]
        /\ UNCHANGED <<switches, shown, running, stopping, points, startedAt, timeBase, due, now>>
    BY <1>3 DEF Report, Runs, timeline
  <2>2. /\ legs'[key] = [legs[key] EXCEPT !.tick = legs[key].tick + 1]
        /\ \A k \in Key \ {key} : legs'[k] = legs[k]
        /\ legs' = [k \in Key |-> legs'[k]]
    BY <2>1 DEF IInv, TypeOK
  <2>3. /\ legs'[key].controller = legs[key].controller
        /\ legs'[key].carried = legs[key].carried
        /\ legs'[key].tick = legs[key].tick + 1
        /\ legs'[key] \in Leg
    BY <1>1, <2>1, <2>2 DEF Leg
  <2>4. Sound(legs'[key])
    BY <1>1, <2>1, <2>3 DEF Sound, Bytes, Runs, Leg
  <2>5. \A k \in Key : /\ legs'[k] \in Leg /\ Sound(legs'[k])
                       /\ legs'[k].controller = legs[k].controller
    BY <1>1, <2>2, <2>3, <2>4
  <2>6. legs' \in [Key -> Leg]
    BY <2>2, <2>5
  <2>7. TypeOK'
    BY <2>1, <2>6 DEF IInv, TypeOK
  <2>8. LegsWithinSession' /\ SwitchesHonoured' /\ AbortedAreOff'
    BY <2>1, <2>5 DEF IInv, LegsWithinSession, SwitchesHonoured, AbortedAreOff, Runs
  <2>9. Position' = Position /\ Elapsed' = Elapsed
    BY <2>1 DEF Position, Elapsed
  <2>10. TimelineOrdered' /\ KeepsSession
    BY <1>2, <2>1, <2>9 DEF IInv, TimelineOrdered, KeepsSession
  <2>11. KeepsMoved
    <3>1. \A k \in Key : legs[k].carried \in Nat /\ legs[k].tick \in Nat
      BY <1>1 DEF Leg
    <3>2. ASSUME NEW k \in Key
          PROVE  legs'[k].carried + legs'[k].tick >= legs[k].carried + legs[k].tick
      <4>1. CASE k = key
        <5>1. legs'[k].carried = legs[k].carried /\ legs'[k].tick = legs[k].tick + 1
          BY <2>3, <4>1
        <5>2. legs[k].carried \in Nat /\ legs[k].tick \in Nat
          BY <3>1
        <5> QED
          BY <5>1, <5>2
      <4>2. CASE k # key
        <5>1. legs'[k] = legs[k]
          BY <2>2, <4>2
        <5> QED
          BY <3>1, <5>1
      <4> QED
        BY <4>1, <4>2
    <3> QED
      BY <3>2 DEF KeepsMoved
  <2> QED
    BY <2>1, <2>5, <2>7, <2>8, <2>10, <2>11 DEF IInv
<1>4. CASE Sample
  <2>1. /\ due # 0 /\ due <= now /\ due' = due + SampleMs
        /\ points' = AddPoint(points, Position, Capacity)
        /\ UNCHANGED <<switches, shown, running, stopping, legs, startedAt, timeBase, now>>
    BY <1>4 DEF Sample, session
  <2>2. running
    BY <2>1 DEF IInv, LegsWithinSession
  <2>3. /\ points' \in Seq(Nat) /\ Len(points') <= Capacity /\ points' # <<>>
        /\ Ordered(points')
        /\ Newest(points') = Position
        /\ points # <<>> => points'[1] = points[1]
        /\ points # <<>> => Elapsed = Position
    BY <2>1, <2>2, SamplingKeeps
  <2>4. Position' = Position
    BY <2>1 DEF Position
  <2>5. due' \in 0..(MaxTime + SampleMs) /\ due' # 0
    BY <2>1 DEF IInv, TypeOK
  <2>6. TypeOK'
    BY <2>1, <2>3, <2>5 DEF IInv, TypeOK
  <2>7. LegsWithinSession' /\ SwitchesHonoured' /\ AbortedAreOff' /\ TimelineOrdered'
    BY <1>2, <2>1, <2>2, <2>3, <2>4, <2>5
       DEF IInv, LegsWithinSession, SwitchesHonoured, AbortedAreOff, TimelineOrdered
  <2>8. Elapsed' = Position
    BY <1>2, <2>3, <2>4 DEF Elapsed
  <2>9. KeepsSession
    BY <1>2, <2>3, <2>8 DEF KeepsSession
  <2>10. KeepsMoved
    BY <1>1, <2>1 DEF KeepsMoved, Leg
  <2> QED
    BY <2>1, <2>6, <2>7, <2>9, <2>10 DEF IInv
<1>5. CASE Clear
  <2>1. /\ ~running /\ points' = <<>> /\ timeBase' = 0
        /\ UNCHANGED <<switches, shown, running, stopping, legs, startedAt, due, now>>
    BY <1>5 DEF Clear, session
  <2>2. \A p \in {<<>>} : p \in Seq(Nat) /\ Len(p) <= Capacity /\ Ordered(p)
    BY DEF Ordered
  <2>3. TypeOK'
    BY <2>1, <2>2 DEF IInv, TypeOK
  <2>4. LegsWithinSession' /\ SwitchesHonoured' /\ AbortedAreOff' /\ TimelineOrdered'
    BY <2>1, <2>2 DEF IInv, LegsWithinSession, SwitchesHonoured, AbortedAreOff, TimelineOrdered
  <2> QED
    BY <2>1, <2>3, <2>4 DEF IInv, KeepsSession, KeepsMoved
<1>6. CASE Tick
  <2>1. /\ now < MaxTime /\ now' = now + 1
        /\ UNCHANGED <<switches, shown, running, stopping, legs, points, startedAt, timeBase, due>>
    BY <1>6 DEF Tick, session, timeline
  <2>2. now \in Nat /\ startedAt \in Nat /\ timeBase \in Nat /\ startedAt <= now
    BY DEF IInv, TypeOK
  <2>3. Position' = Position + 1
    BY <2>1, <2>2 DEF Position
  <2>4. TypeOK' /\ startedAt' <= now'
    BY <2>1 DEF IInv, TypeOK
  <2>5. LegsWithinSession' /\ SwitchesHonoured' /\ AbortedAreOff'
    BY <2>1 DEF IInv, LegsWithinSession, SwitchesHonoured, AbortedAreOff
  <2>6. points # <<>> => Newest(points) \in Nat
    BY DEF IInv, TypeOK, Newest
  <2>7. TimelineOrdered'
    BY <1>2, <2>1, <2>3, <2>6 DEF IInv, TimelineOrdered
  <2>8. Elapsed' >= Elapsed
    BY <1>2, <2>1, <2>3, <2>6 DEF Elapsed
  <2>9. KeepsMoved
    BY <1>1, <2>1 DEF KeepsMoved, Leg
  <2> QED
    BY <2>1, <2>4, <2>5, <2>7, <2>8, <2>9 DEF IInv, KeepsSession
<1>7. CASE UNCHANGED vars
  <2>1. UNCHANGED <<switches, now, shown, running, stopping, legs, points, startedAt, timeBase, due>>
    BY <1>7 DEF vars, session, timeline
  <2>2. IInv'
    BY <2>1 DEF IInv, TypeOK, LegsWithinSession, SwitchesHonoured, AbortedAreOff,
                TimelineOrdered, Position
  <2>3. Elapsed' = Elapsed
    BY <2>1 DEF Elapsed, Position
  <2> QED
    BY <1>1, <1>2, <2>1, <2>2, <2>3 DEF KeepsSession, KeepsMoved, Leg
<1> QED
  BY <1>3, <1>4, <1>5, <1>6, <1>7

-----------------------------------------------------------------------------
(***************************************************************************)
(* The invariant holds at any time, and every step keeps the session's     *)
(* beginning, its clock and what its directions moved.                     *)
(***************************************************************************)
LEMMA StepKeeps == IInv /\ [Next]_vars => IInv' /\ KeepsSession /\ KeepsMoved
BY StartKeeps, EndingKeeps, FlipKeeps, RestKeeps DEF Next

THEOREM MonitorInvariant == Spec => []IInv
BY InitIInv, StepKeeps, PTL DEF Spec

(***************************************************************************)
(* Every reachable state is well typed: the history stays within its       *)
(* capacity.                                                               *)
(***************************************************************************)
THEOREM MonitorTypeCorrect == Spec => []TypeOK
<1>1. IInv => TypeOK
  BY DEF IInv
<1> QED
  BY MonitorInvariant, <1>1, PTL

(***************************************************************************)
(* Bytes move and samples are taken only while panel and monitor agree     *)
(* that a session is running (monitor.ts:306-310).                         *)
(***************************************************************************)
THEOREM BytesWithinSession == Spec => []LegsWithinSession
<1>1. IInv => LegsWithinSession
  BY DEF IInv
<1> QED
  BY MonitorInvariant, <1>1, PTL

(***************************************************************************)
(* What loads the link is what is switched on, however the switches, ends  *)
(* and failures are ordered (monitor.ts:320-331).                          *)
(***************************************************************************)
THEOREM LinkFollowsSwitches == Spec => []SwitchesHonoured
<1>1. IInv => SwitchesHonoured
  BY DEF IInv
<1> QED
  BY MonitorInvariant, <1>1, PTL

(***************************************************************************)
(* For any capacity and any spacing of samples, points are in order across *)
(* stints and compactions (monitor.ts:170-179).                            *)
(***************************************************************************)
THEOREM HistoryInOrder == Spec => []TimelineOrdered
<1>1. IInv => TimelineOrdered
  BY DEF IInv
<1> QED
  BY MonitorInvariant, <1>1, PTL

(***************************************************************************)
(* The session begins where it began, however often its history is halved, *)
(* and its clock does not go back (series.ts:160-165).                     *)
(***************************************************************************)
THEOREM SessionIsKept == Spec => SessionKept
<1>1. IInv /\ [Next]_vars => KeepsSession
  BY StepKeeps
<1> QED
  BY MonitorInvariant, <1>1, PTL DEF Spec, SessionKept, KeepsSession

(***************************************************************************)
(* What a direction moved is not forgotten over pauses and switches        *)
(* (monitor.ts:100).                                                       *)
(***************************************************************************)
THEOREM MovedIsKept == Spec => MovedKept
<1>1. IInv /\ [Next]_vars => KeepsMoved
  BY StepKeeps
<1> QED
  BY MonitorInvariant, <1>1, PTL DEF Spec, MovedKept, KeepsMoved

-----------------------------------------------------------------------------
(* A phase of one leg, or of a staged test, on a clock of its own.         *)

(***************************************************************************)
(* A stream that has not given up has failures left.                       *)
(***************************************************************************)
FailuresLeft ==
    \A s \in Stream : streams[s].at # "rejected" => streams[s].failures < MAX_STREAM_FAILURES

(***************************************************************************)
(* Until there is a figure, the ramp lies before the grace mark.           *)
(***************************************************************************)
RampBeforeMark ==
    /\ ramp <= meter.total
    /\ captured = None /\ meter.graced => ramp <= meter.base /\ clock >= grace

(***************************************************************************)
(* The streams are stopped by the end of the window or by the caller; they *)
(* return for no other reason.                                             *)
(***************************************************************************)
StoppedForAReason ==
    /\ control /\ outcome = "running" => signal \/ captured # None
    /\ captured # None /\ outcome = "running" => Finite /\ captured.at >= window
    /\ \A s \in Stream : streams[s].at = "returned" => control

\* Nothing happens in a phase that has ended.
Still ==
    outcome # "running" => ~ticking /\ \A s \in Stream : Over(streams[s])

PhaseInv ==
    /\ TypeTransfer
    /\ FailuresLeft
    /\ RampBeforeMark
    /\ RampExcluded
    /\ StoppedForAReason
    /\ Still
    /\ FigureForWholeWindow

-----------------------------------------------------------------------------
Meter == [total : 0..MaxMoved, base : 0..MaxMoved, graced : BOOLEAN]

\* A meter that is made to mark its ramp's end is one still.
LEMMA GracedIsMeter ==
    ASSUME NEW m \in Meter, MaxMoved \in Nat, m.base <= m.total
    PROVE  /\ Graced(m) \in Meter
           /\ Graced(m).total = m.total
           /\ Graced(m).base = IF m.graced THEN m.base ELSE m.total
           /\ Graced(m).base <= Graced(m).total
           /\ Graced(m).graced
<1>1. CASE m.graced
  BY <1>1 DEF Graced, Meter
<1>2. CASE ~m.graced
  <2>1. Graced(m) = [m EXCEPT !.base = m.total, !.graced = TRUE]
    BY <1>2 DEF Graced, MarkGrace
  <2>2. /\ m.total \in 0..MaxMoved
        /\ Graced(m) = [total |-> m.total, base |-> m.total, graced |-> TRUE]
    BY <2>1 DEF Meter
  <2> QED
    BY <1>2, <2>2 DEF Meter
<1> QED
  BY <1>1, <1>2

(***************************************************************************)
(* A figure taken from a meter whose ramp lies before its mark leaves the  *)
(* ramp out (transfer-phase.ts:95-104).                                    *)
(***************************************************************************)
LEMMA CaptureExcludesRamp ==
    ASSUME NEW m \in Meter, NEW r \in Nat,
           m.base <= m.total, r <= m.total, m.graced => r <= m.base,
           captured = None, clock \in 0..MaxClock, MaxMoved \in Nat, MaxClock \in Nat
    PROVE  /\ Capture(m) \in Result
           /\ Capture(m).at = clock
           /\ Capture(m).bytes + r <= Capture(m).total
<1>1. /\ Graced(m).base \in 0..MaxMoved
      /\ Graced(m).base <= m.total
      /\ r <= Graced(m).base
  BY GracedIsMeter DEF Meter
<1>2. Capture(m) = [at |-> clock, bytes |-> m.total - Graced(m).base, total |-> m.total]
  BY DEF Capture
<1>3. m.total \in 0..MaxMoved /\ m.total - Graced(m).base \in 0..MaxMoved
  BY <1>1 DEF Meter
<1> QED
  BY <1>1, <1>2, <1>3 DEF Result

\* A figure is not null.
LEMMA ResultIsSome ==
    ASSUME NEW x \in Result
    PROVE  x # None
BY TransferAssumption DEF Result, TransferAssumption

(***************************************************************************)
(* Whatever a stream goes on to do, the rest of its step included, keeps   *)
(* the invariant: the heart is the last stream's end (SettleAll).          *)
(***************************************************************************)
LEMMA BecomesKeeps ==
    ASSUME PhaseInv,
           NEW s \in Stream, ~Over(streams[s]),
           NEW at \in {"request", "backoff", "returned", "rejected"},
           NEW failures \in 0..MAX_STREAM_FAILURES,
           at # "rejected" => failures < MAX_STREAM_FAILURES,
           at = "returned" => control,
           NEW rest \in 0..1, meter.total + rest <= MaxMoved,
           ramp' = ramp + InRamp(rest),
           Becomes(s, at, failures, Moved(rest))
    PROVE  PhaseInv'
<1> DEFINE m == Moved(rest)
<1> USE TransferAssumption DEF TransferAssumption, MAX_STREAM_FAILURES
<1>1. outcome = "running"
  BY DEF PhaseInv, Still
<1>2. /\ m \in Meter
      /\ m.base <= m.total /\ m.base = meter.base /\ m.graced = meter.graced
      /\ m.total = meter.total + rest
  BY DEF Moved, PhaseInv, TypeTransfer, Meter
<1>3. /\ ramp' \in 0..MaxMoved
      /\ ramp' <= m.total
      /\ captured = None /\ m.graced => ramp' <= m.base
      /\ captured # None => ramp' = ramp
  <2>1. /\ InRamp(rest) \in 0..rest
        /\ captured # None \/ clock >= grace => InRamp(rest) = 0
    BY DEF InRamp, PhaseInv, TypeTransfer
  <2> QED
    BY <1>2, <2>1 DEF PhaseInv, TypeTransfer, RampBeforeMark
<1>4. /\ streams' = [streams EXCEPT ![s] = [at |-> at, failures |-> failures]]
      /\ SettleAll(streams', m)
      /\ UNCHANGED <<window, grace, clock, signal>>
  BY DEF Becomes, options
<1>5. /\ streams' \in [Stream -> [at : {"request", "backoff", "returned", "rejected"},
                                  failures : 0..MAX_STREAM_FAILURES]]
      /\ FailuresLeft'
      /\ \A t \in Stream : streams'[t].at = "returned" => control
  BY <1>4 DEF PhaseInv, TypeTransfer, FailuresLeft, StoppedForAReason
<1>6. CASE \E t \in Stream : ~Over(streams'[t])
  <2>1. meter' = m /\ UNCHANGED <<control, ticking, captured, outcome>>
    BY <1>4, <1>6 DEF SettleAll
  <2>2. TypeTransfer'
    BY <1>2, <1>3, <1>4, <1>5, <2>1 DEF PhaseInv, TypeTransfer, Meter
  <2>3. RampBeforeMark'
    BY <1>2, <1>3, <1>4, <2>1 DEF PhaseInv, RampBeforeMark
  <2>4. RampExcluded'
    BY <1>3, <2>1 DEF PhaseInv, RampExcluded
  <2>5. StoppedForAReason'
    BY <1>1, <1>4, <1>5, <2>1 DEF PhaseInv, StoppedForAReason, Finite
  <2>6. Still' /\ FigureForWholeWindow'
    BY <1>1, <2>1 DEF Still, FigureForWholeWindow
  <2> QED
    BY <1>5, <2>2, <2>3, <2>4, <2>5, <2>6 DEF PhaseInv
<1>7. CASE ~ \E t \in Stream : ~Over(streams'[t])
  <2>1. /\ control' /\ ~ticking'
        /\ outcome' = Ending(streams')
        /\ IF outcome' = "result"
           THEN captured' = Capture(m) /\ meter' = Graced(m)
           ELSE meter' = m /\ captured' = captured
    BY <1>4, <1>7 DEF SettleAll
  <2>2. control' \in BOOLEAN /\ ticking' \in BOOLEAN
    BY <1>4, <1>7 DEF SettleAll
  <2>3. outcome' \in {"result", "failed", "aborted"}
    BY <2>1 DEF Ending
  <2>4. captured # None => Capture(m) = captured
    BY DEF Capture
  <2>5. captured = None =>
            /\ Capture(m) \in Result
            /\ Capture(m).at = clock
            /\ Capture(m).bytes + ramp' <= Capture(m).total
    BY <1>2, <1>3, CaptureExcludesRamp DEF PhaseInv, TypeTransfer
  <2>6. /\ Graced(m) \in Meter
        /\ Graced(m).base <= Graced(m).total
        /\ Graced(m).total = m.total
    BY <1>2, GracedIsMeter
  <2>7. captured' # None => captured' \in Result /\ captured'.bytes + ramp' <= captured'.total
    BY <1>3, <2>1, <2>4, <2>5 DEF PhaseInv, TypeTransfer, RampExcluded
  <2>8. outcome' = "result" => captured' # None
    BY <2>1, <2>4, <2>5, ResultIsSome
  <2>9. TypeTransfer'
    BY <1>2, <1>3, <1>4, <1>5, <2>1, <2>2, <2>3, <2>6, <2>7 DEF PhaseInv, TypeTransfer, Meter
  <2>10. RampBeforeMark'
    <3>1. ramp' <= meter'.total
      BY <1>2, <1>3, <2>1, <2>6
    <3>2. ASSUME captured' = None, meter'.graced PROVE ramp' <= meter'.base /\ clock' >= grace'
      <4>1. meter' = m /\ captured = None /\ meter.graced
        BY <1>2, <2>1, <2>8, <3>2
      <4> QED
        BY <1>2, <1>3, <1>4, <4>1 DEF PhaseInv, RampBeforeMark
    <3> QED
      BY <3>1, <3>2 DEF RampBeforeMark
  <2>11. RampExcluded' /\ StoppedForAReason' /\ Still'
    BY <1>7, <2>1, <2>3, <2>7 DEF RampExcluded, StoppedForAReason, Still
  <2>12. FigureForWholeWindow'
    <3>1. ASSUME outcome' = "result", ~signal PROVE captured # None
      <4>1. PICK t \in Stream : streams'[t].at # "rejected"
        BY <2>1, <3>1 DEF Ending
      <4>2. control
        BY <1>5, <1>7, <4>1 DEF Over
      <4> QED
        BY <1>1, <3>1, <4>2 DEF PhaseInv, StoppedForAReason
    <3>2. ASSUME outcome' = "result", Finite PROVE captured'.at >= window
      <4>1. captured # None
        BY <2>1, <3>1, <3>2 DEF Ending
      <4> QED
        BY <1>1, <2>1, <2>4, <3>2, <4>1 DEF PhaseInv, StoppedForAReason
    <3>3. ASSUME outcome' = "result", ~Finite PROVE signal
      BY <1>1, <3>1, <3>3 DEF PhaseInv, StoppedForAReason
    <3>4. outcome' = "aborted" => Finite
      BY <2>1 DEF Ending
    <3> QED
      BY <1>4, <3>2, <3>3, <3>4 DEF FigureForWholeWindow, Finite
  <2> QED
    BY <1>5, <2>9, <2>10, <2>11, <2>12 DEF PhaseInv
<1> QED
  BY <1>6, <1>7

-----------------------------------------------------------------------------
\* The invariant holds as a phase begins.
LEMMA PhaseInit ==
    ASSUME InitTransfer
    PROVE  PhaseInv
<1> USE TransferAssumption DEF TransferAssumption, InitTransfer
<1>1. meter.total = 0 /\ meter.base = 0 /\ ~meter.graced
  OBVIOUS
<1>2. TypeTransfer
  <2>1. streams \in [Stream -> [at : {"request", "backoff", "returned", "rejected"},
                               failures : 0..MAX_STREAM_FAILURES]]
    BY DEF MAX_STREAM_FAILURES
  <2>2. meter \in [total : 0..MaxMoved, base : 0..MaxMoved, graced : BOOLEAN]
    OBVIOUS
  <2>3. clock \in 0..MaxClock /\ ramp \in 0..MaxMoved
    OBVIOUS
  <2>4. captured \in {None} \cup Result /\ outcome \in {"running", "result", "failed", "aborted"}
    OBVIOUS
  <2>5. meter.base <= meter.total
    BY <1>1
  <2>6. /\ window \in Windows /\ grace \in Graces
        /\ signal \in BOOLEAN /\ control \in BOOLEAN /\ ticking \in BOOLEAN
    OBVIOUS
  <2> HIDE DEF InitTransfer
  <2> QED
    BY <2>1, <2>2, <2>3, <2>4, <2>5, <2>6 DEF TypeTransfer
<1>3. FailuresLeft /\ StoppedForAReason
  BY DEF FailuresLeft, StoppedForAReason, MAX_STREAM_FAILURES
<1>4. RampBeforeMark /\ RampExcluded
  BY <1>1 DEF RampBeforeMark, RampExcluded
<1>5. Still /\ FigureForWholeWindow
  BY DEF Still, FigureForWholeWindow
<1> QED
  BY <1>2, <1>3, <1>4, <1>5 DEF PhaseInv

\* The interval keeps it: it marks the ramp's end and takes the figure.
LEMMA TickerKeeps ==
    ASSUME PhaseInv, Ticker
    PROVE  PhaseInv'
<1> USE TransferAssumption DEF TransferAssumption
<1> DEFINE marked == IF clock >= grace THEN Graced(meter) ELSE meter
<1>1. /\ ticking /\ UNCHANGED <<window, grace, clock, signal, streams, outcome, ramp>>
      /\ IF Finite /\ clock >= window
         THEN /\ captured' = Capture(marked) /\ meter' = Graced(marked)
              /\ ticking' = FALSE /\ control' = TRUE
         ELSE meter' = marked /\ UNCHANGED <<captured, ticking, control>>
  BY DEF Ticker, options
<1>2. outcome = "running"
  BY <1>1 DEF PhaseInv, Still
<1>3. meter \in Meter /\ meter.base <= meter.total
  BY DEF PhaseInv, TypeTransfer, Meter
<1>4. /\ marked \in Meter /\ marked.base <= marked.total /\ marked.total = meter.total
      /\ marked.graced => clock >= grace \/ meter.graced
      /\ captured = None /\ marked.graced => ramp <= marked.base
  BY <1>3, GracedIsMeter DEF PhaseInv, TypeTransfer, RampBeforeMark
<1>5. /\ Graced(marked) \in Meter /\ Graced(marked).base <= Graced(marked).total
      /\ Graced(marked).total = meter.total
  BY <1>4, GracedIsMeter DEF PhaseInv, TypeTransfer
<1>6. FailuresLeft' /\ Still' /\ FigureForWholeWindow'
  BY <1>1, <1>2 DEF PhaseInv, FailuresLeft, Still, FigureForWholeWindow
<1>7. CASE Finite /\ clock >= window
  <2>1. /\ captured' = Capture(marked) /\ meter' = Graced(marked)
        /\ ticking' = FALSE /\ control' = TRUE
    BY <1>1, <1>7
  <2>2. captured = None =>
            /\ Capture(marked) \in Result
            /\ Capture(marked).at = clock
            /\ Capture(marked).bytes + ramp <= Capture(marked).total
    BY <1>4, CaptureExcludesRamp DEF PhaseInv, TypeTransfer, RampBeforeMark
  <2>3. captured # None => captured' = captured
    BY <2>1 DEF Capture
  <2>4. /\ captured' \in Result /\ captured' # None
        /\ captured'.bytes + ramp <= captured'.total
        /\ captured'.at >= window
    BY <1>2, <1>7, <2>1, <2>2, <2>3, ResultIsSome
       DEF PhaseInv, TypeTransfer, RampExcluded, StoppedForAReason, Finite
  <2>5. TypeTransfer' /\ RampBeforeMark' /\ RampExcluded' /\ StoppedForAReason'
    BY <1>1, <1>5, <1>7, <2>1, <2>4
       DEF PhaseInv, TypeTransfer, Meter, RampBeforeMark, RampExcluded, StoppedForAReason,
           Finite
  <2> QED
    BY <1>6, <2>5 DEF PhaseInv
<1>8. CASE ~(Finite /\ clock >= window)
  <2>1. meter' = marked /\ UNCHANGED <<captured, ticking, control>>
    BY <1>1, <1>8
  <2>2. TypeTransfer' /\ RampBeforeMark' /\ RampExcluded' /\ StoppedForAReason'
    BY <1>1, <1>4, <2>1
       DEF PhaseInv, TypeTransfer, Meter, RampBeforeMark, RampExcluded, StoppedForAReason,
           Finite
  <2> QED
    BY <1>6, <2>2 DEF PhaseInv
<1> QED
  BY <1>7, <1>8

\* A chunk keeps it: before the figure, it may belong to the ramp.
LEMMA MoveKeeps ==
    ASSUME PhaseInv, NEW s \in Stream, Move(s)
    PROVE  PhaseInv'
<1> USE TransferAssumption DEF TransferAssumption
<1>1. /\ streams[s].at = "request" /\ meter.total < MaxMoved
      /\ meter' = Moved(1) /\ ramp' = ramp + InRamp(1)
      /\ UNCHANGED <<window, grace, clock, signal, control, ticking, captured, streams, outcome>>
  BY DEF Move, options
<1>2. /\ meter' \in Meter /\ meter'.total = meter.total + 1
      /\ meter'.base = meter.base /\ meter'.graced = meter.graced
      /\ meter'.base <= meter'.total
  BY <1>1 DEF Moved, PhaseInv, TypeTransfer, Meter
<1>3. InRamp(1) \in 0..1 /\ (captured # None \/ clock >= grace => InRamp(1) = 0)
  BY DEF InRamp, PhaseInv, TypeTransfer
<1>4. TypeTransfer' /\ RampBeforeMark' /\ RampExcluded'
  BY <1>1, <1>2, <1>3 DEF PhaseInv, TypeTransfer, Meter, RampBeforeMark, RampExcluded
<1> QED
  BY <1>1, <1>4 DEF PhaseInv, FailuresLeft, StoppedForAReason, Still,
                     FigureForWholeWindow, Finite

\* The ends of a request and of a sleep keep it.
LEMMA StreamKeeps ==
    ASSUME PhaseInv, NEW s \in Stream,
           Complete(s) \/ Fail(s) \/ Wake(s) PROVE PhaseInv'
<1> USE DEF MAX_STREAM_FAILURES
<1>1. streams[s].failures \in 0..MAX_STREAM_FAILURES /\ meter \in Meter
  BY DEF PhaseInv, TypeTransfer, Meter
<1>2. meter = Moved(0) /\ InRamp(0) = 0 /\ meter.total + 0 <= MaxMoved
  BY <1>1, TransferAssumption DEF Moved, InRamp, Meter, TransferAssumption
<1>3. Onward \in {"request", "returned"} /\ (Onward = "returned" => control)
  BY DEF Onward
<1>4. ramp \in Nat
  BY TransferAssumption DEF PhaseInv, TypeTransfer, TransferAssumption
<1>5. CASE Complete(s)
  <2>1. /\ ~Over(streams[s])
        /\ \E rest \in 0..1 : /\ meter.total + rest <= MaxMoved
                              /\ Becomes(s, Onward, 0, Moved(rest))
                              /\ ramp' = ramp + InRamp(rest)
    BY <1>5 DEF Complete, Over
  <2> QED
    BY <1>3, <2>1, BecomesKeeps
<1>6. CASE Fail(s)
  <2>1. /\ ~Over(streams[s]) /\ ramp' = ramp + InRamp(0)
        /\ streams[s].failures < MAX_STREAM_FAILURES
    BY <1>2, <1>4, <1>6 DEF Fail, Over, PhaseInv, FailuresLeft
  <2>2. CASE control
    <3>1. Becomes(s, "returned", streams[s].failures, Moved(0))
      BY <1>2, <1>6, <2>2 DEF Fail
    <3> QED
      BY <1>1, <1>2, <2>1, <2>2, <3>1, BecomesKeeps
  <2>3. CASE ~control
    <3> DEFINE failures == streams[s].failures + 1
               at == IF failures >= MAX_STREAM_FAILURES THEN "rejected" ELSE "backoff"
    <3>1. Becomes(s, at, failures, Moved(0))
      BY <1>2, <1>6, <2>3 DEF Fail
    <3>2. /\ failures \in 0..MAX_STREAM_FAILURES
          /\ at \in {"rejected", "backoff"}
          /\ at # "rejected" => failures < MAX_STREAM_FAILURES
      BY <1>1, <2>1
    <3> HIDE DEF failures, at
    <3> QED
      BY <1>2, <2>1, <3>1, <3>2, BecomesKeeps
  <2> QED
    BY <2>2, <2>3
<1>7. CASE Wake(s)
  <2>1. /\ ~Over(streams[s]) /\ ramp' = ramp + InRamp(0)
        /\ streams[s].failures < MAX_STREAM_FAILURES
        /\ Becomes(s, Onward, streams[s].failures, Moved(0))
    BY <1>2, <1>4, <1>7 DEF Wake, Over, PhaseInv, FailuresLeft
  <2> QED
    BY <1>1, <1>2, <1>3, <2>1, BecomesKeeps
<1> QED
  BY <1>5, <1>6, <1>7

-----------------------------------------------------------------------------
(***************************************************************************)
(* The invariant holds of every phase, at any time.                        *)
(***************************************************************************)
THEOREM PhaseInvariant ==
    SpecTransfer => []PhaseInv
<1>1. PhaseInv /\ [NextTransfer]_tvars => PhaseInv'
  <2> SUFFICES ASSUME PhaseInv, [NextTransfer]_tvars PROVE PhaseInv'
    OBVIOUS
  <2>1. CASE Ticker
    BY <2>1, TickerKeeps
  <2>2. CASE CallerAborts
    BY <2>2 DEF CallerAborts, options, PhaseInv, TypeTransfer, FailuresLeft,
                RampBeforeMark, RampExcluded,
                StoppedForAReason, Still, FigureForWholeWindow, Finite
  <2>3. CASE Pass
    BY <2>3, TransferAssumption
       DEF Pass, options, PhaseInv, TypeTransfer, FailuresLeft, RampBeforeMark,
           RampExcluded,
           StoppedForAReason, Still, FigureForWholeWindow, Finite, TransferAssumption
  <2>4. ASSUME NEW s \in Stream, Move(s) PROVE PhaseInv'
    BY <2>4, MoveKeeps
  <2>5. ASSUME NEW s \in Stream, Complete(s) \/ Fail(s) \/ Wake(s) PROVE PhaseInv'
    BY <2>5, StreamKeeps
  <2>6. CASE UNCHANGED tvars
    BY <2>6 DEF tvars, options, PhaseInv, TypeTransfer, FailuresLeft, RampBeforeMark,
                RampExcluded,
                StoppedForAReason, Still, FigureForWholeWindow, Finite, Over
  <2> QED
    BY <2>1, <2>2, <2>3, <2>4, <2>5, <2>6 DEF NextTransfer
<1> QED
  BY PhaseInit, <1>1, PTL DEF SpecTransfer

(***************************************************************************)
(* Every reachable state of a phase is well typed: a stream has at most    *)
(* three failures in a row, and the mark lies within what was moved.       *)
(***************************************************************************)
THEOREM PhaseTypeCorrect ==
    SpecTransfer => []TypeTransfer
<1>1. PhaseInv => TypeTransfer
  BY DEF PhaseInv
<1> QED
  BY PhaseInvariant, <1>1, PTL

(***************************************************************************)
(* Whatever the order of failures, aborts and the clock, a figure stands   *)
(* for a whole window (transfer-phase.ts:147-151).                         *)
(***************************************************************************)
THEOREM FiguresAreWhole ==
    SpecTransfer => []FigureForWholeWindow
<1>1. PhaseInv => FigureForWholeWindow
  BY DEF PhaseInv
<1> QED
  BY PhaseInvariant, <1>1, PTL

(***************************************************************************)
(* And its bytes are none of the ramp's, even where the window is shorter  *)
(* than the grace period (transfer-phase.ts:95-104).                       *)
(***************************************************************************)
THEOREM FiguresExcludeRamp ==
    SpecTransfer => []RampExcluded
<1>1. PhaseInv => RampExcluded
  BY DEF PhaseInv
<1> QED
  BY PhaseInvariant, <1>1, PTL

(***************************************************************************)
(* After the end of the window or the caller's abort, no stream makes      *)
(* another request and a figure once taken stays (transfer-phase.ts:160).  *)
(***************************************************************************)
THEOREM EndIsFinal ==
    SpecTransfer => NothingAfterTheEnd
<1> DEFINE Step == /\ control => \A s \in Stream :
                                    streams'[s].at = "request" => streams[s].at = "request"
                   /\ captured # None => captured' = captured
<1>1. PhaseInv /\ [NextTransfer]_tvars => [Step]_tvars
  <2> SUFFICES ASSUME PhaseInv, [NextTransfer]_tvars PROVE Step
    OBVIOUS
  <2>1. ASSUME NEW s \in Stream,
               NEW at \in {"request", "backoff", "returned", "rejected"}, NEW f, NEW m,
               control => at # "request", Becomes(s, at, f, m)
        PROVE  Step
    BY <2>1 DEF Becomes, SettleAll, Capture, PhaseInv, TypeTransfer
  <2>2. ASSUME NEW s \in Stream, Complete(s) \/ Fail(s) \/ Wake(s) PROVE Step
    <3>1. control => Onward = "returned"
      BY DEF Onward
    <3>2. Onward \in {"request", "returned"}
      BY DEF Onward
    <3>3. CASE Complete(s)
      BY <2>1, <3>1, <3>2, <3>3 DEF Complete
    <3>4. CASE Fail(s) /\ control
      <4>1. Becomes(s, "returned", streams[s].failures, meter)
        BY <3>4 DEF Fail
      <4> QED
        BY <2>1, <4>1
    <3>5. CASE Fail(s) /\ ~control
      BY <3>5 DEF Fail, Becomes, SettleAll, Capture
    <3>6. CASE Wake(s)
      BY <2>1, <3>1, <3>2, <3>6 DEF Wake
    <3> QED
      BY <2>2, <3>3, <3>4, <3>5, <3>6
  <2>3. CASE Ticker
    BY <2>3 DEF Ticker, Capture
  <2>4. CASE CallerAborts \/ Pass \/ (\E s \in Stream : Move(s)) \/ UNCHANGED tvars
    BY <2>4 DEF CallerAborts, Pass, Move, tvars
  <2> QED
    BY <2>2, <2>3, <2>4 DEF NextTransfer
<1> QED
  BY PhaseInvariant, <1>1, PTL DEF SpecTransfer, NothingAfterTheEnd

-----------------------------------------------------------------------------
(* What Monitor relies on in the phase of a leg.                           *)

\* The controller of the leg whose phase this is, as Monitor has it.
Controller ==
    IF outcome # "running" THEN "none" ELSE IF signal THEN "aborted" ELSE "live"

\* A step of a leg as Monitor has it: Report, AbortLeg, LegEnds or LegFails.
LegStep ==
    \/ Controller # "none" /\ Controller' = Controller
    \/ Controller = "live" /\ Controller' = "aborted" /\ UNCHANGED meter
    \/ Controller = "aborted" /\ Controller' = "none" /\ outcome' = "result"
    \/ Controller = "live" /\ Controller' = "none" /\ outcome' = "failed"

(***************************************************************************)
(* A phase without a window is the leg that Monitor makes of it: it ends   *)
(* well only after an abort and badly only without one, so that LegEnds    *)
(* and LegFails are all the ends there are, and it does nothing once it    *)
(* has ended (monitor.ts:133-155, transfer-phase.ts:135-153).              *)
(***************************************************************************)
THEOREM PhaseIsALeg == SpecTransfer => [][~Finite => LegStep]_tvars
<1> DEFINE Legs == ~Finite => LegStep
<1>1. PhaseInv /\ [NextTransfer]_tvars => [Legs]_tvars
  <2> SUFFICES ASSUME PhaseInv, NextTransfer, ~Finite PROVE LegStep
    BY DEF Legs
  <2>1. outcome = "running"
    BY DEF PhaseInv, Still, NextTransfer, Ticker, CallerAborts, Pass, Move, Complete, Fail, Wake, Over
  <2>2. CASE Ticker \/ CallerAborts \/ Pass \/ \E s \in Stream : Move(s)
    BY <2>1, <2>2 DEF Ticker, CallerAborts, Pass, Move, LegStep, Controller
  <2>3. ASSUME NEW s \in Stream, Complete(s) \/ Fail(s) \/ Wake(s) PROVE LegStep
    <3>1. signal' = signal /\ outcome' \in {"running", "failed", "result", "aborted"}
      BY <2>1, <2>3 DEF Complete, Fail, Wake, Becomes, SettleAll, Ending
    <3>2. PhaseInv' /\ ~Finite'
      BY <2>3, StreamKeeps DEF Complete, Fail, Wake, Becomes, options, Finite
    <3>3. outcome' = "failed" => ~signal
      BY <2>1, <2>3 DEF Complete, Fail, Wake, Becomes, SettleAll, Ending
    <3>4. (outcome' = "result" => signal') /\ outcome' # "aborted"
      BY <3>2 DEF PhaseInv, FigureForWholeWindow, Finite
    <3> QED
      BY <2>1, <3>1, <3>3, <3>4 DEF LegStep, Controller
  <2> QED
    BY <2>2, <2>3 DEF NextTransfer
<1> QED
  BY PhaseInvariant, <1>1, PTL DEF SpecTransfer
=============================================================================
