----------------------------- MODULE PlotProofs -----------------------------
(***************************************************************************)
(* Proofs about Plot for any resolution, capacity and spans, any number of *)
(* tests and gestures, and snapshots and samples at any time.              *)
(***************************************************************************)
EXTENDS Plot, FiniteSetTheorems, TLAPS

Point == [t : Nat, on : SUBSET Direction]

History == [points : Seq(Point), updated : Nat, whole : BOOLEAN,
            running : BOOLEAN, base : Nat, started : Nat]

Seen == Underway \cup {"aborted", "error"}

Recording == [points : Seq(Point), updated : Nat, whole : BOOLEAN,
              line : Nat, at : Nat \cup {None}, seen : Seen]

Typed ==
    /\ now \in Nat
    /\ session \in History /\ Len(session.points) <= Capacity
    /\ recording \in Recording /\ Len(recording.points) <= Capacity
    /\ phase \in {"none"} \cup Underway
    /\ directions \subseteq Direction

(***************************************************************************)
(* The inductive invariant.  Alone: one test at a time, as far as the      *)
(* panel sees.  Clocked: no series was updated in the future, and which    *)
(* one was updated later is which one gained the last point.  Spaced: a    *)
(* running test's clock is at or past the last point of its series.        *)
(* Floors: a leg's last sample belongs to the phase that runs.             *)
(***************************************************************************)
Alone == ~(session.running /\ phase # "none")

Clocked ==
    /\ session.updated <= now /\ recording.updated <= now
    /\ phase # "none" => session.updated < now
    /\ session.points # <<>> /\ recording.points # <<>> =>
          (latest = "recording" <=> session.updated < recording.updated)
    /\ latest \in {"session", "recording"}

Spaced ==
    /\ session.running =>
          session.started <= now /\ Last(session) <= session.base + (now - session.started)
    /\ phase # "none" /\ recording.at # None =>
          /\ recording.points # <<>>
          /\ session.updated < recording.updated
          /\ recording.at = recording.updated
          /\ recording.line = Last(recording)

Leg(p) == CASE p = "download" -> {"down"} [] p = "upload" -> {"up"} [] OTHER -> {}

Floors ==
    /\ phase # "none" => recording.seen = phase
    /\ recording.whole =>
          /\ LegsApart
          /\ recording.points # <<>> =>
                recording.points[Len(recording.points)].on \in {{}, Leg(phase)}

Inv == Typed /\ Alone /\ PictureIsCurrent /\ Clocked /\ Spaced /\ Floors

-----------------------------------------------------------------------------
(* Series.                                                                 *)

\* A full series has an odd number of points when it is merged, so its last
\* point is carried over.
LEMMA PointAdded ==
  ASSUME NEW points \in Seq(Point), Len(points) <= Capacity, NEW point \in Point
  PROVE  LET longer == Append(points, point)
             kept   == IF Len(longer) > Capacity THEN Merged(longer) ELSE longer
         IN  /\ kept \in Seq(Point)
             /\ Len(kept) <= Capacity
             /\ kept # <<>>
             /\ kept[Len(kept)].t = point.t
<1> DEFINE longer == Append(points, point)
           n == Len(longer)
           m == (n + 1) \div 2
<1>1. /\ longer \in Seq(Point) /\ n \in Nat /\ n = Len(points) + 1 /\ n > 0
      /\ longer[n] = point /\ \A i \in 1..n : longer[i] \in Point
  OBVIOUS
<1>2. CASE n <= Capacity
  BY <1>1, <1>2, PlotAssumption
<1>3. CASE n > Capacity
  <2>1. Capacity \in Nat /\ Capacity >= 4 /\ Capacity % 2 = 0 /\ n = Capacity + 1
    BY <1>1, <1>3, PlotAssumption
  <2>2. m \in 1..Capacity /\ 2 * m - 1 = n /\ 2 * m > n
    BY <2>1
  <2> HIDE DEF n, longer
  <2>3. Merged(longer) = [i \in 1..m |->
          IF 2 * i > n THEN longer[2 * i - 1]
          ELSE [t |-> longer[2 * i - 1].t, on |-> longer[2 * i - 1].on \cup longer[2 * i].on]]
    BY DEF Merged, n
  <2> HIDE DEF m
  <2>4. ASSUME NEW i \in 1..m PROVE Merged(longer)[i] \in Point
    <3>1. 2 * i - 1 \in 1..n /\ (~(2 * i > n) => 2 * i \in 1..n)
      BY <2>1, <2>2
    <3>2. longer[2 * i - 1] \in Point /\ (~(2 * i > n) => longer[2 * i] \in Point)
      BY <1>1, <3>1
    <3>. QED
      BY <2>3, <3>2 DEF Point
  <2>5. Merged(longer) \in [1..m -> Point]
    BY <2>3, <2>4
  <2>6. Merged(longer) \in Seq(Point) /\ Len(Merged(longer)) = m
    BY <2>2, <2>5
  <2>7. Merged(longer)[m] = longer[n]
    BY <2>2, <2>3
  <2>8. Merged(longer) # <<>>
    BY <2>2, <2>6
  <2>. QED
    BY <1>1, <1>3, <2>2, <2>6, <2>7, <2>8 DEF n, longer
<1>. QED
  BY <1>1, <1>2, <1>3, PlotAssumption

LEMMA AddSession ==
  ASSUME Typed, NEW t \in Nat, NEW on \in SUBSET Direction
  PROVE  LET s == Add(session, t, on) IN
         /\ s \in History /\ Len(s.points) <= Capacity
         /\ s.points # <<>> /\ Last(s) = t /\ s.updated = now
         /\ s.running = session.running /\ s.base = session.base /\ s.started = session.started
<1> DEFINE point == [t |-> t, on |-> on]
           longer == Append(session.points, point)
           kept == IF Len(longer) > Capacity THEN Merged(longer) ELSE longer
           w == session.whole /\ ~(Len(longer) > Capacity)
<1>1. point \in Point /\ point.t = t
  BY DEF Point
<1>2. session.points \in Seq(Point) /\ Len(session.points) <= Capacity
  BY DEF Typed, History
<1>3. /\ kept \in Seq(Point) /\ Len(kept) <= Capacity /\ kept # <<>>
      /\ kept[Len(kept)].t = t
  <2> HIDE DEF point
  <2>. QED
    BY <1>1, <1>2, PointAdded
<1>4. Add(session, t, on) = [session EXCEPT !.points = kept, !.updated = now, !.whole = w]
  BY DEF Add, Typed, History
<1>5. w \in BOOLEAN
  OBVIOUS
<1> HIDE DEF kept, w
<1>. QED
  BY <1>3, <1>4, <1>5 DEF Typed, History, Last

LEMMA AddRecording ==
  ASSUME NEW r \in Recording, Len(r.points) <= Capacity, now \in Nat, NEW t \in Nat, NEW on \in SUBSET Direction
  PROVE  LET a == Add(r, t, on) IN
         /\ a \in Recording /\ Len(a.points) <= Capacity
         /\ a.points # <<>> /\ Last(a) = t /\ a.updated = now
         /\ a.line = r.line /\ a.at = r.at /\ a.seen = r.seen
         /\ a.whole => r.whole /\ a.points = Append(r.points, [t |-> t, on |-> on])
<1> DEFINE point == [t |-> t, on |-> on]
           longer == Append(r.points, point)
           kept == IF Len(longer) > Capacity THEN Merged(longer) ELSE longer
           w == r.whole /\ ~(Len(longer) > Capacity)
<1>1. point \in Point /\ point.t = t
  BY DEF Point
<1>2. r.points \in Seq(Point)
  BY DEF Recording
<1>3. /\ kept \in Seq(Point) /\ Len(kept) <= Capacity /\ kept # <<>>
      /\ kept[Len(kept)].t = t
  <2> HIDE DEF point
  <2>. QED
    BY <1>1, <1>2, PointAdded
<1>4. Add(r, t, on) = [r EXCEPT !.points = kept, !.updated = now, !.whole = w]
  BY DEF Add, Recording
<1>5. w \in BOOLEAN /\ (w => r.whole /\ kept = longer)
  OBVIOUS
<1> HIDE DEF kept, w
<1>. QED
  BY <1>3, <1>4, <1>5 DEF Recording, Last

\* A snapshot is thrown away, or it is the series' last point.
LEMMA Recorded ==
  ASSUME Inv, phase # "none", NEW p \in Seen, NEW flows
  PROVE  LET r == Record(p, flows) IN
         /\ r \in Recording /\ Len(r.points) <= Capacity
         /\ \/ r = recording /\ p = recording.seen /\ recording.at # None
            \/ /\ r.points # <<>> /\ r.updated = now /\ r.at = now /\ r.seen = p /\ r.line = Last(r)
               /\ r.line = recording.line + (IF recording.at = None THEN 0 ELSE now - recording.at)
               /\ r.whole => /\ recording.whole
                             /\ r.points = Append(recording.points, [t |-> r.line, on |-> Carrying(p, flows)])
<1>0. recording \in Recording /\ Len(recording.points) <= Capacity /\ now \in Nat
  BY DEF Inv, Typed
<1>1. CASE p = recording.seen /\ recording.at # None /\ now - recording.at < Every
  BY <1>0, <1>1 DEF Record
<1>2. CASE ~(p = recording.seen /\ recording.at # None /\ now - recording.at < Every)
  <2> DEFINE line == recording.line + (IF recording.at = None THEN 0 ELSE now - recording.at)
             a == Add(recording, line, Carrying(p, flows))
  <2>1. line \in Nat
    BY <1>0 DEF Inv, Spaced, Clocked, Recording
  <2>2. Carrying(p, flows) \in SUBSET Direction
    BY DEF Carrying, Direction
  <2>3. Record(p, flows) = [a EXCEPT !.line = line, !.at = now, !.seen = p]
    BY <1>2 DEF Record
  <2> HIDE DEF line
  <2>4. /\ a \in Recording /\ Len(a.points) <= Capacity
        /\ a.points # <<>> /\ Last(a) = line /\ a.updated = now
        /\ a.whole => recording.whole /\ a.points = Append(recording.points, [t |-> line, on |-> Carrying(p, flows)])
    BY <1>0, <2>1, <2>2, AddRecording
  <2> HIDE DEF a
  <2>. QED
    BY <1>0, <2>1, <2>3, <2>4 DEF Recording, Last, line
<1>. QED
  BY <1>1, <1>2

LEMMA FlooredSeries ==
  ASSUME NEW r \in Recording, Len(r.points) <= Capacity, now \in Nat
  PROVE  LET f == Floored(r) IN
         /\ f \in Recording /\ Len(f.points) <= Capacity
         /\ f.points # <<>> /\ f.updated = now
         /\ f.whole => r.whole /\ f.points = Append(r.points, [t |-> r.line + Every, on |-> {}])
<1> DEFINE line == r.line + Every
           a == Add(r, line, {})
<1>1. line \in Nat
  BY PlotAssumption DEF Recording
<1>2. Floored(r) = [a EXCEPT !.line = line]
  BY DEF Floored
<1> HIDE DEF line
<1>3. /\ a \in Recording /\ Len(a.points) <= Capacity
      /\ a.points # <<>> /\ a.updated = now
      /\ a.whole => r.whole /\ a.points = Append(r.points, [t |-> line, on |-> {}])
  <2>1. {} \in SUBSET Direction
    OBVIOUS
  <2>. QED
    BY <1>1, <2>1, AddRecording
<1> HIDE DEF a
<1> DEFINE f == [a EXCEPT !.line = line]
<1>4. /\ f \in Recording /\ f.points = a.points /\ f.updated = a.updated /\ f.whole = a.whole
  BY <1>1, <1>3 DEF Recording
<1> HIDE DEF f
<1>5. /\ f \in Recording /\ Len(f.points) <= Capacity
      /\ f.points # <<>> /\ f.updated = now
      /\ f.whole => r.whole /\ f.points = Append(r.points, [t |-> line, on |-> {}])
  BY <1>3, <1>4
<1>. QED
  BY <1>2, <1>5 DEF f, line

-----------------------------------------------------------------------------
(* The steps, by what they leave of the two series.                        *)

Gestures ==
    \/ \E d \in Direction : Flip(d)
    \/ \E span \in MinSpan..2 * MaxSpan, halves \in 0..2 : Zoom(span, halves)
    \/ \E delta \in {-1, 1} : Pan(delta)
    \/ SetFocus
    \/ Reset

\* A gesture touches only the switches and the view, and redraws.
LEMMA GestureSteps ==
  ASSUME Typed, Gestures
  PROVE  /\ UNCHANGED <<now, session, recording, phase, frame, latest, tests>>
         /\ directions' \subseteq Direction
         /\ Refresh
BY DEF Gestures, Flip, Zoom, Pan, SetFocus, Reset, Gesture, Typed

\* What a started session keeps of its monitor's history.
LEMMA SessionStarted ==
  ASSUME Typed, NEW elsewhere \in BOOLEAN, StartSession(elsewhere)
  PROVE  /\ session' \in History /\ Len(session'.points) <= Capacity
         /\ session'.running /\ session'.started = now /\ Last(session') <= session'.base
         /\ \/ session'.points = session.points /\ session'.updated = session.updated
            \/ session'.points = <<>> /\ session'.updated = 0
<1> DEFINE kept == IF elsewhere THEN [session EXCEPT !.points = <<>>, !.updated = 0, !.whole = TRUE]
                   ELSE session
           base == IF kept.points = <<>> THEN 0 ELSE Last(kept) + SessionEvery
<1>1. session' = [kept EXCEPT !.running = TRUE, !.started = now, !.base = base]
  BY DEF StartSession
<1>2. /\ kept \in History /\ Len(kept.points) <= Capacity
      /\ \/ kept.points = session.points /\ kept.updated = session.updated
         \/ kept.points = <<>> /\ kept.updated = 0
  <2>1. <<>> \in Seq(Point) /\ Len(<<>>) = 0
    OBVIOUS
  <2>2. CASE elsewhere
    <3> DEFINE k == [session EXCEPT !.points = <<>>, !.updated = 0, !.whole = TRUE]
    <3>1. k \in History
      BY <2>1 DEF Typed, History
    <3>2. k.points = <<>> /\ k.updated = 0
      BY DEF Typed, History
    <3>. QED
      BY <2>1, <2>2, <3>1, <3>2, PlotAssumption
  <2>3. CASE ~elsewhere
    BY <2>3 DEF Typed
  <2>. QED
    BY <2>2, <2>3
<1> HIDE DEF kept
<1>3. Last(kept) \in Nat
  <2>1. CASE kept.points = <<>>
    BY <2>1 DEF Last
  <2>2. CASE kept.points # <<>>
    <3>1. kept.points[Len(kept.points)] \in Point
      BY <1>2, <2>2 DEF History
    <3>. QED
      BY <2>2, <3>1 DEF Last, Point
  <2>. QED
    BY <2>1, <2>2
<1>4. base \in Nat /\ Last(kept) <= base
  BY <1>3, PlotAssumption DEF Last
<1> HIDE DEF base
<1>5. session' \in History
  BY <1>1, <1>2, <1>4 DEF Typed, History
<1>6. /\ session'.points = kept.points /\ session'.updated = kept.updated /\ session'.base = base
      /\ session'.running = TRUE /\ session'.started = now
  BY <1>1, <1>2 DEF History
<1>. QED
  BY <1>2, <1>4, <1>5, <1>6 DEF Last

\* A sample of a running session lies at its clock.
LEMMA SessionSampled ==
  ASSUME Inv, session.running
  PROVE  LET t == session.base + (now - session.started) IN
         /\ Sampled \in History /\ Len(Sampled.points) <= Capacity
         /\ Sampled.points # <<>> /\ Last(Sampled) = t /\ Sampled.updated = now
         /\ Sampled.running /\ Sampled.base = session.base /\ Sampled.started = session.started
<1>1. session.base + (now - session.started) \in Nat /\ directions \in SUBSET Direction /\ Typed
  BY DEF Inv, Spaced, Typed, History
<1>. QED
  BY <1>1, AddSession DEF Sampled

\* The floor samples around a staged test.
LEMMA RecordingBegun ==
  ASSUME Typed
  PROVE  /\ BeginRecording \in Recording /\ Len(BeginRecording.points) <= Capacity
         /\ BeginRecording.at = None /\ BeginRecording.seen = "opening"
         /\ \/ /\ recording.points = <<>> /\ BeginRecording.points = <<>>
               /\ BeginRecording.updated = recording.updated
            \/ recording.points # <<>> /\ BeginRecording.points # <<>> /\ BeginRecording.updated = now
         /\ BeginRecording.whole =>
               /\ recording.whole
               /\ \/ BeginRecording.points = recording.points
                  \/ \E t \in Nat : BeginRecording.points = Append(recording.points, [t |-> t, on |-> {}])
<1>0. recording \in Recording /\ Len(recording.points) <= Capacity /\ now \in Nat
  BY DEF Typed
<1>1. CASE recording.points = <<>>
  <2>1. BeginRecording = [recording EXCEPT !.at = None, !.seen = "opening"]
    BY <1>1 DEF BeginRecording
  <2> DEFINE k == [recording EXCEPT !.at = None, !.seen = "opening"]
  <2>2. k \in Recording
    BY <1>0 DEF Recording, Seen, Underway
  <2>3. /\ k.points = recording.points /\ k.updated = recording.updated /\ k.whole = recording.whole
        /\ k.at = None /\ k.seen = "opening"
    BY <1>0 DEF Recording
  <2> HIDE DEF k
  <2>4. BeginRecording = k
    BY <2>1 DEF k
  <2>. QED
    BY <1>0, <1>1, <2>2, <2>3, <2>4
<1>2. CASE recording.points # <<>>
  <2> DEFINE f == Floored(recording)
  <2>1. BeginRecording = [f EXCEPT !.line = f.line + Every, !.at = None, !.seen = "opening"]
    BY <1>0, <1>2, FlooredSeries DEF BeginRecording, Recording
  <2>2. /\ f \in Recording /\ Len(f.points) <= Capacity
        /\ f.points # <<>> /\ f.updated = now
        /\ f.whole => recording.whole /\ f.points = Append(recording.points, [t |-> recording.line + Every, on |-> {}])
    BY <1>0, FlooredSeries
  <2>3. recording.line + Every \in Nat
    BY <1>0, PlotAssumption DEF Recording
  <2> HIDE DEF f
  <2>4. f.line + Every \in Nat
    BY <2>2, PlotAssumption DEF Recording
  <2>5. /\ BeginRecording \in Recording /\ BeginRecording.points = f.points
        /\ BeginRecording.updated = f.updated /\ BeginRecording.whole = f.whole
        /\ BeginRecording.at = None /\ BeginRecording.seen = "opening"
    <3> DEFINE line == f.line + Every
               k == [f EXCEPT !.line = line, !.at = None, !.seen = "opening"]
    <3>1. line \in Nat
      BY <2>4
    <3> HIDE DEF line
    <3>2. k \in Recording
      BY <2>2, <3>1 DEF Recording, Seen, Underway
    <3>3. /\ k.points = f.points /\ k.updated = f.updated /\ k.whole = f.whole
          /\ k.at = None /\ k.seen = "opening"
      BY <2>2 DEF Recording
    <3>4. BeginRecording = k
      BY <2>1 DEF line
    <3> HIDE DEF k
    <3>. QED
      BY <3>2, <3>3, <3>4
  <2>. QED
    BY <1>2, <2>2, <2>3, <2>5
<1>. QED
  BY <1>1, <1>2

LEMMA RecordingEnded ==
  ASSUME NEW r \in Recording, Len(r.points) <= Capacity, now \in Nat
  PROVE  LET e == EndRecording(r) IN
         /\ e \in Recording /\ Len(e.points) <= Capacity
         /\ \/ r.points = <<>> /\ e = r
            \/ r.points # <<>> /\ e.points # <<>> /\ e.updated = now
         /\ e.whole =>
               /\ r.whole
               /\ \/ e.points = r.points /\ e.points = <<>>
                  \/ \E t \in Nat : e.points = Append(r.points, [t |-> t, on |-> {}])
<1>1. CASE r.points = <<>>
  BY <1>1 DEF EndRecording
<1>2. CASE r.points # <<>>
  <2>1. r.line + Every \in Nat
    BY PlotAssumption DEF Recording
  <2>. QED
    BY <1>2, <2>1, FlooredSeries DEF EndRecording
<1>. QED
  BY <1>1, <1>2

-----------------------------------------------------------------------------
(* The invariant, step by step.                                            *)

LEMMA Redrawn ==
  ASSUME Refresh, frame' = Live'
  PROVE  PictureIsCurrent'
BY DEF Refresh, OnScreen, PictureIsCurrent

LEMMA FloorsStay ==
  ASSUME Floors, recording' = recording, phase' = phase
  PROVE  Floors'
BY DEF Floors, LegsApart, Leg

LEMMA TickKeeps == Inv /\ Tick => Inv'
<1> SUFFICES ASSUME Inv, Tick PROVE Inv'
  OBVIOUS
<1>1. /\ UNCHANGED <<session, recording, phase, directions, view, frame, picture, latest>>
      /\ now' = now + 1 /\ now \in Nat
  BY DEF Tick, Inv, Typed
<1>2. Typed' /\ Alone' /\ Floors'
  BY <1>1, FloorsStay DEF Inv, Typed, Alone
<1>3. PictureIsCurrent'
  <2>1. Live' = Live
    BY <1>1 DEF Live
  <2>2. ~Live => Drawn' = Drawn
    BY <1>1, <2>1 DEF Drawn, Shown, Source, Last, Window, Visible, Carrying
  <2>. QED
    BY <1>1, <2>1, <2>2 DEF Inv, PictureIsCurrent
<1>4. Clocked'
  BY <1>1 DEF Inv, Clocked, Typed, History, Recording
<1>5. Spaced'
  <2>1. Last(session)' = Last(session) /\ Last(recording)' = Last(recording)
    BY <1>1 DEF Last
  <2>2. session.running => Last(session) \in Nat
    <3>1. session.points # <<>> => session.points[Len(session.points)] \in Point
      BY DEF Inv, Typed, History
    <3>. QED
      BY <3>1 DEF Last, Point
  <2>. QED
    BY <1>1, <2>1, <2>2 DEF Inv, Spaced, Typed, History
<1>. QED
  BY <1>2, <1>3, <1>4, <1>5 DEF Inv

LEMMA StartKeeps ==
  ASSUME Inv, NEW elsewhere \in BOOLEAN, StartSession(elsewhere)
  PROVE  Inv'
<1>1. /\ UNCHANGED <<now, recording, phase, directions, latest>>
      /\ frame' = TRUE /\ Refresh /\ phase = "none"
  BY DEF StartSession, Live
<1>2. /\ session' \in History /\ Len(session'.points) <= Capacity
      /\ session'.running /\ session'.started = now /\ Last(session') <= session'.base
      /\ \/ session'.points = session.points /\ session'.updated = session.updated
         \/ session'.points = <<>> /\ session'.updated = 0
  BY SessionStarted DEF Inv
<1>3. Typed' /\ Alone' /\ Floors'
  BY <1>1, <1>2, FloorsStay DEF Inv, Typed, Alone
<1>4. PictureIsCurrent'
  BY <1>1, <1>2, Redrawn DEF Live
<1>5. Clocked'
  BY <1>1, <1>2 DEF Inv, Clocked, Typed
<1>6. Spaced'
  BY <1>1, <1>2 DEF Inv, Spaced, Typed, History, Last
<1>. QED
  BY <1>3, <1>4, <1>5, <1>6 DEF Inv

\* What a session's sample leaves, whether or not it is the last one.
LEMMA SampleKeeps ==
  ASSUME Inv, session.running,
         session' = Sampled \/ session' = [Sampled EXCEPT !.running = FALSE],
         latest' = "session", UNCHANGED <<now, recording, phase, directions>>
  PROVE  Typed' /\ Alone' /\ Clocked' /\ Spaced' /\ Floors'
<1>1. phase = "none" /\ Typed
  BY DEF Inv, Alone
<1> DEFINE t == session.base + (now - session.started)
<1>2. /\ Sampled \in History /\ Len(Sampled.points) <= Capacity
      /\ Sampled.points # <<>> /\ Last(Sampled) = t /\ Sampled.updated = now
      /\ Sampled.running /\ Sampled.base = session.base /\ Sampled.started = session.started
  BY SessionSampled
<1>3. /\ session' \in History /\ Len(session'.points) <= Capacity
      /\ session'.points # <<>> /\ Last(session') = t /\ session'.updated = now
      /\ session'.base = session.base /\ session'.started = session.started
  <2>1. CASE session' = Sampled
    BY <1>2, <2>1
  <2>2. CASE session' = [Sampled EXCEPT !.running = FALSE]
    <3> DEFINE k == [Sampled EXCEPT !.running = FALSE]
    <3>1. k \in History
      BY <1>2 DEF History
    <3>2. /\ k.points = Sampled.points /\ k.updated = Sampled.updated
          /\ k.base = Sampled.base /\ k.started = Sampled.started
      BY <1>2 DEF History
    <3>. QED
      BY <1>2, <2>2, <3>1, <3>2 DEF Last
  <2>. QED
    BY <2>1, <2>2
<1>4. Typed' /\ Alone' /\ Floors'
  BY <1>1, <1>3, FloorsStay DEF Inv, Typed, Alone
<1>5. Clocked'
  BY <1>1, <1>3 DEF Inv, Clocked, Typed, Recording
<1>6. Spaced'
  <2>1. t \in Int /\ t <= t /\ session.started <= now
    BY <1>1 DEF Inv, Spaced, Typed, History
  <2>. QED
    BY <1>1, <1>3, <2>1 DEF Spaced
<1>. QED
  BY <1>4, <1>5, <1>6

LEMMA ClearKeeps == Inv /\ Clear => Inv'
<1> SUFFICES ASSUME Inv, Clear PROVE Inv'
  OBVIOUS
<1>1. /\ UNCHANGED <<now, recording, phase, directions, frame, latest>>
      /\ Refresh /\ ~session.running
      /\ session' = [session EXCEPT !.points = <<>>, !.updated = 0, !.whole = TRUE, !.base = 0]
  BY DEF Clear
<1>2. session' \in History /\ session'.points = <<>> /\ session'.updated = 0
      /\ session'.running = session.running
  <2>1. <<>> \in Seq(Point)
    OBVIOUS
  <2>. QED
    BY <1>1, <2>1 DEF Inv, Typed, History
<1>3. Typed' /\ Alone' /\ Floors'
  BY <1>1, <1>2, FloorsStay, PlotAssumption DEF Inv, Typed, Alone
<1>4. PictureIsCurrent'
  BY <1>1, <1>2, Redrawn DEF Inv, PictureIsCurrent, Live
<1>5. Clocked'
  BY <1>1, <1>2 DEF Inv, Clocked, Typed, History
<1>6. Spaced'
  BY <1>1, <1>2 DEF Inv, Spaced, Typed, History, Recording, Last
<1>. QED
  BY <1>3, <1>4, <1>5, <1>6 DEF Inv

LEMMA GestureKeeps == Inv /\ Gestures => Inv'
<1> SUFFICES ASSUME Inv, Gestures PROVE Inv'
  OBVIOUS
<1>1. /\ UNCHANGED <<now, session, recording, phase, frame, latest>>
      /\ directions' \subseteq Direction /\ Refresh
  BY GestureSteps DEF Inv
<1>2. Typed' /\ Alone' /\ Clocked' /\ Floors'
  BY <1>1, FloorsStay DEF Inv, Typed, Alone, Clocked
<1>3. Spaced'
  BY <1>1 DEF Inv, Spaced, Last
<1>4. PictureIsCurrent'
  BY <1>1, Redrawn DEF Inv, PictureIsCurrent, Live
<1>. QED
  BY <1>2, <1>3, <1>4 DEF Inv

\* A point that carries nothing, or what the series' last leg carries.
LEMMA PointsApart ==
  ASSUME NEW points \in Seq(Point), NEW p, NEW t, NEW on \in {{}, Leg(p)},
         \A i \in 1..Len(points) - 1 : Cardinality(points[i].on \cup points[i + 1].on) <= 1,
         points # <<>> => points[Len(points)].on \in {{}, Leg(p)}
  PROVE  LET longer == Append(points, [t |-> t, on |-> on]) IN
         /\ \A i \in 1..Len(longer) - 1 : Cardinality(longer[i].on \cup longer[i + 1].on) <= 1
         /\ longer[Len(longer)].on = on
<1> DEFINE longer == Append(points, [t |-> t, on |-> on])
           n == Len(points)
<1>1. /\ n \in Nat /\ Len(longer) = n + 1 /\ longer[n + 1].on = on
      /\ \A i \in 1..n : longer[i] = points[i]
      /\ points # <<>> <=> n > 0
  OBVIOUS
<1>2. ASSUME NEW set, set \in {{}, Leg(p)} PROVE Cardinality(set) <= 1
  <2>1. set = {} \/ set = {"down"} \/ set = {"up"}
    BY <1>2 DEF Leg
  <2>2. Cardinality({}) = 0 /\ Cardinality({"down"}) = 1 /\ Cardinality({"up"}) = 1
    BY FS_EmptySet, FS_Singleton
  <2>3. Cardinality(set) \in {0, 1}
    BY <2>1, <2>2, Zenon
  <2>. QED
    BY <2>3
<1>3. n > 0 => points[n].on \cup on \in {{}, Leg(p)}
  BY <1>1
<1>4. n > 0 => Cardinality(points[n].on \cup on) <= 1
  BY <1>2, <1>3
<1> HIDE DEF longer
<1>5. ASSUME NEW i \in 1..n PROVE Cardinality(longer[i].on \cup longer[i + 1].on) <= 1
  <2>1. CASE i < n
    <3>1. i \in 1..n - 1 /\ i + 1 \in 1..n
      BY <1>1, <2>1
    <3>. QED
      BY <1>1, <3>1
  <2>2. CASE i = n
    <3>1. longer[i] = points[n] /\ longer[i + 1].on = on /\ n > 0
      BY <1>1, <2>2
    <3>. QED
      BY <1>4, <3>1
  <2>. QED
    BY <1>1, <2>1, <2>2
<1>. QED
  BY <1>1, <1>5 DEF longer

\* The whole of Floors, where the series grows by such a point or not at all.
LEMMA FloorsGrow ==
  ASSUME Inv, recording' \in Recording, phase' # "none" => recording'.seen = phase',
         NEW t, NEW on \in {{}, Leg(phase)}, on = {} \/ phase' = phase,
         recording'.whole =>
            recording.whole /\ recording'.points = Append(recording.points, [t |-> t, on |-> on])
  PROVE  Floors'
<1> SUFFICES ASSUME recording'.whole
             PROVE  /\ LegsApart'
                    /\ recording'.points # <<>> =>
                          recording'.points[Len(recording'.points)].on \in {{}, Leg(phase')}
  BY DEF Floors, Leg
<1>1. recording.points \in Seq(Point)
  BY DEF Inv, Typed, Recording
<1>2. /\ \A i \in 1..Len(recording.points) - 1 :
            Cardinality(recording.points[i].on \cup recording.points[i + 1].on) <= 1
      /\ recording.points # <<>> => recording.points[Len(recording.points)].on \in {{}, Leg(phase)}
  BY DEF Inv, Floors, LegsApart
<1> DEFINE longer == Append(recording.points, [t |-> t, on |-> on])
<1>3. recording'.points = longer
  OBVIOUS
<1>4. /\ \A i \in 1..Len(longer) - 1 : Cardinality(longer[i].on \cup longer[i + 1].on) <= 1
      /\ longer[Len(longer)].on = on
  BY <1>1, <1>2, PointsApart
<1> HIDE DEF longer
<1>. QED
  BY <1>3, <1>4 DEF LegsApart, Leg

-----------------------------------------------------------------------------
LEMMA InitInv == Init => Inv
<1> SUFFICES ASSUME Init PROVE Inv
  OBVIOUS
<1>1. <<>> \in Seq(Point) /\ Len(<<>>) = 0
  OBVIOUS
<1>2. Typed
  BY <1>1, PlotAssumption DEF Init, Typed, History, Recording, Seen, Underway, Direction
<1>3. Alone /\ Spaced /\ Clocked
  BY DEF Init, Alone, Spaced, Clocked
<1>4. Floors
  BY <1>1 DEF Init, Floors, LegsApart
<1>5. PictureIsCurrent
  BY DEF Init, PictureIsCurrent, Live, OnScreen
<1>. QED
  BY <1>2, <1>3, <1>4, <1>5 DEF Inv

LEMMA BeginKeeps == Inv /\ BeginRun => Inv'
<1> SUFFICES ASSUME Inv, BeginRun PROVE Inv'
  OBVIOUS
<1>1. /\ UNCHANGED <<now, session, directions>> /\ Refresh /\ frame' = TRUE
      /\ phase = "none" /\ ~session.running /\ now > session.updated
      /\ phase' = "opening" /\ recording' = BeginRecording
      /\ latest' = IF recording.points = <<>> THEN latest ELSE "recording"
  BY DEF BeginRun, Live
<1>2. /\ recording' \in Recording /\ Len(recording'.points) <= Capacity
      /\ recording'.at = None /\ recording'.seen = "opening"
      /\ \/ recording.points = <<>> /\ recording'.points = <<>> /\ recording'.updated = recording.updated
         \/ recording.points # <<>> /\ recording'.points # <<>> /\ recording'.updated = now
      /\ recording'.whole =>
            /\ recording.whole
            /\ \/ recording'.points = recording.points
               \/ \E t \in Nat : recording'.points = Append(recording.points, [t |-> t, on |-> {}])
  BY <1>1, RecordingBegun DEF Inv
<1>3. Typed' /\ Alone'
  BY <1>1, <1>2 DEF Inv, Typed, Alone, Underway
<1>4. PictureIsCurrent'
  BY <1>1, Redrawn DEF Live
<1>5. Clocked'
  BY <1>1, <1>2 DEF Inv, Clocked, Typed, History
<1>6. Spaced'
  BY <1>1, <1>2 DEF Spaced
<1>7. Floors'
  <2>1. CASE recording'.whole /\ \E t \in Nat : recording'.points = Append(recording.points, [t |-> t, on |-> {}])
    <3>1. PICK t \in Nat : recording'.points = Append(recording.points, [t |-> t, on |-> {}])
      BY <2>1
    <3>. QED
      BY <1>1, <1>2, <3>1, FloorsGrow
  <2>2. CASE recording'.whole /\ recording'.points = recording.points
    BY <1>1, <1>2, <2>2 DEF Inv, Floors, LegsApart, Leg
  <2>3. CASE ~recording'.whole
    BY <1>1, <1>2, <2>3 DEF Floors
  <2>. QED
    BY <1>2, <2>1, <2>2, <2>3
<1>. QED
  BY <1>3, <1>4, <1>5, <1>6, <1>7 DEF Inv

LEMMA SnapshotKeeps ==
  ASSUME Inv, NEW p \in Underway, NEW flows \in BOOLEAN, Snapshot(p, flows)
  PROVE  Inv'
<1>1. /\ UNCHANGED <<now, session, directions, frame, picture>>
      /\ phase \in Underway /\ phase' = p /\ recording' = Record(p, flows)
      /\ flows => p = phase
      /\ latest' = IF recording' = recording THEN latest ELSE "recording"
  BY DEF Snapshot
<1>2. phase # "none" /\ p # "none" /\ p \in Seen /\ ~session.running
  BY <1>1 DEF Underway, Seen, Inv, Alone
<1>3. /\ recording' \in Recording /\ Len(recording'.points) <= Capacity
      /\ \/ recording' = recording /\ p = recording.seen /\ recording.at # None
         \/ /\ recording'.points # <<>> /\ recording'.updated = now /\ recording'.at = now
            /\ recording'.seen = p /\ recording'.line = Last(recording')
            /\ recording'.whole =>
                  /\ recording.whole
                  /\ recording'.points =
                        Append(recording.points, [t |-> recording'.line, on |-> Carrying(p, flows)])
  BY <1>1, <1>2, Recorded
<1>4. Typed' /\ Alone'
  BY <1>1, <1>2, <1>3 DEF Inv, Typed, Alone
<1>5. PictureIsCurrent'
  BY <1>1, <1>2 DEF Inv, PictureIsCurrent, Live
<1>6. recording.seen = phase /\ session.updated < now
  BY <1>2 DEF Inv, Floors, Clocked
<1>7. CASE recording' = recording /\ p = recording.seen /\ recording.at # None
  <2>1. phase' = phase
    BY <1>1, <1>6, <1>7
  <2>2. Floors' /\ Clocked'
    BY <1>1, <1>7, <2>1, FloorsStay DEF Inv, Clocked
  <2>3. Spaced'
    BY <1>1, <1>7, <2>1 DEF Inv, Spaced, Last
  <2>. QED
    BY <1>4, <1>5, <2>2, <2>3 DEF Inv
<1>8. CASE ~(recording' = recording /\ p = recording.seen /\ recording.at # None)
  <2>1. /\ recording'.points # <<>> /\ recording'.updated = now /\ recording'.at = now
        /\ recording'.seen = p /\ recording'.line = Last(recording')
        /\ recording'.whole =>
              /\ recording.whole
              /\ recording'.points =
                    Append(recording.points, [t |-> recording'.line, on |-> Carrying(p, flows)])
    BY <1>3, <1>8
  <2>2. Carrying(p, flows) \in {{}, Leg(phase)} /\ (Carrying(p, flows) = {} \/ phase' = phase)
    BY <1>1 DEF Carrying, Leg
  <2>3. Floors'
    BY <1>1, <1>3, <2>1, <2>2, FloorsGrow
  <2>4. now \in Nat /\ now <= now /\ session.updated \in Nat
    BY DEF Inv, Typed, History
  <2>5. Clocked'
    <3>1. latest' \in {"session", "recording"}
      BY <1>1 DEF Inv, Clocked
    <3>2. session'.points # <<>> => latest' = "recording"
      <4>1. CASE recording' = recording
        BY <1>1, <1>6, <2>1, <2>4, <4>1 DEF Inv, Clocked
      <4>. QED
        BY <1>1, <4>1
    <3>. QED
      BY <1>1, <1>6, <2>1, <2>4, <3>1, <3>2 DEF Inv, Clocked
  <2>6. Spaced'
    BY <1>1, <1>2, <1>6, <2>1, <2>4 DEF Spaced, Last
  <2>. QED
    BY <1>4, <1>5, <2>3, <2>5, <2>6 DEF Inv
<1>. QED
  BY <1>7, <1>8

LEMMA EndKeeps == Inv /\ EndRun => Inv'
<1> SUFFICES ASSUME Inv, EndRun PROVE Inv'
  OBVIOUS
<1>1. /\ UNCHANGED <<now, session, directions>> /\ Refresh /\ frame' = FALSE
      /\ phase \in Underway /\ phase' = "none" /\ latest' = "recording"
      /\ \/ recording' = EndRecording(recording)
         \/ \E end \in {"aborted", "error"} : recording' = EndRecording(Record(end, FALSE))
  BY DEF EndRun
<1>2. phase # "none" /\ ~session.running /\ session.updated < now /\ session.updated \in Nat /\ now \in Nat
  BY <1>1 DEF Underway, Inv, Alone, Clocked, Typed, History
<1>3. PICK r \in {recording} \cup {Record(end, FALSE) : end \in {"aborted", "error"}} :
         recording' = EndRecording(r)
  BY <1>1
\* The series before its floor sample.
<1>4. /\ r \in Recording /\ Len(r.points) <= Capacity /\ r.updated <= now
      /\ r.whole =>
            /\ recording.whole
            /\ \/ r.points = recording.points
               \/ \E t \in Nat : r.points = Append(recording.points, [t |-> t, on |-> {}])
  <2>1. CASE r = recording
    BY <2>1 DEF Inv, Typed, Clocked
  <2>2. ASSUME NEW end \in {"aborted", "error"}, r = Record(end, FALSE)
        PROVE  /\ r \in Recording /\ Len(r.points) <= Capacity /\ r.updated <= now
               /\ r.whole =>
                     /\ recording.whole
                     /\ \/ r.points = recording.points
                        \/ \E t \in Nat : r.points = Append(recording.points, [t |-> t, on |-> {}])
    <3>1. end \in Seen /\ Carrying(end, FALSE) = {}
      BY DEF Seen, Carrying
    <3> DEFINE k == Record(end, FALSE)
    <3>2. /\ k \in Recording /\ Len(k.points) <= Capacity
          /\ \/ k = recording
             \/ /\ k.updated = now
                /\ k.whole =>
                      /\ recording.whole
                      /\ k.points =
                            Append(recording.points, [t |-> k.line, on |-> Carrying(end, FALSE)])
      <4>1. /\ k \in Recording /\ Len(k.points) <= Capacity
            /\ \/ k = recording /\ end = recording.seen /\ recording.at # None
               \/ /\ k.points # <<>> /\ k.updated = now /\ k.at = now /\ k.seen = end /\ k.line = Last(k)
                  /\ k.line = recording.line + (IF recording.at = None THEN 0 ELSE now - recording.at)
                  /\ k.whole => /\ recording.whole
                                /\ k.points = Append(recording.points, [t |-> k.line, on |-> Carrying(end, FALSE)])
        BY <1>2, <3>1, Recorded, Zenon
      <4> HIDE DEF k
      <4>. QED
        BY <4>1
    <3>3. r = k
      BY <2>2
    <3> HIDE DEF k
    <3>4. k.line \in Nat
      BY <3>2 DEF Recording
    <3>5. k.updated <= now
      BY <1>2, <3>2 DEF Inv, Clocked
    <3>. QED
      BY <3>1, <3>2, <3>3, <3>4, <3>5
  <2>. QED
    BY <2>1, <2>2
<1>5. /\ recording' \in Recording /\ Len(recording'.points) <= Capacity
      /\ \/ r.points = <<>> /\ recording' = r
         \/ r.points # <<>> /\ recording'.points # <<>> /\ recording'.updated = now
      /\ recording'.whole =>
            /\ r.whole
            /\ \/ recording'.points = r.points /\ recording'.points = <<>>
               \/ \E t \in Nat : recording'.points = Append(r.points, [t |-> t, on |-> {}])
  BY <1>2, <1>3, <1>4, RecordingEnded
<1>6. Typed' /\ Alone'
  BY <1>1, <1>2, <1>5 DEF Inv, Typed, Alone
<1>7. PictureIsCurrent'
  BY <1>1, <1>2, Redrawn DEF Live
<1>8. Clocked'
  BY <1>1, <1>2, <1>4, <1>5 DEF Clocked
<1>9. Spaced'
  BY <1>1, <1>2 DEF Spaced
<1>10. Floors'
  <2>1. SUFFICES ASSUME recording'.whole
                 PROVE  /\ LegsApart'
                        /\ recording'.points # <<>> =>
                              recording'.points[Len(recording'.points)].on = {}
    BY <1>1 DEF Floors
  <2> DEFINE Apart(points) ==
                \A i \in 1..Len(points) - 1 : Cardinality(points[i].on \cup points[i + 1].on) <= 1
             Ends(points) == points # <<>> => points[Len(points)].on \in {{}, Leg(phase)}
  <2>2. /\ recording.points \in Seq(Point) /\ r.points \in Seq(Point)
        /\ Apart(recording.points) /\ Ends(recording.points)
    BY <1>4, <1>5, <2>1 DEF Inv, Typed, Recording, Floors, LegsApart
  <2>3. Apart(r.points) /\ Ends(r.points)
    <3>1. CASE r.points = recording.points
      BY <2>2, <3>1
    <3>2. ASSUME NEW t \in Nat, r.points = Append(recording.points, [t |-> t, on |-> {}])
          PROVE  Apart(r.points) /\ Ends(r.points)
      BY <2>2, <3>2, PointsApart
    <3>. QED
      BY <1>4, <1>5, <2>1, <3>1, <3>2
  <2>4. CASE recording'.points = <<>>
    BY <2>4 DEF LegsApart
  <2>5. ASSUME NEW t \in Nat, recording'.points = Append(r.points, [t |-> t, on |-> {}])
        PROVE  Apart(recording'.points) /\ recording'.points[Len(recording'.points)].on = {}
    BY <2>2, <2>3, <2>5, PointsApart
  <2>. QED
    BY <1>5, <2>1, <2>4, <2>5 DEF LegsApart
<1>. QED
  BY <1>6, <1>7, <1>8, <1>9, <1>10 DEF Inv

LEMMA StepInv == Inv /\ [Next]_vars => Inv'
<1> SUFFICES ASSUME Inv, [Next]_vars PROVE Inv'
  OBVIOUS
<1>1. CASE Tick
  BY <1>1, TickKeeps
<1>2. ASSUME NEW elsewhere \in BOOLEAN, StartSession(elsewhere) PROVE Inv'
  BY <1>2, StartKeeps
<1>3. CASE Sample
  <2>1. Typed' /\ Alone' /\ Clocked' /\ Spaced' /\ Floors'
    BY <1>3, SampleKeeps DEF Sample
  <2>2. Sampled.running
    BY <1>3, SessionSampled DEF Sample
  <2>3. PictureIsCurrent'
    BY <1>3, <2>2 DEF Sample, Inv, PictureIsCurrent, Live
  <2>. QED
    BY <2>1, <2>3 DEF Inv
<1>4. CASE EndSession
  <2>1. Typed' /\ Alone' /\ Clocked' /\ Spaced' /\ Floors'
    BY <1>4, SampleKeeps DEF EndSession
  <2>2. ~session'.running /\ phase' = "none"
    BY <1>4, SessionSampled DEF EndSession, History, Inv, Alone
  <2>3. PictureIsCurrent'
    BY <1>4, <2>2, Redrawn DEF EndSession, Live
  <2>. QED
    BY <2>1, <2>3 DEF Inv
<1>5. CASE Clear
  BY <1>5, ClearKeeps
<1>6. CASE BeginRun
  BY <1>6, BeginKeeps
<1>7. ASSUME NEW p \in Underway, NEW flows \in BOOLEAN, Snapshot(p, flows) PROVE Inv'
  BY <1>7, SnapshotKeeps
<1>8. CASE EndRun
  BY <1>8, EndKeeps
<1>9. CASE Gestures
  BY <1>9, GestureKeeps
<1>10. CASE UNCHANGED vars
  <2>1. Typed' /\ Alone' /\ Clocked' /\ Floors'
    BY <1>10, FloorsStay DEF vars, Inv, Typed, Alone, Clocked
  <2>2. Spaced'
    BY <1>10 DEF vars, Inv, Spaced, Last
  <2>3. PictureIsCurrent'
    <3>1. Live' = Live
      BY <1>10 DEF vars, Live
    <3>2. ~Live => Drawn' = Drawn
      BY <1>10, <3>1 DEF vars, Drawn, Shown, Source, Last, Window, Visible, Carrying
    <3>. QED
      BY <1>10, <3>1, <3>2 DEF vars, Inv, PictureIsCurrent
  <2>. QED
    BY <2>1, <2>2, <2>3 DEF Inv
<1>. QED
  BY <1>1, <1>2, <1>3, <1>4, <1>5, <1>6, <1>7, <1>8, <1>9, <1>10 DEF Next, Gestures

LEMMA Invariant == Spec => []Inv
<1>. QED
  BY InitInv, StepInv, PTL DEF Spec

\* The frame loop runs with a test and only with one, and what is left on
\* screen after it, or after a gesture, is the graph of the state as it is.
THEOREM ScreenIsCurrent == Spec => []PictureIsCurrent
<1>1. Inv => PictureIsCurrent
  BY DEF Inv
<1>. QED
  BY <1>1, Invariant, PTL

\* The panel compares two times of last change; they tell which of the two
\* series was measured last, whatever order tests, snapshots and Clear came in.
THEOREM LatestSeriesIsShown == Spec => []LatestIsShown
<1>1. Inv => LatestIsShown
  <2> SUFFICES ASSUME Inv PROVE LatestIsShown
    OBVIOUS
  <2>1. /\ session.points # <<>> /\ recording.points # <<>> =>
              (latest = "recording" <=> session.updated < recording.updated)
        /\ latest \in {"session", "recording"}
        /\ session.updated \in Nat /\ recording.updated \in Nat
    BY DEF Inv, Clocked, Typed, History, Recording
  <2>. QED
    BY <2>1 DEF LatestIsShown, Source
<1>. QED
  BY <1>1, Invariant, PTL

\* Until points are merged, a floor sample stands between any two legs.
THEOREM LegsStandApart == Spec => []LegsApart
<1>1. Inv => LegsApart
  BY DEF Inv, Floors, LegsApart
<1>. QED
  BY <1>1, Invariant, PTL

-----------------------------------------------------------------------------
(* The right edge, by the clock of whichever test runs.                    *)

LEMMA SessionClock == Inv /\ session.running => Elapsed = session.base + (now - session.started)
<1> SUFFICES ASSUME Inv, session.running
             PROVE  Elapsed = session.base + (now - session.started)
  OBVIOUS
<1>1. /\ now \in Nat /\ session.base \in Nat /\ session.started \in Nat
      /\ Last(session) <= session.base + (now - session.started)
  BY DEF Inv, Typed, History, Spaced
<1>2. Last(session) \in Nat
  <2>1. session.points # <<>> => session.points[Len(session.points)] \in Point
    BY DEF Inv, Typed, History
  <2>. QED
    BY <2>1 DEF Last, Point
<1>. QED
  BY <1>1, <1>2 DEF Elapsed, SessionTime, Larger

LEMMA TestClock ==
  Inv /\ phase # "none" /\ recording.at # None => Elapsed = recording.line + (now - recording.at)
<1> SUFFICES ASSUME Inv, phase # "none", recording.at # None
             PROVE  Elapsed = recording.line + (now - recording.at)
  OBVIOUS
<1>1. /\ ~session.running /\ recording.points # <<>> /\ session.updated < recording.updated
      /\ recording.at = recording.updated /\ recording.line = Last(recording)
  BY DEF Inv, Alone, Spaced
<1>2. Shown = recording
  BY <1>1 DEF Shown, Source
<1>. QED
  BY <1>1, <1>2 DEF Elapsed

\* A running session's clock is set when it starts and never after.
LEMMA SessionClockStays ==
  ASSUME Inv, [Next]_vars, session.running, session'.running
  PROVE  session'.base = session.base /\ session'.started = session.started /\ now' >= now
<1>0. phase = "none" /\ now \in Nat /\ now <= now
  BY DEF Inv, Alone, Typed
<1>1. CASE Tick
  BY <1>0, <1>1 DEF Tick
<1>2. CASE Sample
  BY <1>0, <1>2, SessionSampled DEF Sample
<1>3. CASE EndSession
  <2>1. ~session'.running
    BY <1>3, SessionSampled DEF EndSession, History
  <2>. QED
    BY <2>1
<1>4. CASE Gestures
  BY <1>0, <1>4, GestureSteps DEF Inv
<1>5. CASE UNCHANGED vars
  BY <1>0, <1>5 DEF vars
<1>6. ~Clear /\ ~BeginRun /\ ~EndRun /\ ~(\E elsewhere \in BOOLEAN : StartSession(elsewhere))
      /\ ~(\E p \in Underway, flows \in BOOLEAN : Snapshot(p, flows))
  BY <1>0 DEF Clear, BeginRun, EndRun, StartSession, Snapshot, Live, Underway
<1>. QED
  BY <1>1, <1>2, <1>3, <1>4, <1>5, <1>6 DEF Next, Gestures

\* Neither a snapshot that is drawn nor one that is thrown away moves the clock
\* of a staged test.
LEMMA TestClockStays ==
  ASSUME Inv, [Next]_vars, phase # "none", phase' # "none", recording.at # None
  PROVE  /\ recording'.at # None
         /\ recording'.line + (now' - recording'.at) >= recording.line + (now - recording.at)
<1>0. /\ ~session.running /\ now \in Nat
      /\ recording.line \in Nat /\ recording.at \in Nat /\ recording.at <= now
  BY DEF Inv, Alone, Typed, Recording, Spaced, Clocked
<1>1. CASE Tick
  BY <1>0, <1>1 DEF Tick
<1>2. ASSUME NEW p \in Underway, NEW flows \in BOOLEAN, Snapshot(p, flows)
      PROVE  /\ recording'.at # None
             /\ recording'.line + (now' - recording'.at) >= recording.line + (now - recording.at)
  <2>1. recording' = Record(p, flows) /\ now' = now /\ p \in Seen
    BY <1>2 DEF Snapshot, Seen
  <2>2. \/ recording' = recording
        \/ recording'.at = now /\ recording'.line = recording.line + (now - recording.at)
    BY <2>1, Recorded
  <2>. QED
    BY <1>0, <2>1, <2>2 DEF None
<1>3. CASE Clear
  BY <1>0, <1>3 DEF Clear
<1>4. CASE Gestures
  BY <1>0, <1>4, GestureSteps DEF Inv
<1>5. CASE UNCHANGED vars
  BY <1>0, <1>5 DEF vars
<1>6. ~Sample /\ ~EndSession /\ ~BeginRun /\ ~EndRun /\ ~(\E elsewhere \in BOOLEAN : StartSession(elsewhere))
  BY <1>0 DEF Sample, EndSession, BeginRun, EndRun, StartSession, Live
<1>. QED
  BY <1>1, <1>2, <1>3, <1>4, <1>5, <1>6 DEF Next, Gestures

\* The right edge of the graph never goes back while a test runs.
THEOREM EdgeNeverGoesBack == Spec => ClockMovesOn
<1>1. ASSUME Inv, Inv', [Next]_vars, Same,
             session'.running => Elapsed' = session'.base + (now' - session'.started),
             phase' # "none" /\ recording'.at # None =>
                Elapsed' = recording'.line + (now' - recording'.at)
      PROVE  Elapsed' >= Elapsed
  <2>1. CASE session.running /\ session'.running
    <3>1. Elapsed = session.base + (now - session.started)
      BY <1>1, <2>1, SessionClock
    <3>2. session'.base = session.base /\ session'.started = session.started /\ now' >= now
      BY <1>1, <2>1, SessionClockStays
    <3>3. now \in Nat /\ now' \in Nat /\ session.base \in Nat /\ session.started \in Nat
      BY <1>1 DEF Inv, Typed, History
    <3>. QED
      BY <1>1, <2>1, <3>1, <3>2, <3>3
  <2>2. CASE phase # "none" /\ phase' # "none" /\ recording.at # None
    <3>1. Elapsed = recording.line + (now - recording.at)
      BY <1>1, <2>2, TestClock
    <3>2. /\ recording'.at # None
          /\ recording'.line + (now' - recording'.at) >= recording.line + (now - recording.at)
      BY <1>1, <2>2, TestClockStays
    <3>. QED
      BY <1>1, <2>2, <3>1, <3>2
  <2>. QED
    BY <1>1, <2>1, <2>2 DEF Same
<1>2. Inv /\ Inv' /\ [Next]_vars
      /\ (session.running => Elapsed = session.base + (now - session.started))'
      /\ (phase # "none" /\ recording.at # None => Elapsed = recording.line + (now - recording.at))'
      => [Same => Elapsed' >= Elapsed]_vars
  BY <1>1
<1>3. (Inv => (session.running => Elapsed = session.base + (now - session.started)))
  BY SessionClock
<1>4. (Inv => (phase # "none" /\ recording.at # None => Elapsed = recording.line + (now - recording.at)))
  BY TestClock
<1>. QED
  BY <1>2, <1>3, <1>4, Invariant, PTL DEF Spec, ClockMovesOn
=============================================================================
