-------------------------------- MODULE Plot --------------------------------
(***************************************************************************)
(* The graph of the page: the recording of the staged tests                *)
(* (ui/features/test-controller.ts), the history of the continuous session *)
(* (engine/monitor.ts), the panel that chooses between the two and redraws *)
(* (ui/features/monitor-panel.ts) and the stretch of time on show          *)
(* (ui/visuals/viewport.ts).  A reading is whether a direction carries     *)
(* anything.  That only one of the two loads the link is Client's matter.  *)
(***************************************************************************)
EXTENDS Integers, Sequences, FiniteSets

CONSTANTS Every,        \* SAMPLE_MS of a staged test
          SessionEvery, \* SAMPLE_MS of a session
          Capacity,     \* points a series keeps
          MinSpan, DefaultSpan, MaxSpan, \* the time across the plot
          MaxTime,      \* bound: the clock
          MaxTests,     \* bound: tests and sessions
          MaxGestures   \* bound: what the visitor does to the view

None == -1

ASSUME PlotAssumption ==
    /\ {Every, SessionEvery, MinSpan, DefaultSpan, MaxSpan} \subseteq Nat \ {0}
    /\ MinSpan <= DefaultSpan /\ DefaultSpan <= MaxSpan
    /\ Capacity \in Nat /\ Capacity >= 4 /\ Capacity % 2 = 0
    /\ {MaxTime, MaxTests, MaxGestures} \subseteq Nat

VARIABLES now,        \* performance.now
          session,    \* the monitor's series and clock
          recording,  \* the staged tests' series and clock
          phase,      \* of the staged test that runs, or "none"
          directions, \* the switches
          view,       \* the viewport
          frame,      \* a frame of the loop is asked for
          picture,    \* what was drawn last
          latest,     \* history: the series that gained the last point
          tests,      \* history: the tests and sessions begun
          gestures    \* history: what the visitor did to the view

vars == <<now, session, recording, phase, directions, view, frame, picture, latest, tests, gestures>>

Direction == {"down", "up"}
Underway == {"opening", "latency", "toDownload", "download", "toUpload", "upload"}

Larger(m, n) == IF m > n THEN m ELSE n
Smaller(m, n) == IF m < n THEN m ELSE n

-----------------------------------------------------------------------------
(* Series, as records with `points` and `updated`.  `whole` tells that no  *)
(* two points have been merged yet.                                        *)

Last(series) == IF series.points = <<>> THEN 0 ELSE series.points[Len(series.points)].t

\* The average of a pair is above zero where one of them is.
Merged(points) ==
    [i \in 1..(Len(points) + 1) \div 2 |->
        IF 2 * i > Len(points) THEN points[2 * i - 1]
        ELSE [t |-> points[2 * i - 1].t, on |-> points[2 * i - 1].on \cup points[2 * i].on]]

Add(series, t, on) ==
    LET longer == Append(series.points, [t |-> t, on |-> on])
        full   == Len(longer) > Capacity
    IN  [series EXCEPT !.points = IF full THEN Merged(longer) ELSE longer,
                       !.updated = now,
                       !.whole = @ /\ ~full]

-----------------------------------------------------------------------------
(* The recording of a staged test.                                         *)

Carrying(p, flows) ==
    CASE flows /\ p = "download" -> {"down"}
      [] flows /\ p = "upload"   -> {"up"}
      [] OTHER                   -> {}

RecordThrottled(p, flows) == \* mutant: a phase change is throttled as well
    IF recording.at # None /\ now - recording.at < Every THEN recording
    ELSE LET line == recording.line + (IF recording.at = None THEN 0 ELSE now - recording.at)
         IN  [Add(recording, line, Carrying(p, flows)) EXCEPT !.line = line, !.at = now, !.seen = p]

RecordSpaced(p, flows) == \* mutant: points lie at the resolution of the series
    IF p = recording.seen /\ recording.at # None /\ now - recording.at < Every THEN recording
    ELSE LET line == recording.line + (IF recording.at = None THEN 0 ELSE Every)
         IN  [Add(recording, line, Carrying(p, flows)) EXCEPT !.line = line, !.at = now, !.seen = p]

\* A change of phase is never thrown away.
Record(p, flows) ==
    IF p = recording.seen /\ recording.at # None /\ now - recording.at < Every THEN recording
    ELSE LET line == recording.line + (IF recording.at = None THEN 0 ELSE now - recording.at)
         IN  [Add(recording, line, Carrying(p, flows)) EXCEPT !.line = line, !.at = now, !.seen = p]

\* A floor sample on either side of the gap between two runs.
Floored(series) == [Add(series, series.line + Every, {}) EXCEPT !.line = series.line + Every]

BeginRecording ==
    LET apart == [Floored(recording) EXCEPT !.line = @ + Every]
    IN  [(IF recording.points = <<>> THEN recording ELSE apart) EXCEPT !.at = None, !.seen = "opening"]

EndRecording(series) == IF series.points = <<>> THEN series ELSE Floored(series)

-----------------------------------------------------------------------------
(* The panel.                                                              *)

Live == session.running \/ phase # "none"

SourceOwn == \* mutant: the panel's own history first
    IF session.points # <<>> \/ recording.points = <<>> THEN "session" ELSE "recording"

\* Whichever was measured most recently.
Source ==
    IF session.running \/ recording.points = <<>> THEN "session"
    ELSE IF session.points = <<>> \/ recording.updated > session.updated THEN "recording"
    ELSE "session"

Shown == IF Source = "session" THEN session ELSE recording

\* Monitor.elapsedMs while a session runs.
SessionTime == Larger(Last(session), session.base + (now - session.started))

Elapsed ==
    IF session.running THEN SessionTime
    ELSE IF Shown.points = <<>> THEN 0
    ELSE IF phase = "none" THEN Last(Shown)
    ELSE Last(Shown) + (now - Shown.updated)

Newest == Larger(Elapsed, Last(Shown))

\* LEAD_POSITION is 92 hundredths of the width; lengths are rounded down.
Window(newest) ==
    IF view.following
    THEN [from |-> newest - view.span, to |-> newest - view.span + (view.span * 100) \div 92]
    ELSE [from |-> view.anchor, to |-> view.anchor + view.span]

\* The points in a window, and one on either side of it.
Visible(points, w) ==
    LET reaches(i) == i = Len(points) \/ points[i + 1].t >= w.from
    IN  {i \in DOMAIN points :
            /\ reaches(i)
            /\ i = 1 \/ ~reaches(i - 1) \/ points[i - 1].t <= w.to}

\* The window, and which of the two lines are drawn in it.
Drawn ==
    LET w == Window(IF Live /\ view.following THEN Newest ELSE Last(Shown))
        carried == UNION {Shown.points[i].on : i \in Visible(Shown.points, w)}
        switched == IF phase = "none" THEN directions ELSE Carrying(phase, TRUE)
    IN  [source |-> Source, window |-> w, lines |-> carried \cup switched]

\* While frames follow each other, all that is on screen is drawn anew.
Moving == [source |-> "frames", window |-> [from |-> 0, to |-> 0], lines |-> {}]

OnScreen == IF Live THEN Moving ELSE Drawn

Refresh == picture' = OnScreen'

Init ==
    /\ now = 0
    /\ session = [points |-> <<>>, updated |-> 0, whole |-> TRUE,
                  running |-> FALSE, base |-> 0, started |-> 0]
    /\ recording = [points |-> <<>>, updated |-> 0, whole |-> TRUE,
                    line |-> 0, at |-> None, seen |-> "opening"]
    /\ phase = "none"
    /\ directions = {"down"}
    /\ view = [span |-> DefaultSpan, anchor |-> 0, following |-> TRUE]
    /\ frame = FALSE
    /\ picture = OnScreen
    /\ latest = "session"
    /\ tests = 0
    /\ gestures = 0

Tick ==
    /\ now < MaxTime
    /\ now' = now + 1
    /\ UNCHANGED <<session, recording, phase, directions, view, frame, picture, latest, tests, gestures>>

-----------------------------------------------------------------------------
(* The continuous session.                                                 *)

\* MonitorPanel.run; another server than before means another monitor.
StartSession(elsewhere) ==
    /\ ~Live
    /\ tests < MaxTests
    /\ tests' = tests + 1
    /\ LET kept == IF elsewhere THEN [session EXCEPT !.points = <<>>, !.updated = 0, !.whole = TRUE]
                   ELSE session
       IN  session' = [kept EXCEPT !.running = TRUE, !.started = now,
                          !.base = IF kept.points = <<>> THEN 0 ELSE Last(kept) + SessionEvery]
    /\ frame' = TRUE
    /\ UNCHANGED <<now, recording, phase, directions, view, latest, gestures>>
    /\ Refresh

Sampled == Add(session, session.base + (now - session.started), directions)

\* The interval, which may come late.
Sample ==
    /\ session.running
    /\ now - Larger(session.started, session.updated) >= SessionEvery
    /\ session' = Sampled
    /\ latest' = "session"
    /\ UNCHANGED <<now, recording, phase, directions, view, frame, picture, tests, gestures>>

EndSessionDrawn == \* mutant: the last redraw comes before the session counts as over
    /\ session.running
    /\ session' = [Sampled EXCEPT !.running = FALSE]
    /\ latest' = "session"
    /\ frame' = FALSE
    /\ picture' = Moving
    /\ UNCHANGED <<now, recording, phase, directions, view, tests, gestures>>

\* Stopped or failed, and its legs wound down: a last sample, then a last redraw.
EndSession ==
    /\ session.running
    /\ session' = [Sampled EXCEPT !.running = FALSE]
    /\ latest' = "session"
    /\ frame' = FALSE
    /\ UNCHANGED <<now, recording, phase, directions, view, tests, gestures>>
    /\ Refresh

\* Disabled while nothing is shown or a session runs.
Clear ==
    /\ ~session.running
    /\ Shown.points # <<>>
    /\ session' = [session EXCEPT !.points = <<>>, !.updated = 0, !.whole = TRUE, !.base = 0]
    /\ UNCHANGED <<now, recording, phase, directions, view, frame, latest, tests, gestures>>
    /\ Refresh

-----------------------------------------------------------------------------
(* The staged test.                                                        *)

(***************************************************************************)
(* TestController.run up to its await of openRun.  The clock is finer than *)
(* the time between the end of a session and a press.                      *)
(***************************************************************************)
BeginRun ==
    /\ ~Live
    /\ tests < MaxTests
    /\ tests' = tests + 1
    /\ now > session.updated
    /\ phase' = "opening"
    /\ recording' = BeginRecording
    /\ latest' = IF recording.points = <<>> THEN latest ELSE "recording"
    /\ frame' = TRUE
    /\ UNCHANGED <<now, session, directions, view, gestures>>
    /\ Refresh

\* Which phases may follow in the snapshots, the reversals only where there is a pause.
Following(p) ==
    CASE p = "opening"    -> {"latency"}
      [] p = "latency"    -> {"latency", "toDownload", "download"}
      [] p = "toDownload" -> {"download"}
      [] p = "download"   -> {"download", "toUpload", "upload"}
      [] p = "toUpload"   -> {"upload"}
      [] OTHER            -> {"upload"}

\* A transfer phase opens at zero.
Snapshot(p, flows) ==
    /\ phase \in Underway
    /\ p \in Following(phase)
    /\ flows => p = phase /\ p \in {"download", "upload"}
    /\ phase' = p
    /\ recording' = Record(p, flows)
    /\ latest' = IF recording' = recording THEN latest ELSE "recording"
    /\ UNCHANGED <<now, session, directions, view, frame, picture, tests, gestures>>

\* Done, which records no sample of its own, or stopped or failed, which does.
EndRun ==
    /\ phase \in Underway \ {"opening"}
    /\ \/ phase = "upload" /\ recording' = EndRecording(recording)
       \/ \E end \in {"aborted", "error"} : recording' = EndRecording(Record(end, FALSE))
    /\ phase' = "none"
    /\ latest' = "recording"
    /\ frame' = FALSE
    /\ UNCHANGED <<now, session, directions, view, tests, gestures>>
    /\ Refresh

-----------------------------------------------------------------------------
(* The visitor at the graph.                                               *)

Gesture ==
    /\ gestures < MaxGestures
    /\ gestures' = gestures + 1
    /\ UNCHANGED <<now, session, recording, phase, frame, latest, tests>>
    /\ Refresh

\* A switch, which the staged test takes over.
Flip(d) ==
    /\ phase = "none"
    /\ directions' = IF d \in directions THEN directions \ {d} ELSE directions \cup {d}
    /\ UNCHANGED view
    /\ Gesture

\* Never wider than the session, never closer than the closest.
Clamped(span) ==
    Smaller(Larger(MinSpan, Smaller(MaxSpan, Newest)), Larger(MinSpan, span))

\* Twice or half the time, about a place `halves` of the width from the left.
Zoom(span, halves) ==
    LET next == Clamped(span)
        held == Window(Newest).from + ((Window(Newest).to - Window(Newest).from) * halves) \div 2
    IN  /\ span \in {2 * view.span, view.span \div 2}
        /\ view' = IF next = view.span \/ view.following THEN [view EXCEPT !.span = next]
                   ELSE [view EXCEPT !.span = next, !.anchor = Larger(0, held - (next * halves) \div 2)]
        /\ UNCHANGED directions
        /\ Gesture

\* A drag, a sideways wheel or an arrow key.
Pan(delta) ==
    LET furthest == Larger(0, Newest - (view.span * 92) \div 100)
    IN  /\ view' = [view EXCEPT !.following = FALSE,
                        !.anchor = Smaller(furthest, Larger(0, Window(Newest).from + delta))]
        /\ UNCHANGED directions
        /\ Gesture

SetFocus ==
    /\ view' = [view EXCEPT !.following = ~@]
    /\ UNCHANGED directions
    /\ Gesture

Reset ==
    /\ view' = [span |-> DefaultSpan, anchor |-> 0, following |-> TRUE]
    /\ UNCHANGED directions
    /\ Gesture

Next ==
    \/ Tick
    \/ \E elsewhere \in BOOLEAN : StartSession(elsewhere)
    \/ Sample
    \/ EndSession
    \/ Clear
    \/ BeginRun
    \/ \E p \in Underway, flows \in BOOLEAN : Snapshot(p, flows)
    \/ EndRun
    \/ \E d \in Direction : Flip(d)
    \/ \E span \in MinSpan..2 * MaxSpan, halves \in 0..2 : Zoom(span, halves)
    \/ \E delta \in {-1, 1} : Pan(delta)
    \/ SetFocus
    \/ Reset

Spec == Init /\ [][Next]_vars

-----------------------------------------------------------------------------
(***************************************************************************)
(* The frame loop runs for whichever test loads the link and for no other  *)
(* time, and what it leaves behind is the graph of the state the panel is  *)
(* in: "Cleared first, then drawn: a final redraw taken while the panel    *)
(* still believed it was running left the live-speed markers ruled across  *)
(* a stopped graph" (monitor-panel.ts:460-465, 499-516).                   *)
(***************************************************************************)
PictureIsCurrent ==
    /\ frame = Live
    /\ ~Live => picture = Drawn

(***************************************************************************)
(* Unless a session runs, the series on show is the one that was measured  *)
(* last, "which is what the visitor was last doing" (monitor-panel.ts:     *)
(* 410-416), and a staged test is drawn from its first sample on.          *)
(***************************************************************************)
LatestIsShown ==
    LET series == IF latest = "session" THEN session ELSE recording
    IN  ~session.running /\ series.points # <<>> => Source = latest

(***************************************************************************)
(* Until points are merged, no leg of a staged test runs into another in   *)
(* the graph: a sample of the floor stands between them, however late or   *)
(* early the snapshots come ("A phase change is the one sample that must   *)
(* never be thrown away", test-controller.ts:318-324).                     *)
(***************************************************************************)
LegsApart ==
    recording.whole =>
        \A i \in 1..Len(recording.points) - 1 :
            Cardinality(recording.points[i].on \cup recording.points[i + 1].on) <= 1

(***************************************************************************)
(* The right edge of the graph never goes back while a test runs, although *)
(* a session's clock and a staged test's samples come from different       *)
(* places, points are merged and snapshots are late; a staged test has an  *)
(* edge of its own from its first sample on (monitor-panel.ts:386-402,     *)
(* monitor.ts:243-252).                                                    *)
(***************************************************************************)
Same == \/ session.running /\ session'.running
        \/ phase # "none" /\ phase' # "none" /\ recording.at # None

ClockMovesOn == [][Same => Elapsed' >= Elapsed]_vars
=============================================================================
