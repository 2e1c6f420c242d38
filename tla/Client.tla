------------------------------- MODULE Client -------------------------------
(***************************************************************************)
(* Which test the page drives the link with (web/src): the staged test of  *)
(* ui/features/test-controller.ts and engine/runner.ts, the continuous     *)
(* session of ui/features/monitor-panel.ts, and every control of ui/app.ts *)
(* that starts or stops either.                                            *)
(*                                                                         *)
(* JavaScript runs to completion between awaits, so a step is one event    *)
(* handler or the code between two awaits; between steps the visitor may   *)
(* press anything that is on the page.                                     *)
(***************************************************************************)
EXTENDS Naturals, FiniteSets

CONSTANTS Attempt,      \* the calls of TestController.run that get past its guard
          None,         \* null
          Settings      \* what a visit may be: the options of config that are
                        \* on, and the controls the visitor uses

Option == {"store_enabled", "auto_start"}
Control == {"hero", "space", "panel", "tabs", "navigation", "graph"}

ASSUME ClientAssumption ==
    /\ None \notin Attempt \cup {"auto", "manual"}
    /\ Settings \subseteq SUBSET (Option \cup Control)

VARIABLES setting, \* the visit's
          path,    \* window.location.pathname
          mode,    \* App.mode, and the panel's
          graph,   \* GraphModal.open
          dialog,  \* the question chooseMode awaits an answer to, or None
          test,    \* TestController.test
          runId,   \* TestController.runId; a run is named after the attempt that opened it
          tests,   \* where each attempt is
          busy,    \* directions # null at the last onActivity: blocked and autoRunning
          hero,    \* Hero.running: the start button says Stop
          panel,   \* the continuous session: MonitorPanel.running unless "idle"
          closes,  \* history: the close requests that were sent
          unseen   \* history: what a start did not see because its control does not
                   \* look: a run being "opened", a "session" running

StoreEnabled == "store_enabled" \in setting
AutoStart == "auto_start" \in setting
Controls == setting \cap Control

page == <<setting, path, mode, graph, dialog>>
staged == <<test, runId, tests, busy, hero, closes, unseen>>
vars == <<page, staged, panel>>

Mode == {"auto", "manual"}
Path == {"blank", "/", "/manual", "/r"} \* "blank": before Router.start

(***************************************************************************)
(* "opening": run() awaits openRun; the phases of SpeedTest.run, with the  *)
(* reversals between them; "closing": persist() awaits closeRun.           *)
(***************************************************************************)
Phases == {"latency", "toDownload", "download", "toUpload", "upload"}

Unused == [pc |-> "unused", run |-> None, aborted |-> FALSE, end |-> "none"]

Measuring(a) == tests[a].pc \in Phases

Init ==
    /\ setting \in Settings
    /\ path = "blank"
    /\ mode = "auto"
    /\ graph = FALSE
    /\ dialog = None
    /\ test = None
    /\ runId = None
    /\ tests = [a \in Attempt |-> Unused]
    /\ busy = FALSE
    /\ hero = FALSE
    /\ panel = "idle"
    /\ closes = {}
    /\ unseen = {}

-----------------------------------------------------------------------------
(* The staged test.                                                        *)

Opening == \E a \in Attempt : tests[a].pc = "opening"

\* What goes on of the things a control does not look at before it starts a test.
Overlooked(blind) ==
    {x \in blind : (x = "opened" /\ Opening) \/ (x = "session" /\ panel = "running")}

LaunchKeepingRun(blind) == \* mutant: the run of an earlier test is not forgotten
    IF test # None THEN UNCHANGED staged
    ELSE /\ \E a \in Attempt :
              /\ tests[a].pc = "unused"
              /\ tests' = [tests EXCEPT ![a].pc = IF StoreEnabled THEN "opening" ELSE "latency"]
              /\ test' = IF StoreEnabled THEN test ELSE a
         /\ busy' = TRUE
         /\ hero' = TRUE
         /\ unseen' = unseen \cup Overlooked(blind)
         /\ UNCHANGED <<runId, closes>>

\* TestController.run up to its first await; a call while one runs returns.
Launch(blind) ==
    IF test # None THEN UNCHANGED staged
    ELSE /\ \E a \in Attempt :
              /\ tests[a].pc = "unused"
              /\ tests' = [tests EXCEPT ![a].pc = IF StoreEnabled THEN "opening" ELSE "latency"]
              /\ test' = IF StoreEnabled THEN test ELSE a
         /\ runId' = None
         /\ busy' = TRUE
         /\ hero' = TRUE
         /\ unseen' = unseen \cup Overlooked(blind)
         /\ UNCHANGED closes

AbortAtOnce == \* mutant: the button offers a start before the test has stopped
    /\ tests' = [a \in Attempt |-> IF a = test THEN [tests[a] EXCEPT !.aborted = TRUE] ELSE tests[a]]
    /\ hero' = FALSE
    /\ UNCHANGED <<test, runId, busy, closes, unseen>>

\* abort() reaches the SpeedTest, once there is one.
Abort ==
    /\ tests' = [a \in Attempt |-> IF a = test THEN [tests[a] EXCEPT !.aborted = TRUE] ELSE tests[a]]
    /\ UNCHANGED <<test, runId, busy, hero, closes, unseen>>

\* openRun settled: the test starts either way, quoting whatever runId holds.
Opened(a, ok) ==
    /\ tests[a].pc = "opening"
    /\ runId' = IF ok THEN a ELSE runId
    /\ test' = a
    /\ tests' = [tests EXCEPT ![a].pc = "latency", ![a].run = runId']
    /\ busy' = TRUE
    /\ UNCHANGED <<page, hero, panel, closes, unseen>>

Following(phase) ==
    CASE phase = "latency"    -> {"toDownload", "download"}
      [] phase = "toDownload" -> {"download"}
      [] phase = "download"   -> {"toUpload", "upload"}
      [] OTHER                -> {"upload"}

\* A visual without a reversal goes straight to the next phase.
Advance(a) ==
    /\ tests[a].pc \in Phases \ {"upload"}
    /\ ~tests[a].aborted
    /\ \E next \in Following(tests[a].pc) : tests' = [tests EXCEPT ![a].pc = next]
    /\ busy' = TRUE
    /\ UNCHANGED <<page, test, runId, hero, panel, closes, unseen>>

\* What the snapshot says at the end: an abort outranks a failure.
Ends(a) ==
    IF tests[a].aborted THEN {"aborted"}
    ELSE {"error"} \cup (IF tests[a].pc = "upload" THEN {"done"} ELSE {})

(***************************************************************************)
(* SpeedTest.run has returned: the controller clears its state, and closes *)
(* the run if the test completed.                                          *)
(***************************************************************************)
Finish(a, end) ==
    LET closing == end = "done" /\ runId # None
    IN  /\ Measuring(a)
        /\ end \in Ends(a)
        /\ tests' = [tests EXCEPT ![a].pc = IF closing THEN "closing" ELSE "over", ![a].end = end]
        /\ test' = None
        /\ busy' = FALSE
        /\ hero' = FALSE
        /\ runId' = IF end = "done" THEN None ELSE runId
        /\ closes' = IF closing THEN closes \cup {[by |-> a, run |-> runId]}
                     ELSE closes
        /\ UNCHANGED <<page, panel, unseen>>

\* closeRun settled; onSaved and a failure only change what is shown.
Closed(a) ==
    /\ tests[a].pc = "closing"
    /\ tests' = [tests EXCEPT ![a].pc = "over"]
    /\ UNCHANGED <<page, test, runId, busy, hero, panel, closes, unseen>>

-----------------------------------------------------------------------------
(* The continuous session.                                                 *)

\* MonitorPanel.toggle: Monitor.stop only asks the legs to wind down.
TogglePanel ==
    /\ panel' = IF panel = "idle" THEN "running" ELSE "stopping"
    /\ UNCHANGED <<page, staged>>

StopPanel == panel' = IF panel = "running" THEN "stopping" ELSE panel

\* A leg failed.
SessionFails ==
    /\ panel = "running"
    /\ StopPanel
    /\ UNCHANGED <<page, staged>>

SessionEnds ==
    /\ panel = "stopping"
    /\ panel' = "idle"
    /\ UNCHANGED <<page, staged>>

-----------------------------------------------------------------------------
(* The controls.  A button that is not on the page, or disabled, or under  *)
(* the scrim of a dialog, is not pressed; the shortcuts of ui/shortcuts.ts *)
(* are on the document, dialog or not (a click on its text gives the focus *)
(* back to the body), and back and forward are the browser's own.          *)

Pressing(key) == key \in Controls /\ path # "blank"

Using(control) == Pressing(control) /\ dialog = None

HeroButtonUnblocked == \* mutant: not disabled by a continuous session
    /\ Using("hero")
    /\ path # "/r" /\ (mode = "auto" \/ graph)
    /\ IF hero THEN Abort ELSE Launch({})
    /\ UNCHANGED <<page, panel>>

\* With the graph open it is under the overlay and still within the Tab key's reach.
HeroButton ==
    /\ Using("hero")
    /\ path # "/r" /\ (mode = "auto" \/ graph)
    /\ hero \/ panel = "idle"
    /\ IF hero THEN Abort ELSE Launch({})
    /\ UNCHANGED <<page, panel>>

\* The start button of the panel, which is the staged test's own in auto mode.
PanelButton ==
    /\ Using("panel")
    /\ graph \/ (path # "/r" /\ mode = "manual")
    /\ \/ /\ mode = "auto"
          /\ IF busy THEN Abort ELSE Launch({"session"})
          /\ UNCHANGED <<page, panel>>
       \/ /\ mode = "manual"
          /\ ~busy \/ panel # "idle"
          /\ TogglePanel

\* App.toggleRun
Space ==
    /\ Pressing("space")
    /\ \/ /\ mode = "manual"
          /\ ~busy
          /\ TogglePanel
       \/ /\ mode = "auto"
          /\ test # None
          /\ Abort
          /\ UNCHANGED <<page, panel>>
       \/ /\ mode = "auto"
          /\ test = None /\ panel = "idle"
          /\ Launch({"opened"})
          /\ UNCHANGED <<page, panel>>

ToggleGraph ==
    /\ Pressing("graph")
    /\ graph' = ~graph
    /\ UNCHANGED <<setting, path, mode, dialog, staged, panel>>

\* App.showHome and App.showResult
Show(to) ==
    /\ path' = to
    /\ IF to = "/r" THEN UNCHANGED <<mode, staged>>
       ELSE /\ mode' = IF to = "/manual" THEN "manual" ELSE "auto"
            /\ IF AutoStart THEN Launch({"opened", "session"}) ELSE UNCHANGED staged

\* The first page, a link, or back and forward.
Navigate(to) ==
    /\ path = "blank" \/ "navigation" \in Controls
    /\ to \notin {path, "blank"}
    /\ Show(to)
    /\ UNCHANGED <<setting, graph, dialog, panel>>

PathFor(m) == IF m = "manual" THEN "/manual" ELSE "/"

\* commitMode: a navigation to where the page already is does nothing.
CommitMode(m) ==
    IF PathFor(m) = path
    THEN /\ mode' = m
         /\ UNCHANGED <<path, staged>>
    ELSE Show(PathFor(m))

\* App.runningMode
RunningMode == IF test # None THEN "auto" ELSE IF panel # "idle" THEN "manual" ELSE None

ChooseMode(m) ==
    /\ Using("tabs")
    /\ path # "/r"
    /\ IF RunningMode \in {None, m}
       THEN CommitMode(m) /\ UNCHANGED dialog
       ELSE /\ dialog' = [to |-> m, stops |-> RunningMode]
            /\ UNCHANGED <<path, mode, staged>>
    /\ UNCHANGED <<setting, graph, panel>>

Decline ==
    /\ dialog # None
    /\ dialog' = None
    /\ UNCHANGED <<setting, path, mode, graph, staged, panel>>

\* Stops what was running when the question was asked.  Abort leaves the
\* SpeedTest in place, so committing the mode cannot start another one then.
Confirm ==
    /\ dialog # None
    /\ dialog' = None
    /\ IF dialog.stops = "auto"
       THEN /\ UNCHANGED panel
            /\ IF test # None
               THEN /\ Abort
                    /\ path' = PathFor(dialog.to)
                    /\ mode' = dialog.to
               ELSE CommitMode(dialog.to)
       ELSE StopPanel /\ CommitMode(dialog.to)
    /\ UNCHANGED <<setting, graph>>

-----------------------------------------------------------------------------
Next ==
    \/ \E a \in Attempt :
          \/ \E ok \in BOOLEAN : Opened(a, ok)
          \/ Advance(a)
          \/ \E end \in {"done", "aborted", "error"} : Finish(a, end)
          \/ Closed(a)
    \/ SessionFails
    \/ SessionEnds
    \/ HeroButton
    \/ PanelButton
    \/ Space
    \/ ToggleGraph
    \/ \E to \in Path : Navigate(to)
    \/ \E m \in Mode : ChooseMode(m)
    \/ Decline
    \/ Confirm

Spec == Init /\ [][Next]_vars
-----------------------------------------------------------------------------
TypeOK ==
    /\ setting \in Settings
    /\ path \in Path
    /\ mode \in Mode
    /\ graph \in BOOLEAN
    /\ dialog \in {None} \cup [to : Mode, stops : Mode]
    /\ test \in Attempt \cup {None}
    /\ runId \in Attempt \cup {None}
    /\ tests \in [Attempt ->
          [pc : {"unused", "opening", "closing", "over"} \cup Phases,
           run : Attempt \cup {None}, aborted : BOOLEAN,
           end : {"none", "done", "aborted", "error"}]]
    /\ busy \in BOOLEAN
    /\ hero \in BOOLEAN
    /\ panel \in {"idle", "running", "stopping"}
    /\ closes \subseteq [by : Attempt, run : Attempt]
    /\ unseen \subseteq {"opened", "session"}

(***************************************************************************)
(* "One link, so one test at a time" (app.ts:146): no two staged tests     *)
(* measure at once, and none while a continuous session loads the link.    *)
(***************************************************************************)
OneStagedTest == \A a, b \in Attempt : Measuring(a) /\ Measuring(b) => a = b

LinkIsTheirs == panel = "running" => \A a \in Attempt : ~Measuring(a)

OneTestAtATime == OneStagedTest /\ LinkIsTheirs

(***************************************************************************)
(* What the code keeps of it.  The controls that look, the start button at *)
(* both, the panel's at a test whose run is being opened, the space key at *)
(* a session, leave one test on the link in every order; two staged tests  *)
(* share it only after the space key or auto_start met a run being opened, *)
(* and a session joins them only after those, or after auto_start or the   *)
(* panel's button in auto mode met it running (test-controller.ts:149,     *)
(* app.ts:144-153, monitor-panel.ts:424-431).                              *)
(***************************************************************************)
OneTestIfSeen ==
    /\ "opened" \notin unseen => OneStagedTest
    /\ unseen = {} => LinkIsTheirs

(***************************************************************************)
(* A run is closed by the staged test that opened it, after that test      *)
(* completed, and while nothing still moves bytes for it: the row the      *)
(* server writes is that test's (test-controller.ts:361-380).  Only a      *)
(* start that met another's run being opened ends this.                    *)
(***************************************************************************)
ClosesOwnRun ==
    "opened" \notin unseen =>
        \A c \in closes :
            /\ c.run = c.by
            /\ tests[c.by].end = "done"
            /\ \A a \in Attempt : Measuring(a) => tests[a].run # c.run

(***************************************************************************)
(* The start button offers Stop, and the continuous session is blocked,    *)
(* exactly while a staged test runs (test-controller.ts:151-206), until a  *)
(* start has met another's run being opened.                               *)
(***************************************************************************)
Underway == \E a \in Attempt : tests[a].pc = "opening" \/ Measuring(a)

ControlsMatch ==
    "opened" \notin unseen => (hero <=> Underway) /\ (busy <=> Underway)
=============================================================================
