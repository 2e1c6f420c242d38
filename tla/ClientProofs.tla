---------------------------- MODULE ClientProofs ----------------------------
(***************************************************************************)
(* Proofs about Client for any number of attempts and any visit.  Each     *)
(* property is claimed until a start meets what its control does not look  *)
(* at, which is when TLC finds it violated.                                *)
(***************************************************************************)
EXTENDS Client, TLAPS

(***************************************************************************)
(* The inductive invariant.  Staged ties the controller's fields to the    *)
(* one attempt that may be under way; Recorded says whose run each test    *)
(* and each close request has.                                             *)
(***************************************************************************)
Running(a) == tests[a].pc = "opening" \/ Measuring(a)

Matched == (hero <=> Underway) /\ (busy <=> Underway)

Staged ==
    /\ \A a, b \in Attempt : Running(a) /\ Running(b) => a = b
    /\ \A a \in Attempt : Measuring(a) <=> test = a
    /\ Matched

Recorded ==
    /\ \A a \in Attempt : tests[a].pc = "unused" => tests[a].run = None
    /\ \A a \in Attempt : Running(a) => runId = tests[a].run /\ runId \in {None, a}
    /\ \A a \in Attempt : tests[a].pc = "opening" => runId = None
    /\ \A c \in closes :
          c.run = c.by /\ tests[c.by].end = "done" /\ tests[c.by].pc \in {"closing", "over"}

Alone == panel = "running" => \A a \in Attempt : ~Running(a)

Inv ==
    /\ TypeOK
    /\ "opened" \notin unseen => Staged /\ Recorded
    /\ unseen = {} => Alone

-----------------------------------------------------------------------------
(* The parts of the type, and the ways a step may change the staged part.  *)

TestRecord ==
    [pc : {"unused", "opening", "closing", "over"} \cup Phases,
     run : Attempt \cup {None}, aborted : BOOLEAN,
     end : {"none", "done", "aborted", "error"}]

StagedType ==
    /\ test \in Attempt \cup {None}
    /\ runId \in Attempt \cup {None}
    /\ tests \in [Attempt -> TestRecord]
    /\ busy \in BOOLEAN
    /\ hero \in BOOLEAN
    /\ closes \subseteq [by : Attempt, run : Attempt]
    /\ unseen \subseteq {"opened", "session"}

PageType ==
    /\ setting \in Settings
    /\ path \in Path
    /\ mode \in Mode
    /\ graph \in BOOLEAN
    /\ dialog \in {None} \cup [to : Mode, stops : Mode]
    /\ panel \in {"idle", "running", "stopping"}

\* A control's call of run, and one that overlaps no other attempt.
Start == \E blind \in SUBSET {"opened", "session"} : Launch(blind)

CleanLaunch == Start /\ (test = None => ~Underway)

Pressed ==
    \/ HeroButton
    \/ PanelButton
    \/ Space
    \/ ToggleGraph
    \/ \E to \in Path : Navigate(to)
    \/ \E m \in Mode : ChooseMode(m)
    \/ Decline
    \/ Confirm

LEMMA TypeParts == TypeOK <=> StagedType /\ PageType
BY DEF TypeOK, StagedType, PageType, TestRecord

\* What a visitor does reaches the staged test through Launch and Abort only.
LEMMA PressedStaged ==
    ASSUME Pressed
    PROVE  Start \/ Abort \/ UNCHANGED staged
<1>1. CASE HeroButton
  BY <1>1 DEF Start, HeroButton
<1>2. CASE PanelButton
  BY <1>2 DEF Start, PanelButton, TogglePanel
<1>3. CASE Space
  BY <1>3 DEF Start, Space, TogglePanel
<1>4. CASE ToggleGraph
  BY <1>4 DEF ToggleGraph
<1>5. CASE \E to \in Path : Navigate(to)
  BY <1>5 DEF Start, Navigate, Show
<1>6. CASE \E m \in Mode : ChooseMode(m)
  BY <1>6 DEF Start, ChooseMode, CommitMode, Show
<1>7. CASE Decline
  BY <1>7 DEF Decline
<1>8. CASE Confirm
  BY <1>8 DEF Start, Confirm, CommitMode, Show
<1> QED
  BY <1>1, <1>2, <1>3, <1>4, <1>5, <1>6, <1>7, <1>8 DEF Pressed

\* A test's record keeps its type when one of its fields is given a value of its own.
LEMMA RecordFields ==
    ASSUME NEW r \in TestRecord
    PROVE  /\ \A pc \in {"unused", "opening", "closing", "over"} \cup Phases :
                  [r EXCEPT !.pc = pc] \in TestRecord
           /\ \A run \in Attempt \cup {None} : [r EXCEPT !.run = run] \in TestRecord
           /\ \A end \in {"none", "done", "aborted", "error"} : [r EXCEPT !.end = end] \in TestRecord
           /\ [r EXCEPT !.aborted = TRUE] \in TestRecord
BY DEF TestRecord

\* A start that gets past the guard takes a new attempt.
LEMMA StartTakes ==
    ASSUME Start
    PROVE  \/ test # None /\ UNCHANGED staged
           \/ /\ test = None
              /\ \E a \in Attempt :
                    /\ tests[a].pc = "unused"
                    /\ tests' = [tests EXCEPT ![a] =
                          [tests[a] EXCEPT !.pc = IF StoreEnabled THEN "opening" ELSE "latency"]]
                    /\ test' = IF StoreEnabled THEN test ELSE a
              /\ runId' = None /\ busy' = TRUE /\ hero' = TRUE /\ closes' = closes
              /\ unseen' \in SUBSET (unseen \cup {"opened", "session"})
<1>1. PICK blind \in SUBSET {"opened", "session"} : Launch(blind)
  BY DEF Start
<1>2. Overlooked(blind) \subseteq {"opened", "session"}
  BY DEF Overlooked
<1> QED
  BY <1>1, <1>2 DEF Launch

LEMMA LaunchType ==
    ASSUME StagedType, Start \/ Abort \/ UNCHANGED staged
    PROVE  StagedType'
<1>1. CASE Start
  <2>1. CASE test # None
    BY <1>1, <2>1, StartTakes DEF StagedType, staged
  <2>2. CASE test = None
    <3>1. PICK a \in Attempt :
             /\ tests' = [tests EXCEPT ![a] = [tests[a] EXCEPT !.pc = IF StoreEnabled THEN "opening" ELSE "latency"]]
             /\ test' = IF StoreEnabled THEN test ELSE a
      BY <1>1, <2>2, StartTakes
    <3>2. [tests[a] EXCEPT !.pc = IF StoreEnabled THEN "opening" ELSE "latency"] \in TestRecord
      BY RecordFields DEF StagedType, Phases
    <3>3. tests' \in [Attempt -> TestRecord]
      BY <3>1, <3>2 DEF StagedType
    <3>4. /\ runId' = None /\ busy' = TRUE /\ hero' = TRUE /\ closes' = closes
          /\ unseen' \in SUBSET (unseen \cup {"opened", "session"})
      BY <1>1, <2>2, StartTakes
    <3> QED
      BY <2>2, <3>1, <3>3, <3>4 DEF StagedType
  <2> QED
    BY <2>1, <2>2
<1>2. CASE Abort
  <2>1. \A a \in Attempt : [tests[a] EXCEPT !.aborted = TRUE] \in TestRecord
    BY RecordFields DEF StagedType
  <2> QED
    BY <1>2, <2>1 DEF StagedType, Abort
<1>3. CASE UNCHANGED staged
  BY <1>3 DEF StagedType, staged
<1> QED
  BY <1>1, <1>2, <1>3

LEMMA StagedTypeStep ==
    ASSUME TypeOK, [Next]_vars
    PROVE  StagedType'
<1>t. StagedType
  BY TypeParts
<1> USE DEF StagedType
<1>1. ASSUME NEW a \in Attempt, NEW ok \in BOOLEAN, Opened(a, ok)
      PROVE  StagedType'
  <2>1. runId' \in Attempt \cup {None}
    BY <1>t, <1>1 DEF Opened
  <2>2. tests' = [tests EXCEPT ![a] = [[tests[a] EXCEPT !.pc = "latency"] EXCEPT !.run = runId']]
    BY <1>t, <1>1 DEF Opened, TestRecord
  <2>3. [tests[a] EXCEPT !.pc = "latency"] \in TestRecord
    BY <1>t, RecordFields DEF Phases
  <2>4. [[tests[a] EXCEPT !.pc = "latency"] EXCEPT !.run = runId'] \in TestRecord
    BY <2>1, <2>3, RecordFields
  <2> QED
    BY <1>t, <1>1, <2>1, <2>2, <2>4 DEF Opened
<1>2. ASSUME NEW a \in Attempt, Advance(a)
      PROVE  StagedType'
  <2>0. PICK next \in Following(tests[a].pc) : tests' = [tests EXCEPT ![a].pc = next]
    BY <1>2 DEF Advance
  <2>p. next \in Phases
    BY <2>0 DEF Following, Phases
  <2>1. tests' = [tests EXCEPT ![a] = [tests[a] EXCEPT !.pc = next]]
    BY <2>0
  <2>2. [tests[a] EXCEPT !.pc = next] \in TestRecord
    BY <1>t, <2>p, RecordFields
  <2> QED
    BY <1>t, <1>2, <2>1, <2>2 DEF Advance
<1>3. ASSUME NEW a \in Attempt, NEW end \in {"done", "aborted", "error"}, Finish(a, end)
      PROVE  StagedType'
  <2> DEFINE pc == IF end = "done" /\ runId # None THEN "closing" ELSE "over"
  <2>1. closes' \subseteq [by : Attempt, run : Attempt]
    BY <1>t, <1>3 DEF Finish
  <2>2. tests' = [tests EXCEPT ![a] = [[tests[a] EXCEPT !.pc = pc] EXCEPT !.end = end]]
    BY <1>t, <1>3 DEF Finish, TestRecord
  <2>3. [tests[a] EXCEPT !.pc = pc] \in TestRecord
    BY <1>t, RecordFields
  <2>4. [[tests[a] EXCEPT !.pc = pc] EXCEPT !.end = end] \in TestRecord
    BY <2>3, RecordFields
  <2>5. tests' \in [Attempt -> TestRecord]
    BY <1>t, <2>2, <2>4
  <2>6. /\ test' = None /\ busy' = FALSE /\ hero' = FALSE /\ runId' \in {None, runId}
        /\ unseen' = unseen
    BY <1>3 DEF Finish
  <2> QED
    BY <1>t, <2>1, <2>5, <2>6
<1>4. ASSUME NEW a \in Attempt, Closed(a)
      PROVE  StagedType'
  <2>1. [tests[a] EXCEPT !.pc = "over"] \in TestRecord
    BY <1>t, RecordFields
  <2> QED
    BY <1>t, <1>4, <2>1 DEF Closed
<1>5. CASE SessionFails \/ SessionEnds \/ UNCHANGED vars
  BY <1>t, <1>5 DEF SessionFails, SessionEnds, vars, staged
<1>6. CASE Pressed
  BY <1>t, <1>6, PressedStaged, LaunchType
<1> QED
  BY <1>1, <1>2, <1>3, <1>4, <1>5, <1>6 DEF Next, Pressed

LEMMA PageTypeStep ==
    ASSUME TypeOK, [Next]_vars
    PROVE  PageType'
<1> USE DEF TypeOK, PageType
<1>1. CASE \E a \in Attempt :
              \/ \E ok \in BOOLEAN : Opened(a, ok)
              \/ Advance(a)
              \/ \E end \in {"done", "aborted", "error"} : Finish(a, end)
              \/ Closed(a)
  BY <1>1 DEF Opened, Advance, Finish, Closed, page
<1>2. CASE SessionFails \/ SessionEnds \/ UNCHANGED vars
  BY <1>2 DEF SessionFails, SessionEnds, StopPanel, vars, page
<1>3. CASE HeroButton
  BY <1>3 DEF HeroButton, page
<1>4. CASE PanelButton
  BY <1>4 DEF PanelButton, TogglePanel, page
<1>5. CASE Space
  BY <1>5 DEF Space, TogglePanel, page
<1>6. CASE ToggleGraph
  BY <1>6 DEF ToggleGraph
<1>7. ASSUME NEW to \in Path, Navigate(to)
      PROVE  PageType'
  BY <1>7 DEF Navigate, Show, Mode
<1>8. ASSUME NEW m \in Mode, ChooseMode(m)
      PROVE  PageType'
  <2>1. path' \in Path /\ mode' \in Mode
    BY <1>8 DEF ChooseMode, CommitMode, Show, PathFor, Path, Mode
  <2>2. dialog' \in {None} \cup [to : Mode, stops : Mode]
    BY <1>8 DEF ChooseMode, RunningMode, Mode
  <2> QED
    BY <1>8, <2>1, <2>2 DEF ChooseMode
<1>9. CASE Decline
  BY <1>9 DEF Decline
<1>10. CASE Confirm
  <2>1. dialog.to \in Mode
    BY <1>10 DEF Confirm
  <2>2. path' \in Path /\ mode' \in Mode
    BY <1>10, <2>1 DEF Confirm, CommitMode, Show, PathFor, Path, Mode
  <2> QED
    BY <1>10, <2>2 DEF Confirm, StopPanel
<1> QED
  BY <1>1, <1>2, <1>3, <1>4, <1>5, <1>6, <1>7, <1>8, <1>9, <1>10 DEF Next

LEMMA TypeStep == TypeOK /\ [Next]_vars => TypeOK'
BY StagedTypeStep, PageTypeStep DEF TypeOK, StagedType, PageType, TestRecord

-----------------------------------------------------------------------------
(* The staged test: a start never overlaps another attempt, and each       *)
(* attempt's run is its own.                                               *)

\* A start whose control does not look at runs being opened notes one it meets.
LEMMA BlindStart ==
    ASSUME TypeOK, Staged, "opened" \notin unseen',
           NEW blind \in SUBSET {"opened", "session"}, "opened" \in blind, Launch(blind)
    PROVE  CleanLaunch
<1>1. ASSUME test = None PROVE ~Underway
  <2>1. ~Opening
    BY <1>1 DEF Launch, Overlooked
  <2>2. \A a \in Attempt : ~Measuring(a)
    BY <1>1, ClientAssumption DEF Staged
  <2> QED
    BY <2>1, <2>2 DEF Underway, Opening
<1> QED
  BY <1>1 DEF CleanLaunch, Start

\* Short of that, every control starts a test when none is under way.
LEMMA CleanStart ==
    ASSUME TypeOK, Staged, Pressed, "opened" \notin unseen'
    PROVE  CleanLaunch \/ Abort \/ UNCHANGED staged
<1>1. CASE HeroButton
  BY <1>1 DEF HeroButton, CleanLaunch, Start, Staged, Matched
<1>2. CASE PanelButton
  BY <1>2 DEF PanelButton, TogglePanel, CleanLaunch, Start, Staged, Matched
<1>3. CASE Space
  <2>1. Launch({"opened"}) \/ Abort \/ UNCHANGED staged
    BY <1>3 DEF Space, TogglePanel
  <2> QED
    BY <2>1, BlindStart
<1>4. ASSUME NEW to \in Path, Show(to)
      PROVE  CleanLaunch \/ UNCHANGED staged
  <2>1. Launch({"opened", "session"}) \/ UNCHANGED staged
    BY <1>4 DEF Show
  <2> QED
    BY <2>1, BlindStart
<1>5. CASE \E to \in Path : Navigate(to)
  BY <1>4, <1>5 DEF Navigate
<1>6. ASSUME NEW m \in Mode, CommitMode(m)
      PROVE  CleanLaunch \/ UNCHANGED staged
  <2>1. PathFor(m) \in Path
    BY DEF PathFor, Path
  <2> QED
    BY <1>4, <1>6, <2>1 DEF CommitMode
<1>7. CASE \E m \in Mode : ChooseMode(m)
  BY <1>6, <1>7 DEF ChooseMode
<1>8. CASE ToggleGraph \/ Decline
  BY <1>8 DEF ToggleGraph, Decline
<1>9. CASE Confirm
  <2>1. dialog.to \in Mode
    BY <1>9 DEF Confirm, TypeOK
  <2> QED
    BY <1>6, <1>9, <2>1 DEF Confirm
<1> QED
  BY <1>1, <1>2, <1>3, <1>5, <1>7, <1>8, <1>9 DEF Pressed

\* A step that leaves every attempt where it is, with its run and its end, and the
\* controller's fields but for `aborted`.
LEMMA SameKeeps ==
    ASSUME TypeOK, Staged, Recorded, Abort \/ UNCHANGED staged
    PROVE  Staged' /\ Recorded'
<1>1. \A a \in Attempt :
          tests'[a].pc = tests[a].pc /\ tests'[a].run = tests[a].run /\ tests'[a].end = tests[a].end
  BY DEF Abort, staged, TypeOK
<1>2. UNCHANGED <<test, runId, busy, hero, closes>>
  BY DEF Abort, staged
<1>3. \A a \in Attempt : (Running(a)' <=> Running(a)) /\ (Measuring(a)' <=> Measuring(a))
  BY <1>1 DEF Running, Measuring
<1>4. Staged'
  BY <1>1, <1>2, <1>3 DEF Staged, Matched, Underway
<1>5. \A c \in closes : c.by \in Attempt
  BY DEF TypeOK
<1>6. Recorded'
  BY <1>1, <1>2, <1>3, <1>5 DEF Recorded
<1> QED
  BY <1>4, <1>6

LEMMA LaunchKeeps ==
    ASSUME TypeOK, Staged, Recorded, CleanLaunch
    PROVE  Staged' /\ Recorded'
<1>n. None \notin Attempt /\ tests \in [Attempt -> TestRecord]
  BY ClientAssumption DEF TypeOK, TestRecord
<1>1. CASE test # None
  <2>1. UNCHANGED staged
    BY <1>1, StartTakes DEF CleanLaunch
  <2> QED
    BY <2>1, SameKeeps
<1>2. CASE test = None
  <2>0. \A b \in Attempt : ~Running(b)
    BY <1>2 DEF CleanLaunch, Underway, Running
  <2>1. PICK a \in Attempt :
           /\ tests[a].pc = "unused"
           /\ tests' = [tests EXCEPT ![a] = [tests[a] EXCEPT !.pc = IF StoreEnabled THEN "opening" ELSE "latency"]]
           /\ test' = IF StoreEnabled THEN None ELSE a
    BY <1>2, StartTakes DEF CleanLaunch
  <2>2. /\ tests'[a].pc = IF StoreEnabled THEN "opening" ELSE "latency"
        /\ tests'[a].run = tests[a].run
        /\ \A b \in Attempt : b # a => tests'[b] = tests[b]
    BY <1>n, <2>1 DEF TestRecord
  <2>3. \A b \in Attempt : Running(b)' <=> b = a
    BY <2>0, <2>2 DEF Running, Measuring, Phases
  <2>4. runId' = None /\ busy' = TRUE /\ hero' = TRUE /\ closes' = closes
    BY <1>2, StartTakes DEF CleanLaunch
  <2>5. Staged'
    <3>1. \A b \in Attempt : Measuring(b)' <=> test' = b
      BY <1>n, <2>0, <2>1, <2>2 DEF Running, Measuring, Phases
    <3>2. Matched'
      BY <2>3, <2>4 DEF Matched, Underway, Running
    <3> QED
      BY <2>3, <3>1, <3>2 DEF Staged
  <2>6. Recorded'
    <3>1. tests[a].run = None
      BY <2>1 DEF Recorded
    <3>2. \A b \in Attempt : tests'[b].pc = "unused" => tests'[b].run = None
      BY <2>2 DEF Recorded
    <3>3. \A b \in Attempt : Running(b)' => runId' = tests'[b].run /\ runId' \in {None, b}
      BY <2>2, <2>3, <2>4, <3>1
    <3>4. \A c \in closes' :
            c.run = c.by /\ tests'[c.by].end = "done" /\ tests'[c.by].pc \in {"closing", "over"}
      <4> SUFFICES ASSUME NEW c \in closes
                   PROVE  c.run = c.by /\ tests'[c.by].end = "done" /\ tests'[c.by].pc \in {"closing", "over"}
        BY <2>4
      <4>1. c.by \in Attempt /\ c.by # a
        BY <2>1 DEF Recorded, TypeOK
      <4> QED
        BY <2>2, <4>1 DEF Recorded
    <3> QED
      BY <2>4, <3>2, <3>3, <3>4 DEF Recorded
  <2> QED
    BY <2>5, <2>6
<1> QED
  BY <1>1, <1>2

\* What a start met is not forgotten.
LEMMA UnseenGrows == ASSUME [Next]_vars PROVE unseen \subseteq unseen'
<1>1. Pressed => unseen \subseteq unseen'
  BY PressedStaged DEF Start, Launch, Abort, staged
<1>2. ~Pressed => unseen' = unseen
  BY DEF Next, Pressed, Opened, Advance, Finish, Closed, SessionFails, SessionEnds, vars, staged
<1> QED
  BY <1>1, <1>2

LEMMA StagedStep ==
    ASSUME Inv, [Next]_vars, "opened" \notin unseen'
    PROVE  Staged' /\ Recorded'
<1>i. TypeOK /\ Staged /\ Recorded
  BY UnseenGrows DEF Inv
<1>n. None \notin Attempt /\ tests \in [Attempt -> TestRecord]
  BY <1>i, ClientAssumption DEF TypeOK, TestRecord
<1>c. \A c \in closes : c.by \in Attempt
  BY <1>i DEF TypeOK
<1>1. ASSUME NEW a \in Attempt, NEW ok \in BOOLEAN, Opened(a, ok)
      PROVE  Staged' /\ Recorded'
  <2>1. /\ tests'[a].pc = "latency" /\ tests'[a].run = runId'
        /\ \A b \in Attempt : b # a => tests'[b] = tests[b]
    BY <1>n, <1>1 DEF Opened, TestRecord
  <2>2. Running(a) /\ \A b \in Attempt : Running(b) => b = a
    BY <1>i, <1>1 DEF Opened, Running, Staged
  <2>3. \A b \in Attempt : Running(b)' <=> b = a
    BY <2>1, <2>2 DEF Running, Measuring, Phases
  <2>4. \A b \in Attempt : Measuring(b)' <=> test' = b
    BY <1>1, <2>1, <2>2 DEF Opened, Running, Measuring, Phases
  <2>5. Matched'
    BY <1>i, <1>1, <2>2, <2>3 DEF Opened, Staged, Matched, Underway, Running
  <2>6. Staged'
    BY <1>i, <2>1, <2>3, <2>4, <2>5 DEF Staged
  <2>7. runId' \in {None, a}
    BY <1>i, <1>1 DEF Opened, Recorded
  <2>8. \A c \in closes' : c.by # a /\ c.by \in Attempt /\ c \in closes
    BY <1>i, <1>c, <1>1 DEF Opened, Recorded
  <2>9. Recorded'
    <3>1. \A b \in Attempt : tests'[b].pc = "unused" => tests'[b].run = None
      BY <1>i, <2>1 DEF Recorded
    <3>2. \A b \in Attempt : Running(b)' => runId' = tests'[b].run /\ runId' \in {None, b}
      BY <2>1, <2>3, <2>7
    <3>3. \A b \in Attempt : tests'[b].pc = "opening" => runId' = None
      BY <2>1, <2>3 DEF Running
    <3>4. \A c \in closes' :
            c.run = c.by /\ tests'[c.by].end = "done" /\ tests'[c.by].pc \in {"closing", "over"}
      BY <1>i, <2>1, <2>8 DEF Recorded
    <3> QED
      BY <3>1, <3>2, <3>3, <3>4 DEF Recorded
  <2> QED
    BY <2>6, <2>9
<1>2. ASSUME NEW a \in Attempt, Advance(a)
      PROVE  Staged' /\ Recorded'
  <2>0. PICK next \in Following(tests[a].pc) : tests' = [tests EXCEPT ![a].pc = next]
    BY <1>2 DEF Advance
  <2>p. next \in Phases
    BY <2>0 DEF Following, Phases
  <2>1. /\ tests'[a].pc = next /\ tests'[a].run = tests[a].run /\ tests'[a].end = tests[a].end
        /\ \A b \in Attempt : b # a => tests'[b] = tests[b]
    BY <1>n, <2>0 DEF TestRecord
  <2>2. Measuring(a) /\ Running(a)
    BY <1>2 DEF Advance, Running, Measuring
  <2>3. \A b \in Attempt : (Running(b)' <=> Running(b)) /\ (Measuring(b)' <=> Measuring(b))
    BY <2>p, <2>1, <2>2 DEF Running, Measuring
  <2>4. UNCHANGED <<test, runId, hero, closes>> /\ busy' = TRUE
    BY <1>2 DEF Advance
  <2>5. Matched'
    BY <1>i, <2>2, <2>3, <2>4 DEF Staged, Matched, Underway, Running
  <2>6. \A b \in Attempt : tests'[b].pc = "opening" => tests[b].pc = "opening"
    BY <2>p, <2>1 DEF Phases
  <2>7. Staged'
    BY <1>i, <2>3, <2>4, <2>5, <2>6 DEF Staged
  <2>8. \A c \in closes : c.by # a
    BY <1>i, <2>2 DEF Recorded, Measuring, Phases
  <2>9. Recorded'
    <3>1. \A b \in Attempt : tests'[b].pc = "unused" => tests'[b].run = None
      BY <1>i, <2>p, <2>1 DEF Recorded, Phases
    <3>2. \A b \in Attempt : Running(b)' => runId' = tests'[b].run /\ runId' \in {None, b}
      BY <1>i, <2>1, <2>3, <2>4 DEF Recorded
    <3>3. \A c \in closes' :
            c.run = c.by /\ tests'[c.by].end = "done" /\ tests'[c.by].pc \in {"closing", "over"}
      BY <1>i, <1>c, <2>1, <2>4, <2>8 DEF Recorded
    <3> QED
      BY <1>i, <2>4, <2>6, <3>1, <3>2, <3>3 DEF Recorded
  <2> QED
    BY <2>7, <2>9
<1>3. ASSUME NEW a \in Attempt, NEW end \in {"done", "aborted", "error"}, Finish(a, end)
      PROVE  Staged' /\ Recorded'
  <2> DEFINE closing == end = "done" /\ runId # None
  <2>1. /\ tests'[a].pc = IF closing THEN "closing" ELSE "over"
        /\ tests'[a].run = tests[a].run /\ tests'[a].end = end
        /\ \A b \in Attempt : b # a => tests'[b] = tests[b]
    BY <1>n, <1>3 DEF Finish, TestRecord
  <2>2. Running(a) /\ Measuring(a) /\ \A b \in Attempt : Running(b) => b = a
    BY <1>i, <1>3 DEF Finish, Running, Staged
  <2>3. \A b \in Attempt : ~Running(b)'
    BY <2>1, <2>2 DEF Running, Measuring, Phases
  <2>4. test' = None /\ busy' = FALSE /\ hero' = FALSE
    BY <1>3 DEF Finish
  <2>5. Staged'
    BY <1>n, <2>3, <2>4 DEF Staged, Running, Matched, Underway
  <2>6. closing => runId = a
    BY <1>i, <2>2 DEF Recorded
  <2>7. \A c \in closes' : (c \in closes /\ c.by # a) \/ (closing /\ c = [by |-> a, run |-> a])
    BY <1>i, <1>3, <2>2, <2>6 DEF Finish, Recorded, Measuring, Phases
  <2>8. Recorded'
    <3>1. \A b \in Attempt : tests'[b].pc = "unused" => tests'[b].run = None
      BY <1>i, <2>1 DEF Recorded
    <3>2. \A c \in closes' :
            c.run = c.by /\ tests'[c.by].end = "done" /\ tests'[c.by].pc \in {"closing", "over"}
      BY <1>i, <1>c, <2>1, <2>7 DEF Recorded
    <3> QED
      BY <2>3, <3>1, <3>2 DEF Recorded, Running
  <2> QED
    BY <2>5, <2>8
<1>4. ASSUME NEW a \in Attempt, Closed(a)
      PROVE  Staged' /\ Recorded'
  <2>1. /\ tests'[a].pc = "over" /\ tests'[a].run = tests[a].run /\ tests'[a].end = tests[a].end
        /\ \A b \in Attempt : b # a => tests'[b] = tests[b]
    BY <1>n, <1>4 DEF Closed, TestRecord
  <2>2. \A b \in Attempt : (Running(b)' <=> Running(b)) /\ (Measuring(b)' <=> Measuring(b))
    BY <1>4, <2>1 DEF Closed, Running, Measuring, Phases
  <2>3. UNCHANGED <<test, runId, busy, hero, closes>>
    BY <1>4 DEF Closed
  <2>4. \A b \in Attempt : tests'[b].pc \in {"opening", "unused"} => tests'[b] = tests[b]
    BY <2>1
  <2>5. Staged'
    BY <1>i, <2>2, <2>3, <2>4 DEF Staged, Matched, Underway, Running
  <2>6. \A b \in Attempt : tests'[b].run = tests[b].run /\ tests'[b].end = tests[b].end
                           /\ (tests[b].pc \in {"closing", "over"} => tests'[b].pc \in {"closing", "over"})
    BY <2>1
  <2>7. Recorded'
    BY <1>i, <1>c, <2>2, <2>3, <2>4, <2>6 DEF Recorded
  <2> QED
    BY <2>5, <2>7
<1>5. CASE SessionFails \/ SessionEnds \/ UNCHANGED vars
  <2>1. UNCHANGED staged
    BY <1>5 DEF SessionFails, SessionEnds, vars, staged
  <2> QED
    BY <1>i, <2>1, SameKeeps
<1>6. CASE Pressed
  BY <1>i, <1>6, CleanStart, LaunchKeeps, SameKeeps
<1> QED
  BY <1>1, <1>2, <1>3, <1>4, <1>5, <1>6 DEF Next, Pressed

-----------------------------------------------------------------------------
(* The continuous session: none runs while a staged test is under way.     *)

\* A start whose control does not look at the session notes one that runs.
LEMMA SessionMet ==
    ASSUME NEW blind, "session" \in blind, Launch(blind), unseen' = {}, panel = "running"
    PROVE  UNCHANGED staged
BY DEF Launch, Overlooked

\* Short of that, nothing starts a staged test beside a session.
LEMMA NoStartBesideSession ==
    ASSUME TypeOK, Staged, Pressed, panel = "running", unseen' = {}
    PROVE  Abort \/ UNCHANGED staged
<1>1. CASE HeroButton
  BY <1>1 DEF HeroButton
<1>2. CASE PanelButton
  BY <1>2, SessionMet DEF PanelButton, TogglePanel
<1>3. CASE Space
  BY <1>3 DEF Space, TogglePanel
<1>4. ASSUME NEW to, Show(to) PROVE UNCHANGED staged
  BY <1>4, SessionMet DEF Show
<1>5. CASE ToggleGraph \/ Decline
  BY <1>5 DEF ToggleGraph, Decline
<1>6. CASE \E to \in Path : Navigate(to)
  BY <1>4, <1>6 DEF Navigate
<1>7. CASE (\E m \in Mode : ChooseMode(m)) \/ Confirm
  BY <1>4, <1>7 DEF ChooseMode, Confirm, CommitMode
<1> QED
  BY <1>1, <1>2, <1>3, <1>5, <1>6, <1>7 DEF Pressed

\* A step of the staged test or of the session starts neither.
LEMMA OwnStep ==
    ASSUME TypeOK, [Next]_vars, ~Pressed
    PROVE  /\ panel' = "running" => panel = "running"
           /\ \A a \in Attempt : Running(a)' => Running(a)
<1>1. panel' = "running" => panel = "running"
  BY DEF Next, Pressed, Opened, Advance, Finish, Closed, SessionFails, SessionEnds, StopPanel, vars
<1>2. ASSUME NEW a \in Attempt, (\E ok \in BOOLEAN : Opened(a, ok)) \/ Advance(a)
      PROVE  \A b \in Attempt : Running(b)' => Running(b)
  BY <1>2 DEF Opened, Advance, Running, Measuring, TypeOK
<1>3. ASSUME NEW a \in Attempt, (\E end \in {"done", "aborted", "error"} : Finish(a, end)) \/ Closed(a)
      PROVE  \A b \in Attempt : Running(b)' => Running(b)
  BY <1>3 DEF Finish, Closed, Running, Measuring, Phases, TypeOK
<1>4. CASE SessionFails \/ SessionEnds \/ UNCHANGED vars
  BY <1>4 DEF SessionFails, SessionEnds, vars, staged, Running, Measuring
<1> QED
  BY <1>1, <1>2, <1>3, <1>4 DEF Next, Pressed

LEMMA AloneStep ==
    ASSUME Inv, [Next]_vars, unseen' = {}
    PROVE  Alone'
<1> SUFFICES ASSUME panel' = "running"
             PROVE  \A a \in Attempt : ~Running(a)'
  BY DEF Alone
<1>i. TypeOK /\ Staged /\ Alone
  BY UnseenGrows DEF Inv
<1>1. CASE ~Pressed
  BY <1>i, <1>1, OwnStep DEF Alone
<1>2. CASE Pressed /\ panel = "running"
  <2>1. \A a \in Attempt : tests'[a].pc = tests[a].pc
    BY <1>i, <1>2, NoStartBesideSession DEF Abort, staged, TypeOK
  <2> QED
    BY <1>i, <1>2, <2>1 DEF Alone, Running, Measuring
<1>3. CASE Pressed /\ panel # "running"
  <2>1. UNCHANGED staged /\ ~busy
    BY <1>3 DEF Pressed, HeroButton, PanelButton, Space, TogglePanel, ToggleGraph, Navigate, Show,
                ChooseMode, Decline, Confirm, StopPanel, page
  <2> QED
    BY <1>i, <2>1 DEF Staged, Matched, Underway, Running, Measuring, staged
<1> QED
  BY <1>1, <1>2, <1>3

-----------------------------------------------------------------------------
LEMMA InitInv == Init => Inv
<1> SUFFICES ASSUME Init PROVE Inv
  OBVIOUS
<1>1. TypeOK
  BY DEF Init, TypeOK, Unused, Path, Mode
<1>2. \A a \in Attempt : tests[a] = Unused /\ ~Running(a) /\ ~Measuring(a)
  BY DEF Init, Running, Measuring, Phases, Unused
<1>3. Staged
  BY <1>2, ClientAssumption DEF Init, Staged, Matched, Underway, Running, Unused
<1>4. Recorded
  BY <1>2 DEF Init, Recorded, Unused
<1>5. Alone
  BY <1>2 DEF Alone
<1> QED
  BY <1>1, <1>3, <1>4, <1>5 DEF Inv

LEMMA StepInv == Inv /\ [Next]_vars => Inv'
<1> SUFFICES ASSUME Inv, [Next]_vars
             PROVE  Inv'
  OBVIOUS
<1>1. TypeOK'
  BY TypeStep DEF Inv
<1>2. "opened" \notin unseen' => Staged' /\ Recorded'
  BY StagedStep
<1>3. unseen' = {} => Alone'
  BY AloneStep
<1> QED
  BY <1>1, <1>2, <1>3 DEF Inv

LEMMA Invariant == Spec => []Inv
BY InitInv, StepInv, PTL DEF Spec

(***************************************************************************)
(* Every field of the controller, the panel and the page keeps its type,   *)
(* on every visit (test-controller.ts, monitor-panel.ts, app.ts).          *)
(***************************************************************************)
THEOREM TypeCorrect == Spec => []TypeOK
BY Invariant, PTL DEF Inv

(***************************************************************************)
(* The start button and the block on the continuous session tell the truth *)
(* about the staged test, on every visit and whatever is pressed, until a  *)
(* press of the space key or auto_start meets a run being opened           *)
(* (test-controller.ts:151-206).                                           *)
(***************************************************************************)
THEOREM ButtonsTellTheTruth == Spec => []ControlsMatch
<1>1. Inv => ControlsMatch
  BY DEF Inv, Staged, Matched, ControlsMatch
<1> QED
  BY <1>1, Invariant, PTL

(***************************************************************************)
(* Until then a run is closed by the test that opened it, after it         *)
(* completed and while nothing moves bytes for it                          *)
(* (test-controller.ts:361-380).                                           *)
(***************************************************************************)
THEOREM RunsAreClosedByTheirTest == Spec => []ClosesOwnRun
<1>1. Inv => ClosesOwnRun
  <2> SUFFICES ASSUME Inv, "opened" \notin unseen, NEW c \in closes
               PROVE  /\ c.run = c.by
                      /\ tests[c.by].end = "done"
                      /\ \A a \in Attempt : Measuring(a) => tests[a].run # c.run
    BY DEF ClosesOwnRun
  <2>1. Recorded /\ c.by \in Attempt
    BY DEF Inv, TypeOK
  <2>2. c.run = c.by /\ tests[c.by].end = "done" /\ tests[c.by].pc \in {"closing", "over"}
    BY <2>1 DEF Recorded
  <2>3. ASSUME NEW a \in Attempt, Measuring(a), tests[a].run = c.run
        PROVE  FALSE
    <3>1. tests[a].run \in {None, a}
      BY <2>1, <2>3 DEF Recorded, Running
    <3>2. a = c.by
      BY <2>1, <2>2, <2>3, <3>1, ClientAssumption
    <3> QED
      BY <2>2, <2>3, <3>2 DEF Measuring, Phases
  <2> QED
    BY <2>2, <2>3
<1> QED
  BY <1>1, Invariant, PTL

(***************************************************************************)
(* "One link, so one test at a time" (app.ts:146), however many tests are  *)
(* started, on every visit and in whatever order its controls are used,    *)
(* until one of them starts a test over what it does not look at.          *)
(***************************************************************************)
THEOREM OneLinkOneTest == Spec => []OneTestIfSeen
<1>1. Inv => OneTestIfSeen
  BY DEF Inv, Staged, Alone, Running, OneTestIfSeen, OneStagedTest, LinkIsTheirs
<1> QED
  BY <1>1, Invariant, PTL
=============================================================================
