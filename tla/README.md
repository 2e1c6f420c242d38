# Megapet, specified

TLA+ models of megapet: a self-hosted speed test, made of a Go server that moves
bytes and records what it measured, and a web page that drives the link. The
modules here say what the concurrent parts of both promise, TLC checks that on
small instances, and TLAPS proves all of the safety that the runs check for every instance.

`PROJECT.json` lists components, runs, mutants, findings, hazards and theorems, and
maps each definition to the lines it models.

    tlc -config MCFront.cfg MCFront      # any MC module with any cfg named after it
    tlapm RunsProofs.tla                 # any module named ...Proofs

## 1. The system

| part | source | state it keeps | operations | talks to |
|---|---|---|---|---|
| Process, configuration | `cmd/megapetd/main.go`, `internal/config/` | the effective configuration | start, daily prune, graceful shutdown | all of the server |
| Routes | `internal/server/server.go`, `static.go` | none after start | answer a method and a path | handlers, built files |
| Address resolution | `internal/netutil/netutil.go` | the trusted prefixes | ClientIP, Anonymize, DirectURL | every handler that asks who calls |
| Stream limiter | `internal/speed/speed.go` | a total and a count per address, under a mutex | Acquire, the once-only release | called by the transfer handlers |
| Measured session | `internal/session/session.go` | per direction: bytes, the countable window's marks, streams opened and open; the last touch | Begin, Add, End, Totals | transfer handlers add, the close handler reads |
| Run store | `internal/session/session.go` | the runs in progress, bounded and swept | Create (sweeps), Get, Close | API handlers, transfer handlers |
| Measurement endpoints | `internal/speed/speed.go` | a goroutine per request | Download, Upload, Ping | limiter, run store, session |
| Result API | `internal/server/api.go` | a goroutine per request | open run, close run, list, get | run store, result store, network information |
| Result store | `internal/store/store.go` | the SQLite table of results | Save, Get, List, Summarize, Prune | |
| Network information | `internal/ipinfo/ipinfo.go` | a bounded cache with expiry | Do | an outside provider |
| Certificate reloader | `internal/certs/reloader.go` | the pair served, its time, the last check | getCertificate, stale, reload | files another program rewrites |
| Test controller | `web/src/ui/features/test-controller.ts` | the SpeedTest, the run's id, the recording | run, abort, finish, persist | runner, API client, the page |
| Staged runner | `web/src/engine/runner.ts` | the phase, an AbortController | run, reverse, abort | phases |
| Transfer phases, meter | `web/src/engine/phases/`, `meter.ts` | the streams, retries, bytes after grace | run | server endpoints |
| Monitor | `web/src/engine/monitor.ts` | running, stopping, two legs, the timeline | start, stop, setDirections | phases, time series |
| Time series | `web/src/engine/series.ts` | bounded points, peaks | add, compact, clear | graph |
| Graph | `ui/features/monitor-panel.ts`, `ui/visuals/viewport.ts` | the stretch of time on show, the frame loop, the switches | zoom, pan, Follow, reset, Clear, draw | monitor, the controller's recording |
| Page | `web/src/ui/app.ts` and `ui/features/` | path, mode, the graph dialog, which button says what | start, stop, choose a mode, navigate | controller, monitor panel |
| Lift | `web/src/ui/visuals/lift/` and its gear | pointer, gear, belt, brake, car and its queue of orders | setValue, setDrive, land, ride, park, reset, a frame | the runner waits for its moves |

What is hard in it, and what makes each part correct:

- **Addresses.** Limits, runs and histories belong to an address, and the address is read out
  of headers that the client and any number of proxies wrote. Correct: nobody holds a slot in
  another's name, and behind proxies that are named a bound per address is one per client, for every
  client the operator does not trust himself.
- **Routes.** Patterns, the preflight, a metrics path the operator chooses and the fallback of two
  builds decide one after another. Correct: a path of the API is not answered with a page.
- **Limiter.** Streams of one and of several visitors start and end concurrently, a
  handler ends in many ways, and release is a function that may be called twice. Correct:
  the counters equal the streams served, and the limits are kept.
- **Session.** Streams read the clock before they get the lock, so times arrive out of
  order; End's time is older still, because Go evaluates a deferred call's arguments at the
  defer statement. Correct: the window's marks stay in order, nothing is overstated, and the
  figure is the one the history of reports gives.
- **Runs.** Close requests race each other, the streams of the run, the sweep that another
  visitor's request performs, and the end of the process. Correct: one row per run at most,
  the visitor's own traffic, the store bounded, a run with a stream at work never swept, a slot
  held for exactly as long as a request is served.
- **Results.** A row is saved after a lookup that takes time, under settings a later process may not
  have; rows are pruned on a period that starts over with the process. Correct: what is shown as
  mine is mine, old rows go, and no others.
- **Network information.** Lookups of one address overtake each other outside the lock, into a cache
  that evicts whatever comes first. Correct: the bound holds, an answer is about the address asked about and
  no older than the cache allows, a failure is not kept.
- **Certificates.** Two files are replaced one after the other by a program that knows
  nothing of the server, while several handshakes reload them. Correct: never half a pair,
  every handshake answered, a renewal eventually served.
- **Page.** Two kinds of test share one link, and the start button, the space bar, the graph's
  own button, the mode tabs with their question, back and forward and auto-start each decide
  for themselves; awaits open gaps between a guard and the flag it reads. Correct: one test at a
  time, a run closed by the test that opened it, buttons that say what runs.
- **Session on the page.** Two directions are switched on and off, fail and wind down on
  their own under one session that pauses and resumes. Correct: the link carries what the
  switches say, Stop ends it, the graph's timeline stays in order and forgets nothing.
- **Transfer phase.** Streams fail and retry on their own while the window ends and the
  caller may abort. Correct: a figure stands for a whole window without its ramp, one working
  stream is enough, nothing starts after the end, and there is an end.
- **Graph.** Two histories with clocks of their own, one loop of frames for whichever test runs,
  a last redraw when it ends. Correct: what stays on screen is the present state of the latest test, its legs
  apart, and the right edge does not go back.
- **Lift.** Pauses are fixed before the machine moves and run on the clock; the machine runs on
  frames, queues orders behind journeys and drops them on a reset. Correct: gear and belt end up in the drive set
  last, no throw under way, a measurement begins on a machine at rest, the loop ends.

## 2. The modules

    Admission  <--implements--  Limiter  <--EXTENDS---  Front
                                   ^
                                   +-------INSTANCE---  Runs  --implements-->  RunLedger
                                                         |
                                    SessionOps <--EXTENDS-+--  Session
    IpInfo <--EXTENDS-- Records        Timeline <--EXTENDS-- Monitor
    LiftMachine <--EXTENDS-- Lift      Certs     Client     Transfer     Plot

| module | models | state and actions |
|---|---|---|
| `Admission` | abstract: a server that decides by counting the streams it serves | Enter, TurnAway, Leave, GoAway |
| `Limiter` | `speed.Limiter` and the handlers as its callers | `active` and `counts` are the two fields; a stream is a request. `Acquire` and `Refuse` are the two outcomes of Acquire, `Release` any call of the returned function (only the first counts), `Forget` the end of the request. |
| `Front` | the way into the server: configuration, process, routes, the client's address, and the limiter keyed by it | `StartAnew` layers file, environment and flags (`Effective`), checks them and what they name (`Valid`, `Starts`) and derives the rest (`Normalized`), once all that ran before is gone; `Shutdown` and `Close` end the process. A `Transfer` arrives through a `path` of proxies, each of which appends its caller to X-Forwarded-For; `ClientIP` reads the result, in all its branches. `Answer` says who takes a method and a path. |
| `SessionOps` | `session.Session` as operators on a record | one operator per method. Zero times are 0, so the clock starts at 1. |
| `Session` | one run under concurrent streams | `BeginStream`, `DeferEnd` (where End's time is taken), `Move` (an Add), `EndStream`; `Tick` |
| `RunLedger` | abstract: what becomes of a run, and an append-only record of runs | OpenRun, EndRun, Record, GiveUp |
| `Runs` | limiter, sessions, store and both kinds of handlers together | a transfer is `Accept`/`Reject`, `LookUp`, `BeginStream`, `MoveBytes`, `EndStream`, `Release`; a close is `Close`, `ReadDown`, `ReadUp`, `Save` or `SaveFails`; opening a run is `OpenRun` (takes Store.mu), per session of the store `SweepActive`, `SweepIdle`, `SweepDelete`, then `Insert`; `Restart` is a crash or shutdown, and the next start |
| `IpInfo` | `ipinfo.Lookup` under concurrent requests | `Do` up to its first wait, `Fetched` or `FetchFails`, `Put` with its eviction |
| `Records` | results: lookup, save, list, prune, restart | a close is `CloseRun`, the steps of its lookup, then `Save` or `SaveFails`; `AskIP` and `Answer` are the other endpoint that looks up; `List` is what a listing may answer; `Prune`; `Restart` keeps the rows and draws new settings |
| `Certs` | `certs.Reloader` under handshakes | a handshake is `Begin`, `Stat`, `ReadCert`, `ReadKey`, `Restat`, `Install`, `Serve`; `Interval` lets the throttle expire; the renewal program writes with `StartRenewal`, `WriteCert`, `WriteKey`, at any moment; `missed` is history: the certificate was replaced between the load of the pair installed and the stat that dates it |
| `Client` | which test the page runs | a staged test is `Launch`, `Opened`, `Advance`, `Finish`, `Closed`, cut by `Abort`; a session is `TogglePanel`, `SessionFails`, `SessionEnds`; one action per control; `setting` is the visit: the options the server has on and the controls the visitor uses; `unseen` is history: what a start has met that its control does not look at, a run being `"opened"` or a `"session"` |
| `Timeline` | `series.TimeSeries`, the times of its points | operators for add and compact |
| `Monitor` | a continuous session with its two legs | the button is `Start` and `Stop`, a switch is `Flip`; a leg `Report`s, `LegEnds` or `LegFails`; `Sample` is the interval; `Clear` |
| `Transfer` | one throughput phase | a stream is `Move`, `Complete`, `Fail`, `Wake`; `Ticker` is the interval, `CallerAborts` the signal; what `run` does at the end is part of the step that ends the last stream |
| `Plot` | the graph: both histories, the choice between them, the frame loop, the view | `BeginRun`, `Snapshot`, `EndRun` for a staged test, `StartSession`, `Sample`, `EndSession` for the other; `Flip`, `Clear`, `Zoom`, `Pan`, `SetFocus`, `Reset` for the visitor. `picture` is what was drawn last, when no frames follow. |
| `LiftMachine` | pointer, gear, belt, brake, car and orders as operators on a record | one operator per method; `Update` is a frame |
| `Lift` | the machine, its frame loop and the staged test that drives it | `Beat` is half a second of the clock, with frames or without; `Start`, `Opened`, `Probe`, `Turnabout`, `Measure`, `Reading`, `Done`, `Interrupted` are the test |

How they meet. `Front` is the limiter with addresses that were found rather than given, so all
that holds of `Limiter` holds of it; `Runs` takes the address as given and adds what is
done under a slot; `Records` takes up where a close of `Runs` has its totals. `Monitor` spawns a
`Transfer` without a window per leg and sees of it only that it ends after an
abort (`PhaseEnds`) or fails without one; `PhaseIsALeg` proves that it has no other ends. `Client` sees of a `Monitor` only
whether a session is idle, running or stopping; `Plot` and `Lift` rely on `Client` for one test at
a time.

Granularity. On the server, a step ends where a goroutine takes a lock another may hold
or talks to the outside: the critical sections of Acquire, Create, Get, Close, Begin, Add,
End, Totals and of the two halves of an address lookup are one step each, and so is an SQL
statement. Only Create takes locks within its own: it holds Store.mu while its sweep takes each session's twice (for
`Active`, for `Idle`) and deletes afterwards, so `opening` says how far it is, Get and Close wait, and Begin, Add and End do not. On the page, JavaScript runs to completion between awaits: a step is an event
handler or the code between two awaits.

Abstractions. Amounts and times are small whole numbers. A reading of the clock may be up to
`Lag` older than the step that uses it, and a goroutine's own readings never run backwards.
Throughput is not computed: a row is worth storing when bytes and window are positive, which
is when `Mbps` is. In `Totals` the division is the truncating one of the code's conversion to
int64. Identifiers are drawn from a set and never drawn twice (`newID` has 128 bits). In
`Runs` the row's labels and network information are left out. In `Records` an address is a number and its
network the multiple of `Hosts` below it, a run is when it was started, and what the provider says
is about whom and when; the real address of a row is a history field. In `Front` an address parses or does not, a configuration has the fields
something else looks at, and the paths are representatives of each pattern and of each branch of the fallback.
`Limiter.Forget` only makes a request's name free
again. In `Certs` a modification time is the number of the write that set it, so a later write is newer, and
"less than `checkInterval` ago" is a flag. In `Client` the figures and the choice of a server are left
out. In `Monitor` and `Transfer` a byte is whatever one report adds; rates are left out. In `Plot` a reading is
whether a direction carries anything and lengths are rounded down. In the lift, where a fall or a journey has got to is any place on its way: the easing is open.

A definition marked "mutant" in a comment is a broken variant of the one after it, which
the model itself never uses: putting it in the place of the real one makes the property named
with it in `PROJECT.json` fail.

## 3. What is checked

| run | instance | shows |
|---|---|---|
| `front` | 2 visitors, 2 proxies, 3 streams, 1 per address, 2 in total; 3 chains of proxies, headers forged or not, 8 settings of each source | limits kept; slots in the name of whoever has them and a bound per client behind named proxies, for clients not trusted themselves; which path of the API gets the page; refinement of `Admission`. One visitor claims to be the other one and a proxy; the operator names one proxy, both, none, a prefix that takes in a visitor, or something that is no address; the metrics may be put where an endpoint is; a start may be refused for what is configured and for what is broken. |
| `session` | 2 streams, 5 reports of 1 or 2, clock to 4, Grace = Drain = Lag = 1 | window marks in order under late clock readings; totals never overstate; totals equal `ReferenceTotals`, which recomputes them from the whole history of reports. Five reports give a ramp, an opening report, an interior and a drain, with one left for the other direction. |
| `runs` | 2 runs in a store for one (its default), 1 stream at a time of 2, 2 close requests, lifetime 0, clock to 2, 1 restart | both closers race each other, the stream and the sweep, whose three steps per run a stream may begin and end between; a cut at every step and saves that fail; refinement of `RunLedger`. The second client is the zero address, which quotes the run and must not reach it. |
| `records` | 2 networks, a visitor at the network's own address, the zero address; 2 requests, a cache for one, 1 restart after an outage of 2, clock to 3 | the cache stays bounded and its answers right while both requests look the same or different addresses up; privacy settings change under saved rows; a prune fails, or is missed while the server is down |
| `certs` | 2 handshakes, 2 renewals, 4 writes, fair | half-written and missing files, the key before or after its certificate, both handshakes reloading at once, writes also between a load and its stat |
| `certs_missed` | the same | expects a violation, see below |
| `client` | 3 attempts; a visit for each combination of the two options, every control in use | one test at a time, a run closed once by the test that opened it, buttons that say what runs, each until a start has met what its control does not look at. A visit that uses fewer controls has only some of these behaviours. |
| `monitor` | both directions, a history of 4 points, clock to 5, fair | switches, failures, pauses and compaction together. Five samples compact the history, and a later stint may begin over the merged points (`MaxStart`). |
| `transfer` | 2 streams, windows of 2 and none, grace 1 and 3, fair | retries, window and abort in any order. Grace 3 is longer than the window. |
| `lift` | a dial of 3 levels, the proportions of `tempo.ts`, fair | any number of tests, ended in any way at any moment, with frames missing |
| `plot` | 2 tests, histories of 6 points, clock to 5, 1 gesture | late and throttled snapshots, compaction, a switch of servers, Clear, the switches and the view |
| `client_space` | 2 attempts on the default visit, with a store and the space key | expects a violation, see below |

Bounds. `MaxTime`, `MaxClock`, `MaxReports`, `MaxSent`, `MaxRestarts`, `MaxVersion`, `MaxWrites`, `MaxStart`, `MaxBytes`, `MaxMoved`,
`MaxTests` and `MaxGestures` are each in the guard of the action that would pass them; `lift` has none. The constraint
`Claimed` of `client` cuts off what follows a start that met a run being opened: no property says anything from there on. Two of
each kind of actor suffice for the races described: none of them needs a third party, except a limit
that is full twice, which gets three streams, and the page's attempts, of which one may overlap,
follow or overwrite another and a third be affected. In `runs` Grace and Drain are 0 and every report counts, so that rows
exist after two bytes, and the streams follow one another; `session` has the real window and concurrent streams, and the
theorems about `Runs` have any number of them.
A cache for one evicts on every second put; its larger sizes, of which a quarter is dropped, are left to the proof.

Deadlock is checked in `front`, `certs` and `lift`. The others set CHECK_DEADLOCK FALSE because their
systems do stop: requests and attempts are made once each, and the clock is bounded.

Fairness. `Certs`: weak fairness of each handshake's steps, of the throttle running out, of handshakes that
keep coming and of the renewal program finishing what it started (only then is there a renewal to pick up). `Monitor`: weak
fairness of the end of an aborted leg, which `PhaseEnds` of `Transfer` is about. `Transfer`: of the clock and the
interval, of a sleep's end, and of the end of a request whose signal aborted; none of a request
otherwise, which may hang for as long as it likes. `Lift`: of a beat with a frame, which a browser gives a page that is
looked at; `ComesToRest` says nothing of one that never is again. `Front`, `Session`, `Runs`, `Records`, `Client` and `Plot` are
checked for safety only. That a close of a run is answered is not claimed: its handler reads the visitor's labels after it has
taken the run (`api.go:136-143`), the server has no read timeout for a body (`main.go:124-126`), and a visitor who stalls
there keeps the handler, and the run out of the store, for as long as he likes.

### Where the code does something else

Three findings, each of them the property of a run:

- `client_space`: a second press of space while the run of the first one's test is being opened starts a second
  test, for `run()` guards on a field that it sets after the await (`test-controller.ts:149`).
- `certs_missed`: a renewal between a load and the stat that dates it (`reloader.go:82-90`) is taken for the one loaded,
  and the old certificate stays until the next write. `RenewalPickedUp` says what is kept: this is the only way to miss one.
- `front`: the bare path `/api/` loses its slash to `path.Clean` (`static.go:66`) and gets the page, with a 200, against the
  comments at lines 63 and 77. `OnlyBareApiIsAPage` has it as the code does: this path does and no other one of the API.

What `unseen` of `Client` exempts, which is each start that does not look at what runs. A run being opened (`"opened"`) is met by

- the space key, as above, with a store;
- auto_start, when the mode tabs or back and forward return to the speed test page (`app.ts:240`), with a store. After either,
  both tests share the controller's `runId`, and `ClosesOwnRun` and `ControlsMatch` fail with `OneStagedTest`.

A session (`"session"`) is met by

- the graph's start button, which is the staged test's in auto mode (`app.ts:142`), after back or forward changed the mode
  without asking;
- auto_start, on a visit to the speed test page (`app.ts:240`).

Stop pressed while a test's run is being opened is lost, as there is no SpeedTest to abort yet (`test-controller.ts:143`);
`Abort` has that, and no property of `Client` promises that a test stops.

`SweepSparesActive` is about the requests that move bytes since before a sweep. A Begin that falls between the sweep's two
looks at its run, or between them and the delete (`session.go:321-332`), has no protection: the stream goes on counting for a
run that is no longer in the store. The models have it, and no comment claims otherwise.

`SlotsAreOwn` and `ClientWithinLimit` leave out clients whose own address is trusted: the prefixes of `configs/megapet.example.json:4`
take in every visitor of a LAN, who may then name anybody, and the branches of `ClientIP` for X-Real-IP and for a chain of nothing
but trusted hops are about them.

`ReadyToMeasure` and `ThrowsAtRest` are about tests that get their frames (`late`): in a page in the
background the pauses pass and the machine does not move, and the lift is then thrown and measured on as it stands.

`Monitor` assumes that an aborted transfer ends before the next event, which is how fetch and
XMLHttpRequest settle what is pending when the signal fires; only `Flip` relies on it (`Settled`).

Met while modelling, in the models, and not what a line of the repository rules out precisely enough to check:

- Stop in a download or a reversal can leave the car above the ground floor
  (`test-controller.ts:213`): the ride home lasts for its distance, less than the fall of the pointer, and the
  open belt carries the car up again with it.
- Clear empties the session's history also while the recording of the staged tests is on show, and leaves
  the anchor of the window; a zoom about the right edge can leave the window past the newest reading, which a pan cannot.
- A first staged test after a session shows the finished session's history, with its clock running on, until the run is
  opened and the first sample recorded (`monitor-panel.ts:396-402`).
- `defer sess.End(d, time.Now())` reports the time the transfer *began* (`speed.go:174`), so a run idle for a
  moment counts as idle since then.
- A run opened on another server is closed on this one (`test-controller.ts:161` and `380`).
- `metrics.path` set to a registered route makes the process panic as it starts (`Starts`).
- `checked` is only written by a reload that succeeds, so a broken pair is stat'ed on every handshake.

Met by reading, in parts that are not modelled: `handleConfig` advertises `direct.url` also where `direct.enabled`
is off (`api.go:52`, against `docs/configuration.md`); `selectClosestPeer` and `offerDirect` decide after awaits and
may overwrite a server the visitor has chosen meanwhile (`app.ts:428-475`); the size asked for is shifted before it is clamped,
and a large one overflows (`speed.go:304`); `grace_seconds` is checked against `download_seconds` only, and
`download_streams` not at all against `max_streams_per_ip`.

## 4. What is proved

For all values of the constants, under the modules' named assumptions (sets are disjoint, bounds are whole
numbers, the history's capacity is even as `CAPACITY` is, a run and its lookup are shorter than the
retention, a sweep of the lift's needle is over within the pause of a
reversal, as 1600 ms are within 5150 in `tempo.ts`). Every module of proofs has an inductive invariant, which is what it is about:

- **Limiter** (`FrontProofs`, first part): TypeOK, Accounting and WithinLimits, and that Limiter implements Admission. The
  invariant `IInv` adds to them that the streams in flight are a finite set, without which
  their cardinality is not a number and the counters could not be compared with it. The key
  lemma, `CountIsHeldBy`, reads the map as Go does (absent is zero) and identifies it with the
  cardinality of the streams an address holds; `AcquireHeld` and `ReleaseHeld` say how that set
  changes. For the refinement, `FullIsNoRoom` shows that the code's test of counters and the
  abstract test of streams agree, and each step maps to an abstract one or to a stutter (a
  second release is one).
- **Front** (`FrontProofs`, second part): WithinLimits, SlotsAreOwn, ClientWithinLimit, OnlyBareApiIsAPage. `FrontIsLimiter` shows that
  the server is a limiter whose addresses are found, which carries the theorems of the first part over. `AddressFound` is the
  heart: for a chain of proxies of any length, any prefixes and any header the client made up, what is found is the peer or, past trusted
  ones, the closest untrusted hop, which is an untrusted client itself or, where some proxy is not named, that proxy. It needs the last
  and the first of a finite set of positions, which exist by well-founded induction over its subsets (`LastPosition`, `FirstPosition`).
- **Session** (`SessionProofs`): TypeOK, OpenIsStreams, WindowSound, TotalsSound, MatchesHistory. The first three are inductive together with the
  finiteness of the streams. `AddLegSound` is the heart: whatever time a report carries, the
  window opens only after Grace and its byte marks stay in order. TotalsSound follows from
  WindowSound by `SoundTotals`, which rests on the arithmetic of `Scaled` (a fraction of a count is no
  more than the count). MatchesHistory says that the running figures are those `ReferenceTotals` computes from the whole log; its
  recursive sums are reasoned about one report at a time, with an `Induction` lemma that takes the set of numbers a fact
  holds of in the place of a predicate, so that well-founded induction over the naturals proves it.
- **Runs** (`RunsProofs`): every property of the run, and StoreBounded and OpenCountsRequests besides. The invariant
  couples four views of a run: what became of it (`Fates`), the close request that has it (`Claims`, `Sole`: at most one), the row it left
  (`RowsSound`), and the streams at work for it (`Counted`, `Stages`). None of the properties is inductive alone: that a row
  is the only one needs that its closer is, which needs that a run once taken is not in the store; that a sweep
  spares the streams it found at work needs that the open count is the number of requests between Begin and End (`Counted`), that
  what the sweep has found idle has none of them (`Sparing`), and that nothing leaves the store while the sweep holds it (`Locked`);
  and that a row of a run nobody held stays what its session says needs all of it.
- **Records** (`RecordsProofs`): every property of the run. `Lookups` bounds how old what each request knows is, step by step of its
  lookup, and how long ago the run it closes was started, which makes a row younger than the retention when
  it is saved, so that the prune that follows does not take it (LinksResolve) and the next prune's promise covers it
  (RetentionKept). `Cached` bounds the age of an entry and the size of the map, whatever is dropped (`RoomForOne`). MineIsMine rests on
  what a row may hold (`RowSound`) under any settings, and on the network of a network being itself.
- **Certs** (`FrontProofs`, third part): ServesWholePair, with writes at any moment, also between a load and its stat: what a handshake
  is about to install was compared with its key while both were on disk (`Loaded`).
- **Transfer** (`EngineProofs`, second part): TypeTransfer, RampExcluded, FigureForWholeWindow, NothingAfterTheEnd. Neither property of the
  figure is inductive. A figure is whole because the streams stop for two reasons only
  (`StoppedForAReason`: the window is over and the figure taken, or the caller aborted), and a stream that has
  not given up has failures left (`FailuresLeft`). It excludes the ramp because until it is taken
  the ramp lies before the mark (`RampBeforeMark`), so that marking at the capture is in time
  (`CaptureExcludesRamp`). `Still` says that a phase that has ended does nothing more. The last stream's end
  settles the phase in the same step; `BecomesKeeps` does that once for the four ways a stream goes on.
  `PhaseIsALeg` joins the two models of the engine: each step of a phase without a window is one Monitor has for
  a leg (a report, its abort, `LegEnds`, `LegFails`).
  That they end at all is liveness, and stays with `PhaseEnds`.
- **Monitor** (`EngineProofs`, first part): every safety and action property of its run. SwitchesHonoured needs `AbortedAreOff` (a leg that
  winds down in a session nobody stopped was switched off, so its end restores the
  agreement); MovedKept needs `Sound` (a leg without a controller has put its bytes away, so that
  zeroing its tick loses nothing). The timeline rests on `CompactKeeps` and `AddKeeps`: halving a
  history keeps its order, its first point and an odd one's last point; with an even capacity the
  point that overfills it is an odd one, so the newest sample survives. `SettleKeeps` covers the three
  actions that may end a session.

- **Client** (`ClientProofs`): OneTestIfSeen, ClosesOwnRun and ControlsMatch on every visit, for any number of attempts. `Staged` ties
  the controller to the attempts (one at most runs, and `test` is the one that measures), `Recorded` says whose run each test and each
  close has; both hold until a start has met a run being opened, which each start that does not look takes note of (`BlindStart`).
  `Alone` (no session beside a test) holds until a start has met either; `SessionMet` and `NoStartBesideSession` go through the controls.
- **Plot** (`PlotProofs`): every property of its run. `Alone` (one test as far as the panel sees) and PictureIsCurrent are
  inductive; `Clocked` adds that no history was written in the future and that the one written later is the one whose
  test was the latest, which is LatestIsShown; `Spaced`, that a running test's clock is at or past the last point of its history,
  which ClockMovesOn needs whenever a point is added, merged or the edge changes from the one source to the other; `Floors`, that the
  last sample of a recording belongs to the phase that runs, so that the next leg's first sample meets a floor (LegsApart).
- **Lift** (`LiftProofs`): SeatFollowsDrive, ThrowsAtRest and ReadyToMeasure. `Sound` is about the machine alone, and every
  command and every frame keeps it: the needle is at its stop or on its way there with time left (`Falls`), nothing
  is queued unless the car rides, belt and gear agree, and the drive is the one the orders will leave the gear in
  (`Wanted`, the form in which one order more and one order carried out can be compared). `DrainKeeps` carries that through the queue by induction on
  the number of orders obeyed, since a ride among them makes the rest queue again. On top of it, `Timely` says for each phase
  of a test that gets its frames what the machine has left to do and that it fits into what is left of the pause
  (`InTime`): the opening pause holds the needle's fall and the ride home, the probes' pause the ride up, a reversal's pause the
  landing, the throw and the fall. ThrowsAtRest follows because the throw waits behind the landing, ReadyToMeasure because a
  pause that is over leaves nothing.

Model-checked only: liveness under fairness (RenewalPickedUp, StopEndsSession, PhaseEnds, ComesToRest), which TLAPS does not do. Every other property of a passing run is a theorem.

Changes to the models came out of the proofs. `Lift` names the assumption that ThrowsAtRest and ReadyToMeasure rest on
(`TempoAssumption`): a slower needle would outlast the pause of a reversal and be measured on while it falls. `Client` and `Certs` record
in a history variable what their code overlooks, instead of leaving it out of the instances.

## 5. Not modelled, and why

- Latency phase: probes one after another and statistics. In `Client` it is one phase that ends in any way.
- Metrics: atomic counters that are added to and printed. Share card and panel, history panel, tiles,
  labels: formatting of what the other parts hold.
- The API client: one fetch per call; its outcomes are those of the awaits in `Client`.
- Belts, gears, ropes and linkages (`web/src/mech/`), the dial, the curves and easing of the graph: real-valued drawing without
  states anything waits for. Rates, averages and peaks of the series: real numbers.
- `fit()` of the viewport and `Store.Sweep` are never called. `Summarize` is one SQL query.
- The choice of the closest server and the offer of a direct one: which server a test goes to is any
  choice in `Client`.
- Builds, deployment, the configuration of proxies: other programs, of which `Front` has the header they append.
- A client that stops reading keeps its slot (there is no write timeout, on purpose): a transfer of `Runs` may rest for
  ever, and no liveness is claimed for transfers, nor for a close whose body never arrives.

## 6. The plan

Done: limiter, session, runs, certificates, the page's tests, the continuous session and the transfer phase; the
network information, results, the front of the server, the lift and the graph; proofs of every safety and action property the
runs check.

Left: the two legs' phases as variables of `Monitor`, of which `PhaseIsALeg` shows each on its own; the choice of a server on
the page with the awaits it decides after; the order in which `measureLatency` probes, warms up and aborts.
