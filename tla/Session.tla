------------------------------ MODULE Session ------------------------------
(***************************************************************************)
(* One run and the streams that report to it.  Each download or upload     *)
(* request (internal/speed/speed.go) is a goroutine that begins, moves     *)
(* bytes and ends under Session.mu, with a time it read from the clock     *)
(* before it got the lock: two streams may report their times out of       *)
(* order.  The time of End is older still, since Go evaluates the          *)
(* arguments of a deferred call at the defer statement.                    *)
(***************************************************************************)
EXTENDS SessionOps, FiniteSets, Sequences

CONSTANTS Stream,   \* the requests that quote this run
          Lag,      \* longest delay between reading the clock and the lock
          Amount,   \* bytes one Write or Read may move
          MaxTime,  \* bound on the clock
          MaxReports \* bound on the reports to the session

ASSUME StreamAssumption ==
    /\ Lag \in Nat
    /\ Amount \subseteq Nat \ {0}
    /\ MaxTime \in Nat \ {0}
    /\ MaxReports \in Nat

VARIABLES now,      \* the clock
          session,  \* the Session
          pc,       \* where each stream is
          dir,      \* the direction it transfers in
          since,    \* when it took its last step
          deferred, \* the time its deferred End will report
          log       \* history: each direction's reports, in lock order

vars == <<now, session, pc, dir, since, deferred, log>>

(***************************************************************************)
(* "begun": Begin has returned and the defer statement is next; "moving":  *)
(* the transfer loop.                                                      *)
(***************************************************************************)
PC == {"idle", "begun", "moving"}

Report == [n : Nat, t : Nat]

\* What time.Now() may have returned to a stream that gets the lock now.
Stamps(s) == {t \in since[s]..now : now - t <= Lag}

Noted(d, n, t) == [log EXCEPT ![d] = Append(@, [n |-> n, t |-> t])]

Reports == Len(log["down"]) + Len(log["up"])

Init ==
    /\ now = 1
    /\ session = NewSession(1)
    /\ pc = [s \in Stream |-> "idle"]
    /\ dir \in [Stream -> Dir]
    /\ since = [s \in Stream |-> 1]
    /\ deferred = [s \in Stream |-> 0]
    /\ log = [d \in Dir |-> << >>]

Tick ==
    /\ now < MaxTime
    /\ now' = now + 1
    /\ UNCHANGED <<session, pc, dir, since, deferred, log>>

\* A request of the run reaches its handler.
BeginStream(s) ==
    /\ pc[s] = "idle"
    /\ Reports < MaxReports
    /\ \E t \in Stamps(s) :
          /\ session' = Begin(session, dir[s], t)
          /\ log' = Noted(dir[s], 0, t)
    /\ pc' = [pc EXCEPT ![s] = "begun"]
    /\ since' = [since EXCEPT ![s] = now]
    /\ UNCHANGED <<now, dir, deferred>>

\* defer sess.End(direction, time.Now())
DeferEnd(s) ==
    /\ pc[s] = "begun"
    /\ deferred' = [deferred EXCEPT ![s] = now]
    /\ pc' = [pc EXCEPT ![s] = "moving"]
    /\ since' = [since EXCEPT ![s] = now]
    /\ UNCHANGED <<now, session, dir, log>>

Move(s, n) ==
    /\ pc[s] = "moving"
    /\ Reports < MaxReports
    /\ \E t \in Stamps(s) :
          /\ session' = Add(session, dir[s], n, t)
          /\ log' = Noted(dir[s], n, t)
    /\ since' = [since EXCEPT ![s] = now]
    /\ UNCHANGED <<now, pc, dir, deferred>>

EndStream(s) ==
    /\ pc[s] = "moving"
    /\ session' = End(session, dir[s], deferred[s])
    /\ pc' = [pc EXCEPT ![s] = "idle"]
    /\ deferred' = [deferred EXCEPT ![s] = 0]
    /\ since' = [since EXCEPT ![s] = now]
    /\ UNCHANGED <<now, dir, log>>

Next ==
    \/ Tick
    \/ \E s \in Stream :
          \/ BeginStream(s)
          \/ DeferEnd(s)
          \/ \E n \in Amount : Move(s, n)
          \/ EndStream(s)

Spec == Init /\ [][Next]_vars
-----------------------------------------------------------------------------
TypeOK ==
    /\ now \in 1..MaxTime
    /\ session \in Session
    /\ pc \in [Stream -> PC]
    /\ dir \in [Stream -> Dir]
    /\ since \in [Stream -> 1..now]
    /\ deferred \in [Stream -> 0..now]
    /\ log \in [Dir -> Seq(Report)]

OpenStreams(d) == {s \in Stream : pc[s] # "idle" /\ dir[s] = d}

(***************************************************************************)
(* The open count is the streams between Begin and End, so a run is active *)
(* exactly while a stream of it is: it neither goes negative nor stays     *)
(* positive after the last stream, and the sweep can rely on it            *)
(* (session.go:153-172, 215-220).                                          *)
(***************************************************************************)
OpenIsStreams == \A d \in Dir : session.legs[d].open = Cardinality(OpenStreams(d))

(***************************************************************************)
(* The marks of the countable window are consistent however the streams'   *)
(* clock readings interleave: no window before the ramp has passed, and    *)
(* the bytes at its start, at its end and in all are in order              *)
(* (session.go:135-150).                                                   *)
(***************************************************************************)
LegSound(l) ==
    /\ l.from = 0 => l.until = 0 /\ l.fromByte = 0 /\ l.byteAt = 0
    /\ l.from # 0 => /\ l.started # 0
                     /\ l.from - l.started >= Grace
                     /\ l.fromByte <= l.byteAt
                     /\ l.byteAt <= l.bytes

WindowSound == \A d \in Dir : LegSound(session.legs[d])

(***************************************************************************)
(* What Totals reports is an honest interior of the transfer: never more   *)
(* bytes than were counted, and never a window that reaches into the ramp  *)
(* or the drained tail (session.go:174-206).                               *)
(***************************************************************************)
TotalsSound ==
    \A d \in Dir :
        LET l == session.legs[d]
            total == Totals(l)
        IN  /\ total.measured \in 0..l.bytes
            /\ total.window >= 0
            /\ total.window > 0 => total.window + Grace + Drain <= l.until - l.started

(***************************************************************************)
(* What one direction's reports, in the order of the lock, say was moved.  *)
(***************************************************************************)
\* The bytes of the first i reports.
Moved(reports) ==
    LET sum[i \in 0..Len(reports)] == IF i = 0 THEN 0 ELSE sum[i - 1] + reports[i].n
    IN  sum

Carrying(reports) == {i \in DOMAIN reports : reports[i].n > 0}

\* The reports of bytes that come at least Grace after the first report.
Settled(reports) == {i \in Carrying(reports) : reports[i].t - reports[1].t >= Grace}

HistoryTotals(reports) ==
    LET first == CHOOSE i \in Settled(reports) : \A j \in Settled(reports) : i <= j
        last  == CHOOSE i \in Carrying(reports) : \A j \in Carrying(reports) : j <= i
        full  == reports[last].t - reports[first].t
        kept  == full - Drain
        moved == Moved(reports)[last] - Moved(reports)[first]
        none  == Settled(reports) = {} \/ kept <= 0
    IN  [bytes    |-> Moved(reports)[Len(reports)],
         streams  |-> Cardinality(DOMAIN reports \ Carrying(reports)),
         measured |-> IF none THEN 0 ELSE (moved * kept) \div full,
         window   |-> IF none THEN 0 ELSE kept]

(***************************************************************************)
(* The marks kept while bytes move give exactly the figure that the whole  *)
(* history of reports defines: the bytes after the first report past the   *)
(* ramp, scaled to the window without its tail.  What streams report       *)
(* concurrently is neither lost nor counted twice (session.go:128-206).    *)
(***************************************************************************)
MatchesHistory ==
    \A d \in Dir : Totals(session.legs[d]) = HistoryTotals(log[d])
=============================================================================
