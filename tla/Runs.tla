-------------------------------- MODULE Runs --------------------------------
(***************************************************************************)
(* The measurement server: clients open runs, move bytes through download  *)
(* and upload requests that quote a run, and close runs, all concurrently. *)
(* Composes the limiter (Limiter.tla) and the accounting of a run          *)
(* (SessionOps.tla) with the handlers of internal/speed and                *)
(* internal/server/api.go, the session store and the result store.         *)
(*                                                                         *)
(* Each request is a goroutine.  A step of it ends where it takes a lock   *)
(* another goroutine may hold or talks to the outside; between two steps   *)
(* every other request may run.  A session outlives its entry in the store *)
(* for the requests that still hold it.                                    *)
(***************************************************************************)
EXTENDS SessionOps, FiniteSets, Sequences

CONSTANTS Addr,         \* valid client addresses
          Invalid,      \* the zero netip.Addr
          PerIP,        \* limits.max_streams_per_ip
          Total,        \* limits.max_streams_total, which also bounds the runs
          DefaultLimit, \* the runs allowed when Total is not positive
          Lifetime,     \* how long a run may be idle
          StoreEnabled, \* whether results are stored at all
          Run,          \* the identifiers newID may return
          NoRun,        \* a request that quotes no run, or none that is known
          Stream,       \* download and upload requests, each made once
          Closer,       \* close requests, each made once
          Lag,          \* longest delay between reading the clock and a lock
          Amount,       \* bytes moved at once
          MaxSent,      \* bound on the bytes of one request
          MaxTime,      \* bound on the clock
          MaxRestarts   \* bound on the restarts of the server

ASSUME RunsAssumption ==
    /\ NoRun \notin Run
    /\ PerIP \in Int
    /\ Total \in Int
    /\ DefaultLimit \in Nat \ {0}
    /\ Lifetime \in Nat
    /\ StoreEnabled \in BOOLEAN
    /\ Amount \subseteq Nat \ {0}

VARIABLES now,      \* the clock
          active, counts, phase, addr, \* the limiter, see Limiter.tla
          sessions, \* Store.sessions: the runs the store knows
          owner,    \* Session.Addr of every run opened so far
          session,  \* the rest of its Session
          req,      \* where each download or upload request is
          closing,  \* where each close request is
          results,  \* the results table, oldest first
          fate,     \* history: what became of each run
          opening,  \* where the request that opens a run is
          steady,   \* history: the requests moving bytes since it took Store.mu
          restarts  \* restarts so far

limiter == <<active, counts, phase, addr>>
store == <<sessions, owner, session, fate>>
sweep == <<opening, steady>>
vars == <<now, limiter, store, sweep, req, closing, results, restarts>>

Limiter == INSTANCE Limiter

Client == Addr \cup {Invalid}

-----------------------------------------------------------------------------
(* Values *)

(***************************************************************************)
(* A transfer request: "idle" before it comes and after it is answered,    *)
(* "accepted" with a slot, "found" with a run, "moving" in the transfer    *)
(* loop, "ended" with the deferred release still to run.                   *)
(***************************************************************************)
Request == [pc : {"idle", "accepted", "found", "moving", "ended"},
            quotes : Run \cup {NoRun}, run : Run \cup {NoRun}, dir : Dir,
            since : Nat, deferred : Nat, sent : Nat]

Idling == [pc |-> "idle", quotes |-> NoRun, run |-> NoRun, dir |-> "down",
           since |-> 0, deferred |-> 0, sent |-> 0]

Nothing == [bytes |-> 0, streams |-> 0, measured |-> 0, window |-> 0]

(***************************************************************************)
(* The request that holds Store.mu to open a run: "none"; "sweeping" with  *)
(* the sessions in `left` still to look at; "quiet" when `found` has no    *)
(* open stream, "stale" when it has been idle for too long as well.        *)
(***************************************************************************)
Opening == [pc : {"none", "sweeping", "quiet", "stale"},
            run : Run \cup {NoRun}, by : Client, at : Nat,
            left : SUBSET Run, found : Run \cup {NoRun}]

Unlocked == [pc |-> "none", run |-> NoRun, by |-> Invalid, at |-> 0,
             left |-> {}, found |-> NoRun]

\* A close request waits, has taken the run, has read the download total, has
\* both and a result to save, or has its answer.
NotYet == [pc |-> "waiting", run |-> NoRun, down |-> Nothing, up |-> Nothing,
            clean |-> TRUE]

Answered == [NotYet EXCEPT !.pc = "answered"]

\* What time.Now() may have returned to a goroutine whose last step was at t.
Stamps(t) == {x \in t..now : now - x <= Lag}

Limit == IF Total <= 0 THEN DefaultLimit ELSE Total

-----------------------------------------------------------------------------
Init ==
    /\ now = 1
    /\ Limiter!Init
    /\ sessions = {}
    /\ owner = [r \in Run |-> Invalid]
    /\ session = [r \in Run |-> NewSession(0)]
    /\ req = [s \in Stream |-> Idling]
    /\ closing = [c \in Closer |-> NotYet]
    /\ results = << >>
    /\ fate = [r \in Run |-> "unused"]
    /\ opening = Unlocked
    /\ steady = {}
    /\ restarts = 0

Tick ==
    /\ now < MaxTime
    /\ now' = now + 1
    /\ UNCHANGED <<limiter, store, sweep, req, closing, results, restarts>>

(***************************************************************************)
(* POST /api/runs.  Create takes Store.mu for the sweep and for the insert *)
(* after it.  The sweep takes the lock of a session twice, to see whether  *)
(* a stream is open and since when it is idle, and then deletes it: a      *)
(* Begin or an End, which takes only that lock, may fall in between.       *)
(***************************************************************************)
StoreFree == opening.pc = "none"

Moving == {s \in Stream : req[s].pc = "moving"}

OpenRun(r, a) ==
    /\ StoreFree
    /\ fate[r] = "unused"
    /\ \E t \in Stamps(1) :
          opening' = [Unlocked EXCEPT !.pc = "sweeping", !.run = r, !.by = a,
                                      !.at = t, !.left = sessions]
    /\ steady' = Moving
    /\ UNCHANGED <<now, limiter, store, req, closing, results, restarts>>

SweepByClock(r) == \* mutant: runs with open streams too
    /\ opening.pc = "sweeping" /\ r \in opening.left
    /\ opening' = [opening EXCEPT !.left = @ \ {r}, !.pc = "quiet", !.found = r]
    /\ UNCHANGED <<now, limiter, store, steady, req, closing, results, restarts>>

SweepActive(r) ==
    /\ opening.pc = "sweeping" /\ r \in opening.left
    /\ opening' = IF Active(session[r]) THEN [opening EXCEPT !.left = @ \ {r}]
                  ELSE [opening EXCEPT !.left = @ \ {r}, !.pc = "quiet", !.found = r]
    /\ UNCHANGED <<now, limiter, store, steady, req, closing, results, restarts>>

SweepIdle ==
    /\ opening.pc = "quiet"
    /\ opening' = IF Idle(session[opening.found], opening.at) > Lifetime
                  THEN [opening EXCEPT !.pc = "stale"]
                  ELSE [opening EXCEPT !.pc = "sweeping", !.found = NoRun]
    /\ UNCHANGED <<now, limiter, store, steady, req, closing, results, restarts>>

SweepDelete ==
    /\ opening.pc = "stale"
    /\ sessions' = sessions \ {opening.found}
    /\ fate' = [fate EXCEPT ![opening.found] = "swept"]
    /\ opening' = [opening EXCEPT !.pc = "sweeping", !.found = NoRun]
    /\ UNCHANGED <<now, limiter, owner, session, steady, req, closing, results,
                   restarts>>

StoreFull == Cardinality(sessions) >= Limit

\* The store may still be full after the sweep, which stays done.
Insert ==
    LET r == opening.run IN
    /\ opening.pc = "sweeping" /\ opening.left = {}
    /\ IF StoreFull THEN UNCHANGED store
       ELSE /\ sessions' = sessions \cup {r}
            /\ owner' = [owner EXCEPT ![r] = opening.by]
            /\ session' = [session EXCEPT ![r] = NewSession(opening.at)]
            /\ fate' = [fate EXCEPT ![r] = "open"]
    /\ opening' = Unlocked
    /\ steady' = {}
    /\ UNCHANGED <<now, limiter, req, closing, results, restarts>>

(***************************************************************************)
(* GET /api/download and POST /api/upload.                                 *)
(***************************************************************************)
Accept(s, a, d, r) ==
    /\ req[s].pc = "idle"
    /\ Limiter!Acquire(s, a)
    /\ req' = [req EXCEPT ![s] = [Idling EXCEPT !.pc = "accepted", !.quotes = r, !.dir = d]]
    /\ UNCHANGED <<now, store, sweep, closing, results, restarts>>

Reject(s, a) ==
    /\ req[s].pc = "idle"
    /\ Limiter!Refuse(s, a)
    /\ UNCHANGED <<now, store, sweep, req, closing, results, restarts>>

GetAnyones(r, a) == \* mutant: whoever opened it
    IF r \in sessions THEN r ELSE NoRun

\* Store.Get: only the address that opened a run may add to it.
Get(r, a) == IF r \in sessions /\ owner[r] = a THEN r ELSE NoRun

LookUpTurningAway(s) == \* mutant: an unknown run is refused, past the release
    /\ req[s].pc = "accepted"
    /\ req[s].quotes = NoRun \/ StoreFree
    /\ LET r == Get(req[s].quotes, addr[s])
       IN  req' = [req EXCEPT ![s] =
                     IF r = NoRun THEN Idling
                     ELSE [@ EXCEPT !.pc = "found", !.run = r, !.quotes = NoRun, !.since = now]]
    /\ UNCHANGED <<now, limiter, store, sweep, closing, results, restarts>>

LookUp(s) ==
    /\ req[s].pc = "accepted"
    /\ req[s].quotes = NoRun \/ StoreFree
    /\ LET r == Get(req[s].quotes, addr[s])
       IN  req' = [req EXCEPT ![s] =
                     IF r = NoRun THEN [Idling EXCEPT !.pc = "moving"]
                     ELSE [@ EXCEPT !.pc = "found", !.run = r, !.quotes = NoRun, !.since = now]]
    /\ UNCHANGED <<now, limiter, store, sweep, closing, results, restarts>>

\* Begin, and the defer statement that reads the clock for End.
BeginStream(s) ==
    LET r == req[s].run IN
    /\ req[s].pc = "found"
    /\ \E t \in Stamps(req[s].since) :
          session' = [session EXCEPT ![r] = Begin(@, req[s].dir, t)]
    /\ req' = [req EXCEPT ![s].pc = "moving", ![s].since = now, ![s].deferred = now]
    /\ UNCHANGED <<now, limiter, sessions, owner, fate, sweep, closing, results, restarts>>

\* One Write of the download loop or one metered Read of the upload.
MoveBytes(s, n) ==
    LET r == req[s].run IN
    /\ req[s].pc = "moving"
    /\ req[s].sent + n <= MaxSent
    /\ IF r = NoRun
       THEN /\ UNCHANGED session
            /\ req' = [req EXCEPT ![s].sent = @ + n]
       ELSE /\ \E t \in Stamps(req[s].since) :
                  session' = [session EXCEPT ![r] = Add(@, req[s].dir, n, t)]
            /\ req' = [req EXCEPT ![s].sent = @ + n, ![s].since = now]
    /\ UNCHANGED <<now, limiter, sessions, owner, fate, sweep, closing, results, restarts>>

\* The size is reached or the client is gone: the deferred End comes first.
EndStream(s) ==
    LET r == req[s].run IN
    /\ req[s].pc = "moving"
    /\ session' = IF r = NoRun THEN session
                  ELSE [session EXCEPT ![r] = End(@, req[s].dir, req[s].deferred)]
    /\ req' = [req EXCEPT ![s] = [Idling EXCEPT !.pc = "ended"]]
    /\ steady' = steady \ {s}
    /\ UNCHANGED <<now, limiter, sessions, owner, fate, opening, closing, results,
                   restarts>>

Release(s) ==
    /\ req[s].pc = "ended"
    /\ Limiter!Release(s)
    /\ req' = [req EXCEPT ![s] = Idling]
    /\ UNCHANGED <<now, store, sweep, closing, results, restarts>>

(***************************************************************************)
(* POST /api/runs/{id}/close.  Store.Close hands the run to one request;   *)
(* the totals are read one direction at a time, while streams that still   *)
(* hold the run may add to it.                                             *)
(***************************************************************************)
Users(r) == {s \in Stream : req[s].run = r}

Close(c, r, a) ==
    /\ StoreFree
    /\ closing[c].pc = "waiting"
    /\ IF r \in sessions /\ owner[r] = a
       THEN /\ sessions' = sessions \ {r}
            /\ fate' = [fate EXCEPT ![r] = "closed"]
            /\ closing' = [closing EXCEPT ![c].pc = "taken", ![c].run = r,
                                          ![c].clean = Users(r) = {}]
       ELSE /\ closing' = [closing EXCEPT ![c] = Answered]
            /\ UNCHANGED <<sessions, fate>>
    /\ UNCHANGED <<now, limiter, owner, session, sweep, req, results, restarts>>

\* The labels in the request's body come first, to their end or to an error; a
\* visitor who stalls them holds the request before this step, for ever if he likes.
ReadDown(c) ==
    /\ closing[c].pc = "taken"
    /\ closing' = [closing EXCEPT ![c].pc = "halfRead",
                                  ![c].down = Totals(session[closing[c].run].legs["down"])]
    /\ UNCHANGED <<now, limiter, store, sweep, req, results, restarts>>

\* Nothing measured in either direction, or nowhere to put it, is not stored.
ReadUp(c) ==
    LET k  == closing[c]
        up == Totals(session[k.run].legs["up"])
        storing == StoreEnabled /\ (Worthwhile(k.down) \/ Worthwhile(up))
    IN  /\ k.pc = "halfRead"
        /\ closing' = [closing EXCEPT ![c] =
                          IF storing THEN [@ EXCEPT !.up = up, !.pc = "saving"] ELSE Answered]
        /\ fate' = IF storing THEN fate ELSE [fate EXCEPT ![k.run] = "dropped"]
        /\ UNCHANGED <<now, limiter, sessions, owner, session, sweep, req, results,
                       restarts>>

RowSwapped(c) == \* mutant: the directions exchanged
    [run   |-> closing[c].run, owner |-> owner[closing[c].run],
     down  |-> closing[c].up, up |-> closing[c].down, clean |-> closing[c].clean]

Row(c) == [run   |-> closing[c].run, owner |-> owner[closing[c].run],
           down  |-> closing[c].down, up |-> closing[c].up,
           clean |-> closing[c].clean]

SaveTwice(c) == \* mutant: an insert that is tried again although it landed
    /\ closing[c].pc = "saving"
    /\ results' = Append(results, Row(c))
    /\ fate' = [fate EXCEPT ![closing[c].run] = "recorded"]
    /\ UNCHANGED <<now, limiter, sessions, owner, session, sweep, req, closing,
                   restarts>>

\* The lookup of the provider and the insert, which may take as long as they like.
Save(c) ==
    /\ closing[c].pc = "saving"
    /\ results' = Append(results, Row(c))
    /\ fate' = [fate EXCEPT ![closing[c].run] = "recorded"]
    /\ closing' = [closing EXCEPT ![c] = Answered]
    /\ UNCHANGED <<now, limiter, sessions, owner, session, sweep, req, restarts>>

SaveFailsReturning(c) == \* mutant: the run goes back to the store, to be closed again
    /\ closing[c].pc = "saving"
    /\ sessions' = sessions \cup {closing[c].run}
    /\ fate' = [fate EXCEPT ![closing[c].run] = "open"]
    /\ closing' = [closing EXCEPT ![c] = Answered]
    /\ UNCHANGED <<now, limiter, owner, session, sweep, req, results, restarts>>

\* The client hung up, which cancels the insert, or the database failed.
SaveFails(c) ==
    /\ closing[c].pc = "saving"
    /\ fate' = [fate EXCEPT ![closing[c].run] = "dropped"]
    /\ closing' = [closing EXCEPT ![c] = Answered]
    /\ UNCHANGED <<now, limiter, sessions, owner, session, sweep, req, results,
                   restarts>>

(***************************************************************************)
(* The process stops, by a crash or by a shutdown that ran out of time,    *)
(* and starts again: requests in flight are gone, and with them everything *)
(* but the results table.                                                  *)
(***************************************************************************)
Unfinished(c) == closing[c].pc \notin {"waiting", "answered"}

Restart ==
    /\ restarts < MaxRestarts
    /\ restarts' = restarts + 1
    /\ active' = 0
    /\ counts' = [a \in {} |-> 0]
    /\ phase' = [s \in Stream |-> IF phase[s] = "held" THEN "released" ELSE phase[s]]
    /\ addr' = [s \in Stream |-> Invalid]
    /\ sessions' = {}
    /\ fate' = [r \in Run |-> IF fate[r] \in {"open", "closed"} THEN "lost" ELSE fate[r]]
    /\ opening' = Unlocked
    /\ steady' = {}
    /\ req' = [s \in Stream |-> Idling]
    /\ closing' = [c \in Closer |-> IF Unfinished(c) THEN Answered ELSE closing[c]]
    /\ UNCHANGED <<now, owner, session, results>>

Next ==
    \/ Tick
    \/ \E r \in Run, a \in Client : OpenRun(r, a)
    \/ \E r \in Run : SweepActive(r)
    \/ SweepIdle
    \/ SweepDelete
    \/ Insert
    \/ \E s \in Stream :
          \/ \E a \in Client, d \in Dir :
                \E r \in {q \in Run : fate[q] # "unused"} \cup {NoRun} : Accept(s, a, d, r)
          \/ \E a \in Client : Reject(s, a)
          \/ LookUp(s)
          \/ BeginStream(s)
          \/ \E n \in Amount : MoveBytes(s, n)
          \/ EndStream(s)
          \/ Release(s)
    \/ \E c \in Closer :
          \/ \E r \in Run, a \in Client : Close(c, r, a)
          \/ ReadDown(c)
          \/ ReadUp(c)
          \/ Save(c)
          \/ SaveFails(c)
    \/ Restart

Spec == Init /\ [][Next]_vars
-----------------------------------------------------------------------------
Figures == [bytes : Nat, streams : Nat, measured : Nat, window : Nat]

TypeOK ==
    /\ now \in 1..MaxTime
    /\ Limiter!TypeOK
    /\ sessions \subseteq Run
    /\ owner \in [Run -> Client]
    /\ session \in [Run -> Session]
    /\ req \in [Stream -> Request]
    /\ closing \in [Closer ->
          [pc : {"waiting", "taken", "halfRead", "saving", "answered"},
           run : Run \cup {NoRun}, down : Figures, up : Figures, clean : BOOLEAN]]
    /\ results \in Seq([run : Run, owner : Client, down : Figures, up : Figures, clean : BOOLEAN])
    /\ fate \in [Run -> {"unused", "open", "swept", "closed", "recorded", "dropped", "lost"}]
    /\ opening \in Opening
    /\ steady \subseteq Stream
    /\ restarts \in 0..MaxRestarts

Recorded == {results[i].run : i \in DOMAIN results}

(***************************************************************************)
(* A run is recorded at most once, however many close requests race for it *)
(* and whatever fails in between: only the one that Store.Close handed the *)
(* run to may save it (session.go:296-305, api.go:128-186).                *)
(***************************************************************************)
OneRowPerRun == \A i, j \in DOMAIN results : results[i].run = results[j].run => i = j

(***************************************************************************)
(* Bytes reach a run only from requests of the address that opened it,     *)
(* also when another client quotes its id and whatever happens to the run  *)
(* while the request is on its way (session.go:277-293).                   *)
(***************************************************************************)
OwnTrafficOnly == \A s \in Stream : req[s].run # NoRun => owner[req[s].run] = addr[s]

(***************************************************************************)
(* A run's open counts are the requests between Begin and End, across both *)
(* endpoints, closes and sweeps: none is missed when a handler returns     *)
(* (session.go:153-172, speed.go:171-175, 237-241).                        *)
(***************************************************************************)
Transferring(r, d) ==
    {s \in Stream : req[s].pc = "moving" /\ req[s].run = r /\ req[s].dir = d}

OpenCountsRequests ==
    \A r \in Run, d \in Dir :
        r \in sessions \/ Users(r) # {} =>
            session[r].legs[d].open = Cardinality(Transferring(r, d))

(***************************************************************************)
(* The store stays within its limit although anybody may open runs and     *)
(* nobody need close them (session.go:225-229, 262-264).                   *)
(***************************************************************************)
StoreBounded == Cardinality(sessions) <= Limit

(***************************************************************************)
(* A request holds a slot of the limiter exactly from its acceptance to    *)
(* its deferred release, on every way through the handlers                 *)
(* (speed.go:148-153, 227-232).                                            *)
(***************************************************************************)
SlotWhileServed == \A s \in Stream : phase[s] = "held" <=> req[s].pc # "idle"

(***************************************************************************)
(* A result is stored only if something was measured, for the address that *)
(* opened the run.  Of the rows whose run no request held any more as it   *)
(* was closed, it says that the two readings, taken one after the other,   *)
(* are the run's last figures (api.go:121-150).  A row whose run was       *)
(* closed under a stream may miss what that stream counted afterwards.     *)
(***************************************************************************)
RowsAreFinal ==
    \A i \in DOMAIN results :
        LET row == results[i] IN
        /\ row.owner = owner[row.run]
        /\ Worthwhile(row.down) \/ Worthwhile(row.up)
        /\ row.clean => /\ row.down = Totals(session[row.run].legs["down"])
                        /\ row.up = Totals(session[row.run].legs["up"])

(***************************************************************************)
(* The sweep drops no run for which a request has been moving bytes since  *)
(* before the sweep began, however slow its link (session.go:323-327).     *)
(* A request that begins after the sweep saw the run without a stream has  *)
(* no such protection: it goes on counting for a run that is dropped.      *)
(***************************************************************************)
SweepSparesActive ==
    [][\A r \in Run : fate[r] # "swept" /\ fate'[r] = "swept" =>
          \A s \in steady : req[s].run # r]_vars

(***************************************************************************)
(* The life of a run, as RunLedger promises it (api.go:84-92).             *)
(***************************************************************************)
Status(r) ==
    CASE fate[r] = "unused"   -> "unused"
      [] fate[r] = "open"     -> "measuring"
      [] fate[r] = "closed"   -> "ended"
      [] fate[r] = "recorded" -> "recorded"
      [] OTHER                -> "given up"

Ledger == INSTANCE RunLedger WITH
    status <- [r \in Run |-> Status(r)],
    book <- [i \in DOMAIN results |-> results[i].run]

LedgerKept == Ledger!LSpec
=============================================================================
