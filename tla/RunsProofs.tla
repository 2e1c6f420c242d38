----------------------------- MODULE RunsProofs -----------------------------
(***************************************************************************)
(* Proofs about Runs for any number of requests, close requests, runs and  *)
(* addresses, any limits and any number of restarts.                       *)
(***************************************************************************)
EXTENDS Runs, FiniteSetTheorems, TLAPS

Figure == [bytes : Nat, streams : Nat, measured : Int, window : Int]

ClosePc == {"waiting", "taken", "halfRead", "saving", "answered"}
Fate == {"unused", "open", "swept", "closed", "recorded", "dropped", "lost"}

Closing == [pc : ClosePc, run : Run \cup {NoRun}, down : Figure, up : Figure,
            clean : BOOLEAN]

SavedRow == [run : Run, owner : Client, down : Figure, up : Figure, clean : BOOLEAN]

Taking(c) == closing[c].pc \in {"taken", "halfRead", "saving"}

SlotTypes == phase \in [Stream -> Limiter!Phase] /\ addr \in [Stream -> Client]

StoreTypes ==
    /\ sessions \subseteq Run
    /\ owner \in [Run -> Client]
    /\ session \in [Run -> Session]
    /\ fate \in [Run -> Fate]

SweepTypes == opening \in Opening /\ steady \subseteq Stream

RequestTypes == req \in [Stream -> Request]

CloseTypes ==
    /\ closing \in [Closer -> Closing]
    /\ \A c \in Closer : Taking(c) => closing[c].run \in Run

Types ==
    /\ now \in Nat
    /\ SlotTypes
    /\ StoreTypes
    /\ SweepTypes
    /\ RequestTypes
    /\ CloseTypes
    /\ results \in Seq(SavedRow)

(***************************************************************************)
(* Which requests have a run, and that it is their own and was opened.     *)
(***************************************************************************)
Stages ==
    /\ \A r \in sessions : fate[r] # "unused"
    /\ \A s \in Stream :
          /\ req[s].pc \in {"idle", "accepted", "ended"} => req[s].run = NoRun
          /\ req[s].pc = "found" => req[s].run # NoRun
          /\ req[s].run # NoRun => fate[req[s].run] # "unused"

Bounded == IsFiniteSet(sessions) /\ StoreBounded

(***************************************************************************)
(* A run that has left the store does not come back to it, and nothing is  *)
(* added to it once nobody holds it; a close request that took a run is    *)
(* alone with it, and what it has read so far is the run's final figure if *)
(* nobody held the run when it was taken.                                  *)
(***************************************************************************)
Shut(r) == r \in Run /\ r \notin sessions /\ fate[r] # "unused"

Final(r, d, total) == total = Totals(session[r].legs[d])

Claim(c) ==
    LET k == closing[c] IN
    /\ Shut(k.run) /\ k.run \notin Recorded
    /\ k.pc = "saving" => Worthwhile(k.down) \/ Worthwhile(k.up)
    /\ k.clean => /\ Users(k.run) = {}
                  /\ k.pc # "taken" => Final(k.run, "down", k.down)
                  /\ k.pc = "saving" => Final(k.run, "up", k.up)

Claims == \A c \in Closer : Taking(c) => Claim(c)

Sole == \A c, e \in Closer : Taking(c) /\ Taking(e) /\ closing[c].run = closing[e].run => c = e

RowSound(row) ==
    /\ Shut(row.run)
    /\ row.owner = owner[row.run]
    /\ Worthwhile(row.down) \/ Worthwhile(row.up)
    /\ row.clean => /\ Users(row.run) = {}
                    /\ Final(row.run, "down", row.down)
                    /\ Final(row.run, "up", row.up)

RowsSound == \A i \in DOMAIN results : RowSound(results[i])

(***************************************************************************)
(* The fate of a run agrees with the store, with the close requests and    *)
(* with the results table.                                                 *)
(***************************************************************************)
Fates ==
    /\ \A r \in Run : /\ r \in sessions <=> fate[r] = "open"
                      /\ r \in Recorded <=> fate[r] = "recorded"
    /\ \A c \in Closer : Taking(c) => fate[closing[c].run] = "closed"

(***************************************************************************)
(* What the holder of Store.mu relies on: the run it will insert is new,   *)
(* and no session it has still to look at, or is about to delete, leaves   *)
(* the store in the meantime.                                              *)
(***************************************************************************)
Locked ==
    /\ StoreFree => opening = Unlocked
    /\ ~StoreFree => opening.run \in Run /\ fate[opening.run] = "unused"
    /\ opening.left \subseteq sessions
    /\ opening.pc \in {"quiet", "stale"} => opening.found \in sessions \ opening.left

(***************************************************************************)
(* The run it found without a stream has had none since the lock was taken.*)
(***************************************************************************)
Sparing ==
    /\ steady \subseteq Moving
    /\ opening.pc \in {"quiet", "stale"} =>
          \A s \in steady : req[s].run # opening.found

Counted ==
    /\ \A r \in Run, d \in Dir : IsFiniteSet(Transferring(r, d))
    /\ OpenCountsRequests

-----------------------------------------------------------------------------
(***************************************************************************)
(* The operators of session.go on values of the right type.                *)
(***************************************************************************)
LEMMA LegTypes ==
  ASSUME NEW l \in Leg, NEW t \in Nat, NEW n \in Nat
  PROVE  /\ AddLeg(l, n, t) \in Leg /\ AddLeg(l, n, t).open = l.open
         /\ BeginLeg(l, t) \in Leg /\ BeginLeg(l, t).open = l.open + 1
         /\ EndLeg(l) \in Leg /\ EndLeg(l).open = l.open - 1
         /\ Totals(l) \in Figure
<1>1. StartedAt(l, t) \in Nat
  BY DEF StartedAt, Leg
<1>2. AddLeg(l, n, t) \in Leg /\ AddLeg(l, n, t).open = l.open
  <2> DEFINE total == l.bytes + n
             start == StartedAt(l, t)
             counted == l.from # 0 \/ Opens(l, t)
             from == IF Opens(l, t) THEN t ELSE l.from
             fromByte == IF Opens(l, t) THEN total ELSE l.fromByte
             until == IF counted THEN t ELSE l.until
             byteAt == IF counted THEN total ELSE l.byteAt
  <2>1. /\ total \in Nat /\ start \in Nat /\ from \in Nat
        /\ fromByte \in Nat /\ until \in Nat /\ byteAt \in Nat
    BY <1>1 DEF Leg
  <2>2. AddLeg(l, n, t) = [l EXCEPT !.bytes = total, !.started = start,
                                    !.from = from, !.fromByte = fromByte,
                                    !.until = until, !.byteAt = byteAt]
    BY DEF AddLeg, Leg
  <2> HIDE DEF total, start, counted, from, fromByte, until, byteAt
  <2>. QED
    BY <2>1, <2>2 DEF Leg
<1>3. BeginLeg(l, t) \in Leg /\ BeginLeg(l, t).open = l.open + 1
  <2> DEFINE start == StartedAt(l, t)
  <2>1. BeginLeg(l, t) = [l EXCEPT !.streams = @ + 1, !.open = @ + 1, !.started = start]
    BY DEF BeginLeg
  <2>2. start \in Nat /\ l.streams + 1 \in Nat /\ l.open + 1 \in Int
    BY <1>1 DEF Leg
  <2> HIDE DEF start
  <2>. QED
    BY <2>1, <2>2 DEF Leg
<1>4. EndLeg(l) \in Leg /\ EndLeg(l).open = l.open - 1
  BY DEF EndLeg, Leg
<1>5. Totals(l) \in Figure
  <2> DEFINE full == l.until - l.from
             kept == l.until - Drain - l.from
             moved == l.byteAt - l.fromByte
             m == IF HasWindow(l) THEN (moved * kept) \div full ELSE 0
             w == IF HasWindow(l) THEN kept ELSE 0
  <2>1. full \in Int /\ kept \in Int /\ moved \in Int /\ moved * kept \in Int
    BY SessionAssumption DEF Leg
  <2>2. HasWindow(l) => full > 0
    BY SessionAssumption DEF HasWindow, Leg
  <2> HIDE DEF full, kept, moved
  <2>3. m \in Int /\ w \in Int
    <3> DEFINE p == moved * kept
    <3>1. p \in Int
      BY <2>1
    <3> HIDE DEF p
    <3>2. HasWindow(l) => p \div full \in Int
      BY <2>1, <2>2, <3>1
    <3>. QED
      BY <2>1, <3>2 DEF p
  <2>4. Totals(l) = [bytes |-> l.bytes, streams |-> l.streams, measured |-> m, window |-> w]
    BY DEF Totals, full, kept, moved
  <2> HIDE DEF m, w
  <2>. QED
    BY <2>3, <2>4 DEF Figure, Leg
<1>. QED
  BY <1>2, <1>3, <1>4, <1>5

LEMMA SessionTypes ==
  ASSUME NEW x \in Session, NEW d \in Dir, NEW t \in Nat, NEW n \in Nat
  PROVE  /\ NewSession(t) \in Session /\ \A e \in Dir : NewSession(t).legs[e].open = 0
         /\ Add(x, d, n, t) \in Session
         /\ \A e \in Dir : Add(x, d, n, t).legs[e].open = x.legs[e].open
         /\ Begin(x, d, t) \in Session
         /\ \A e \in Dir : Begin(x, d, t).legs[e].open =
               IF e = d THEN x.legs[e].open + 1 ELSE x.legs[e].open
         /\ End(x, d, t) \in Session
         /\ \A e \in Dir : End(x, d, t).legs[e].open =
               IF e = d THEN x.legs[e].open - 1 ELSE x.legs[e].open
<1>1. x.legs[d] \in Leg
  BY DEF Session
<1>2. NewSession(t) \in Session /\ \A e \in Dir : NewSession(t).legs[e].open = 0
  BY DEF NewSession, NewLeg, Session, Leg
<1>3. /\ Add(x, d, n, t) \in Session
      /\ \A e \in Dir : Add(x, d, n, t).legs[e].open = x.legs[e].open
  <2>1. CASE n <= 0
    BY <2>1 DEF Add
  <2>2. CASE ~(n <= 0)
    <3> DEFINE l == AddLeg(x.legs[d], n, t)
    <3>1. l \in Leg /\ l.open = x.legs[d].open
      BY <1>1, LegTypes
    <3>2. Add(x, d, n, t) = [x EXCEPT !.legs = [@ EXCEPT ![d] = l], !.lastTouch = t]
      BY <2>2 DEF Add
    <3> HIDE DEF l
    <3>. QED
      BY <3>1, <3>2 DEF Session
  <2>. QED
    BY <2>1, <2>2
<1>4. /\ Begin(x, d, t) \in Session
      /\ \A e \in Dir : Begin(x, d, t).legs[e].open =
            IF e = d THEN x.legs[e].open + 1 ELSE x.legs[e].open
  <2> DEFINE l == BeginLeg(x.legs[d], t)
  <2>1. l \in Leg /\ l.open = x.legs[d].open + 1
    BY <1>1, LegTypes
  <2>2. Begin(x, d, t) = [x EXCEPT !.legs = [@ EXCEPT ![d] = l], !.lastTouch = t]
    BY DEF Begin
  <2> HIDE DEF l
  <2>. QED
    BY <2>1, <2>2 DEF Session
<1>5. /\ End(x, d, t) \in Session
      /\ \A e \in Dir : End(x, d, t).legs[e].open =
            IF e = d THEN x.legs[e].open - 1 ELSE x.legs[e].open
  <2> DEFINE l == EndLeg(x.legs[d])
  <2>1. l \in Leg /\ l.open = x.legs[d].open - 1
    BY <1>1, LegTypes
  <2>2. End(x, d, t) = [x EXCEPT !.legs = [@ EXCEPT ![d] = l], !.lastTouch = t]
    BY DEF End
  <2> HIDE DEF l
  <2>. QED
    BY <2>1, <2>2 DEF Session
<1>. QED
  BY <1>2, <1>3, <1>4, <1>5

LEMMA AddKeepsOpen ==
  ASSUME NEW x \in Session, NEW d \in Dir, NEW t \in Nat, NEW n \in Nat, NEW e \in Dir
  PROVE  Add(x, d, n, t).legs[e].open = x.legs[e].open
<1>1. \A f \in Dir : Add(x, d, n, t).legs[f].open = x.legs[f].open
  BY SessionTypes
<1>. QED
  BY <1>1

-----------------------------------------------------------------------------
(***************************************************************************)
(* Every value keeps its type.                                             *)
(***************************************************************************)
LEMMA SlotTypesNext == SlotTypes /\ [Next]_vars => SlotTypes'
<1> SUFFICES ASSUME SlotTypes, [Next]_vars PROVE SlotTypes'
  OBVIOUS
<1>1. CASE UNCHANGED limiter
  BY <1>1 DEF SlotTypes, limiter
<1>2. ASSUME NEW s \in Stream, NEW a \in Client, Limiter!Acquire(s, a) PROVE SlotTypes'
  BY <1>2 DEF SlotTypes, Limiter!Acquire, Limiter!Phase
<1>3. ASSUME NEW s \in Stream, NEW a \in Client, Limiter!Refuse(s, a) PROVE SlotTypes'
  BY <1>3 DEF SlotTypes, Limiter!Refuse, Limiter!Phase
<1>4. ASSUME NEW s \in Stream, Limiter!Release(s) PROVE SlotTypes'
  BY <1>4 DEF SlotTypes, Limiter!Release, Limiter!Phase
<1>5. CASE Restart
  BY <1>5 DEF Restart, SlotTypes, Limiter!Phase, Client
<1>. QED
  BY <1>1, <1>2, <1>3, <1>4, <1>5
     DEF Next, vars, Tick, OpenRun, SweepActive, SweepIdle, SweepDelete, Insert, Accept, Reject, LookUp, BeginStream, MoveBytes,
         EndStream, Release, Close, ReadDown, ReadUp, Save, SaveFails

LEMMA StoreTypesNext == Types /\ Locked /\ [Next]_vars => StoreTypes'
<1> SUFFICES ASSUME Types, Locked, [Next]_vars PROVE StoreTypes'
  OBVIOUS
<1>0. now \in Nat /\ StoreTypes /\ RequestTypes /\ SweepTypes /\ Locked
  BY DEF Types
<1>1. CASE UNCHANGED store
  BY <1>0, <1>1 DEF StoreTypes, store
<1>2. CASE Insert
  <2> DEFINE r == opening.run
  <2>1. CASE StoreFull
    BY <1>1, <1>2, <2>1 DEF Insert
  <2>2. CASE ~StoreFull
    <3>1. NewSession(opening.at) \in Session /\ opening.by \in Client
      BY <1>0 DEF SweepTypes, Opening, NewSession, NewLeg, Session, Leg
    <3>2. r \in Run
      BY <1>0, <1>2 DEF Insert, Locked, StoreFree
    <3>3. /\ sessions' = sessions \cup {r} /\ owner' = [owner EXCEPT ![r] = opening.by]
          /\ session' = [session EXCEPT ![r] = NewSession(opening.at)]
          /\ fate' = [fate EXCEPT ![r] = "open"]
      BY <1>2, <2>2 DEF Insert
    <3> HIDE DEF r
    <3>. QED
      BY <1>0, <3>1, <3>2, <3>3 DEF StoreTypes, Fate
  <2>. QED
    BY <2>1, <2>2
<1>3. ASSUME NEW s \in Stream, BeginStream(s) PROVE StoreTypes'
  <2>1. /\ UNCHANGED <<sessions, owner, fate>>
        /\ \E t \in Stamps(req[s].since) :
              session' = [session EXCEPT ![req[s].run] = Begin(@, req[s].dir, t)]
    BY <1>3 DEF BeginStream
  <2>2. PICK t \in Stamps(req[s].since) :
           session' = [session EXCEPT ![req[s].run] = Begin(@, req[s].dir, t)]
    BY <2>1
  <2>3. t \in Nat /\ req[s].dir \in Dir
    BY <1>0 DEF RequestTypes, Request, Stamps
  <2>4. \A x \in Session : Begin(x, req[s].dir, t) \in Session
    BY <2>3, SessionTypes
  <2>5. session' \in [Run -> Session]
    BY <1>0, <2>2, <2>4 DEF StoreTypes
  <2>. QED
    BY <1>0, <2>1, <2>5 DEF StoreTypes
<1>4. ASSUME NEW s \in Stream, NEW n \in Amount, MoveBytes(s, n) PROVE StoreTypes'
  <2>1. UNCHANGED <<sessions, owner, fate>>
    BY <1>4 DEF MoveBytes
  <2>2. CASE UNCHANGED session
    BY <1>0, <2>1, <2>2 DEF StoreTypes
  <2>3. ASSUME NEW t \in Stamps(req[s].since),
               session' = [session EXCEPT ![req[s].run] = Add(@, req[s].dir, n, t)]
        PROVE  StoreTypes'
    <3>1. t \in Nat /\ n \in Nat /\ req[s].dir \in Dir
      BY <1>0, RunsAssumption DEF RequestTypes, Request, Stamps
    <3>2. \A x \in Session : Add(x, req[s].dir, n, t) \in Session
      BY <3>1, SessionTypes
    <3>3. session' \in [Run -> Session]
      BY <1>0, <2>3, <3>2 DEF StoreTypes
    <3>. QED
      BY <1>0, <2>1, <3>3 DEF StoreTypes
  <2>. QED
    BY <1>4, <2>2, <2>3 DEF MoveBytes
<1>5. ASSUME NEW s \in Stream, EndStream(s) PROVE StoreTypes'
  <2>1. UNCHANGED <<sessions, owner, fate>>
    BY <1>5 DEF EndStream
  <2>2. req[s].dir \in Dir /\ req[s].deferred \in Nat /\ 0 \in Nat
    BY <1>0 DEF RequestTypes, Request
  <2>3. \A x \in Session : End(x, req[s].dir, req[s].deferred) \in Session
    BY <2>2, SessionTypes
  <2>4. session' \in [Run -> Session]
    BY <1>0, <1>5, <2>3 DEF EndStream, StoreTypes
  <2>. QED
    BY <1>0, <2>1, <2>4 DEF StoreTypes
<1>6. ASSUME NEW c \in Closer, NEW r \in Run, NEW a \in Client, Close(c, r, a)
      PROVE  StoreTypes'
  <2>1. UNCHANGED <<owner, session>>
    BY <1>6 DEF Close
  <2>2. sessions' \subseteq Run /\ fate' \in [Run -> Fate]
    BY <1>0, <1>6 DEF Close, StoreTypes, Fate
  <2>. QED
    BY <1>0, <2>1, <2>2 DEF StoreTypes
<1>7. CASE Restart
  <2>1. UNCHANGED <<owner, session>> /\ sessions' = {}
    BY <1>7 DEF Restart
  <2>2. fate' \in [Run -> Fate]
    BY <1>0, <1>7 DEF Restart, StoreTypes, Fate
  <2>. QED
    BY <1>0, <2>1, <2>2 DEF StoreTypes
<1>8. CASE SweepDelete
  BY <1>0, <1>8 DEF SweepDelete, StoreTypes, Fate
<1>9. ASSUME NEW c \in Closer, ReadUp(c) \/ Save(c) \/ SaveFails(c) PROVE StoreTypes'
  <2>1. fate' \in [Run -> Fate] /\ UNCHANGED <<sessions, owner, session>>
    BY <1>0, <1>9 DEF ReadUp, Save, SaveFails, StoreTypes, Fate
  <2>. QED
    BY <1>0, <2>1 DEF StoreTypes
<1>. QED
  BY <1>1, <1>2, <1>3, <1>4, <1>5, <1>6, <1>7, <1>8, <1>9
     DEF Next, vars, Tick, OpenRun, SweepActive, SweepIdle, Accept, Reject, LookUp, Release,
         ReadDown, store

LEMMA SweepTypesNext == Types /\ [Next]_vars => SweepTypes'
<1> SUFFICES ASSUME Types, [Next]_vars PROVE SweepTypes'
  OBVIOUS
<1>0. now \in Nat /\ SweepTypes /\ StoreTypes /\ Unlocked \in Opening /\ Invalid \in Client
  BY DEF Types, Unlocked, Opening, Client
<1>1. CASE UNCHANGED sweep
  BY <1>0, <1>1 DEF SweepTypes, sweep
<1>2. ASSUME NEW r \in Run, NEW a \in Client, OpenRun(r, a) PROVE SweepTypes'
  <2>1. PICK t \in Stamps(1) :
           opening' = [Unlocked EXCEPT !.pc = "sweeping", !.run = r, !.by = a,
                                       !.at = t, !.left = sessions]
    BY <1>2 DEF OpenRun
  <2>2. t \in Nat
    BY <1>0 DEF Stamps
  <2>3. opening' \in Opening
    BY <1>0, <2>1, <2>2 DEF Unlocked, Opening, StoreTypes
  <2>4. steady' \subseteq Stream
    BY <1>2 DEF OpenRun, Moving
  <2>. QED
    BY <2>3, <2>4 DEF SweepTypes
<1>3. ASSUME NEW r \in Run, SweepActive(r) PROVE SweepTypes'
  BY <1>0, <1>3 DEF SweepActive, SweepTypes, Opening
<1>4. CASE SweepIdle \/ SweepDelete
  BY <1>0, <1>4 DEF SweepIdle, SweepDelete, SweepTypes, Opening
<1>5. CASE Insert \/ Restart
  BY <1>0, <1>5 DEF Insert, Restart, SweepTypes
<1>6. ASSUME NEW s \in Stream, EndStream(s) PROVE SweepTypes'
  BY <1>0, <1>6 DEF EndStream, SweepTypes
<1>. QED
  BY <1>1, <1>2, <1>3, <1>4, <1>5, <1>6
     DEF Next, vars, Tick, Accept, Reject, LookUp, BeginStream, MoveBytes, Release, Close,
         ReadDown, ReadUp, Save, SaveFails

LEMMA RequestTypesNext == Types /\ [Next]_vars => RequestTypes'
<1> SUFFICES ASSUME Types, [Next]_vars PROVE RequestTypes'
  OBVIOUS
<1>0. now \in Nat /\ RequestTypes /\ StoreTypes
  BY DEF Types
<1>1. CASE UNCHANGED req
  BY <1>0, <1>1 DEF RequestTypes
<1>2. ASSUME NEW s \in Stream, NEW a \in Client, NEW d \in Dir,
             NEW r \in Run \cup {NoRun}, Accept(s, a, d, r)
      PROVE  RequestTypes'
  <2>1. [Idling EXCEPT !.pc = "accepted", !.quotes = r, !.dir = d] \in Request
    BY <1>0 DEF Idling, Request
  <2>. QED
    BY <1>0, <1>2, <2>1 DEF Accept, RequestTypes
<1>3. ASSUME NEW s \in Stream, LookUp(s) PROVE RequestTypes'
  <2> DEFINE r == Get(req[s].quotes, addr[s])
  <2>1. r \in Run \cup {NoRun}
    BY <1>0 DEF Get, StoreTypes
  <2>2. [Idling EXCEPT !.pc = "moving"] \in Request
    BY DEF Idling, Request, Dir
  <2>3. [req[s] EXCEPT !.pc = "found", !.run = r, !.quotes = NoRun, !.since = now] \in Request
    <3> HIDE DEF r
    <3>. QED
      BY <1>0, <2>1 DEF Request, RequestTypes
  <2>. QED
    BY <1>0, <1>3, <2>2, <2>3 DEF LookUp, RequestTypes
<1>4. ASSUME NEW s \in Stream, BeginStream(s) PROVE RequestTypes'
  <2>1. req' = [req EXCEPT ![s] = [@ EXCEPT !.pc = "moving", !.since = now, !.deferred = now]]
    BY <1>0, <1>4 DEF BeginStream, RequestTypes
  <2>2. [req[s] EXCEPT !.pc = "moving", !.since = now, !.deferred = now] \in Request
    BY <1>0 DEF Request, RequestTypes
  <2>. QED
    BY <1>0, <2>1, <2>2 DEF RequestTypes
<1>5. ASSUME NEW s \in Stream, NEW n \in Amount, MoveBytes(s, n) PROVE RequestTypes'
  <2>1. req[s].sent + n \in Nat
    BY <1>0, RunsAssumption DEF RequestTypes, Request
  <2>2. \/ req' = [req EXCEPT ![s] = [@ EXCEPT !.sent = req[s].sent + n]]
        \/ req' = [req EXCEPT ![s] = [@ EXCEPT !.sent = req[s].sent + n, !.since = now]]
    BY <1>0, <1>5 DEF MoveBytes, RequestTypes
  <2>3. /\ [req[s] EXCEPT !.sent = req[s].sent + n] \in Request
        /\ [req[s] EXCEPT !.sent = req[s].sent + n, !.since = now] \in Request
    BY <1>0, <2>1 DEF Request, RequestTypes
  <2>. QED
    BY <1>0, <2>2, <2>3 DEF RequestTypes
<1>6. ASSUME NEW s \in Stream, EndStream(s) PROVE RequestTypes'
  <2>1. [Idling EXCEPT !.pc = "ended"] \in Request
    BY DEF Idling, Request, Dir
  <2>. QED
    BY <1>0, <1>6, <2>1 DEF EndStream, RequestTypes
<1>7. ASSUME NEW s \in Stream, Release(s) PROVE RequestTypes'
  <2>1. Idling \in Request
    BY DEF Idling, Request, Dir
  <2>. QED
    BY <1>0, <1>7, <2>1 DEF Release, RequestTypes
<1>8. CASE Restart
  <2>1. Idling \in Request
    BY DEF Idling, Request, Dir
  <2>. QED
    BY <1>8, <2>1 DEF Restart, RequestTypes
<1>. QED
  BY <1>1, <1>2, <1>3, <1>4, <1>5, <1>6, <1>7, <1>8
     DEF Next, vars, Tick, OpenRun, SweepActive, SweepIdle, SweepDelete, Insert, Reject, Close,
         ReadDown, ReadUp, Save, SaveFails

LEMMA CloseTypesNext == Types /\ [Next]_vars => CloseTypes'
<1> SUFFICES ASSUME Types, [Next]_vars PROVE CloseTypes'
  OBVIOUS
<1>0. CloseTypes /\ StoreTypes
  BY DEF Types
<1>1. CASE UNCHANGED closing
  BY <1>0, <1>1 DEF CloseTypes, Taking
<1>2. ASSUME NEW c \in Closer, NEW k \in Closing,
             k.pc \in {"taken", "halfRead", "saving"} => k.run \in Run,
             closing' = [closing EXCEPT ![c] = k]
      PROVE  CloseTypes'
  BY <1>0, <1>2 DEF CloseTypes, Taking
<1>3. \A c \in Closer : closing[c] \in Closing
  BY <1>0 DEF CloseTypes
<1>4. \A c \in Closer : Taking(c) => 
         \A d \in Dir : Totals(session[closing[c].run].legs[d]) \in Figure
  BY <1>0, LegTypes DEF CloseTypes, StoreTypes, Session
<1>4a. Answered \in Closing /\ Answered.pc = "answered"
  <2>1. Nothing \in Figure
    BY DEF Nothing, Figure
  <2>2. NotYet \in Closing
    BY <2>1 DEF NotYet, Closing, ClosePc
  <2>. QED
    BY <2>2 DEF Answered, Closing, ClosePc
<1>5. ASSUME NEW c \in Closer, NEW r \in Run, NEW a \in Client, Close(c, r, a)
      PROVE  CloseTypes'
  <2>1. PICK k : /\ \/ k = [closing[c] EXCEPT !.pc = "taken", !.run = r, !.clean = Users(r) = {}]
                    \/ k = Answered
                 /\ closing' = [closing EXCEPT ![c] = k]
    BY <1>5 DEF Close
  <2>2. k \in Closing /\ (k.pc = "taken" => k.run \in Run) /\ k.pc \in {"taken", "answered"}
    BY <1>3, <1>4a, <2>1 DEF Closing, ClosePc
  <2>. QED
    BY <1>2, <2>1, <2>2
<1>6. ASSUME NEW c \in Closer, ReadDown(c) PROVE CloseTypes'
  <2> DEFINE k == [closing[c] EXCEPT !.pc = "halfRead",
                       !.down = Totals(session[closing[c].run].legs["down"])]
  <2>1. Taking(c) /\ closing' = [closing EXCEPT ![c] = k]
    BY <1>6 DEF ReadDown, Taking
  <2>2. k \in Closing /\ k.run \in Run
    BY <1>0, <1>3, <1>4, <2>1 DEF CloseTypes, Closing, ClosePc, Dir
  <2>. QED
    BY <1>2, <2>1, <2>2
<1>7. ASSUME NEW c \in Closer, ReadUp(c) PROVE CloseTypes'
  <2> DEFINE u == Totals(session[closing[c].run].legs["up"])
  <2>1. Taking(c) /\ u \in Figure
    BY <1>4, <1>7 DEF ReadUp, Taking, Dir
  <2>2. PICK k : /\ \/ k = [closing[c] EXCEPT !.up = u, !.pc = "saving"]
                    \/ k = Answered
                 /\ closing' = [closing EXCEPT ![c] = k]
    BY <1>0, <1>7 DEF ReadUp, CloseTypes
  <2> HIDE DEF u
  <2>3. k \in Closing /\ (k.pc = "saving" => k.run \in Run) /\ k.pc \in {"saving", "answered"}
    BY <1>0, <1>3, <1>4a, <2>1, <2>2 DEF CloseTypes, Closing, ClosePc
  <2>. QED
    BY <1>2, <2>2, <2>3
<1>8. ASSUME NEW c \in Closer, Save(c) \/ SaveFails(c) PROVE CloseTypes'
  <2>1. closing' = [closing EXCEPT ![c] = Answered]
    BY <1>8 DEF Save, SaveFails
  <2>. QED
    BY <1>2, <1>4a, <2>1
<1>10. CASE Restart
  <2>1. \A c \in Closer : /\ closing'[c] \in Closing
                          /\ closing'[c].pc \in {"waiting", "answered"}
    BY <1>3, <1>4a, <1>10 DEF Restart, Unfinished, Closing, ClosePc
  <2>2. closing' \in [Closer -> Closing]
    BY <1>10, <2>1 DEF Restart
  <2>. QED
    BY <2>1, <2>2 DEF CloseTypes, Taking
<1>. QED
  BY <1>1, <1>5, <1>6, <1>7, <1>8, <1>10
     DEF Next, vars, Tick, OpenRun, SweepActive, SweepIdle, SweepDelete, Insert, Accept, Reject, LookUp, BeginStream, MoveBytes,
         EndStream, Release

LEMMA RowTypesNext == Types /\ [Next]_vars => results' \in Seq(SavedRow)
<1> SUFFICES ASSUME Types, [Next]_vars PROVE results' \in Seq(SavedRow)
  OBVIOUS
<1>1. ASSUME NEW c \in Closer, Save(c) PROVE results' \in Seq(SavedRow)
  <2>1. closing[c] \in Closing /\ closing[c].run \in Run
    BY <1>1 DEF Types, CloseTypes, Save, Taking
  <2>2. Row(c) \in SavedRow
    BY <2>1 DEF Row, SavedRow, Types, StoreTypes, Closing
  <2>. QED
    BY <1>1, <2>2 DEF Save, Types
<1>. QED
  BY <1>1
     DEF Types, Next, vars, Tick, OpenRun, SweepActive, SweepIdle, SweepDelete, Insert, Accept, Reject, LookUp, BeginStream, MoveBytes,
         EndStream, Release, Close, ReadDown, ReadUp, SaveFails, Restart

LEMMA TypesNext == Types /\ Locked /\ [Next]_vars => Types'
<1> SUFFICES ASSUME Types, Locked, [Next]_vars PROVE Types'
  OBVIOUS
<1>1. now' \in Nat
  <2>1. now' = now \/ now' = now + 1
    BY DEF Next, vars, Tick, OpenRun, SweepActive, SweepIdle, SweepDelete, Insert, Accept, Reject, LookUp, BeginStream, MoveBytes,
           EndStream, Release, Close, ReadDown, ReadUp, Save, SaveFails, Restart
  <2>. QED
    BY <2>1 DEF Types
<1>2. SlotTypes'
  BY SlotTypesNext DEF Types
<1>. QED
  BY <1>1, <1>2, StoreTypesNext, SweepTypesNext, RequestTypesNext, CloseTypesNext, RowTypesNext
     DEF Types

LEMMA TypesInit == Init => Types
<1> SUFFICES ASSUME Init PROVE Types
  OBVIOUS
<1>1. SlotTypes
  BY DEF Init, SlotTypes, Limiter!Init, Limiter!Phase, Client
<1>2. StoreTypes
  <2>1. NewSession(0) \in Session
    BY DEF NewSession, NewLeg, Session, Leg
  <2>. QED
    BY <2>1 DEF Init, StoreTypes, Client, Fate
<1>3. RequestTypes
  <2>1. Idling \in Request
    BY DEF Idling, Request, Dir
  <2>. QED
    BY <2>1 DEF Init, RequestTypes
<1>4. CloseTypes
  <2>1. NotYet \in Closing /\ NotYet.pc = "waiting"
    BY DEF NotYet, Nothing, Closing, ClosePc, Figure
  <2>. QED
    BY <2>1 DEF Init, CloseTypes, Taking
<1>5. results \in Seq(SavedRow) /\ now \in Nat
  BY DEF Init
<1>6. SweepTypes
  BY DEF Init, SweepTypes, Unlocked, Opening, Client
<1>. QED
  BY <1>1, <1>2, <1>3, <1>4, <1>5, <1>6 DEF Types

-----------------------------------------------------------------------------
(***************************************************************************)
(* Slots, the size of the store, and whose run a request has.              *)
(***************************************************************************)
LEMMA SlotNext ==
  Types /\ SlotWhileServed /\ [Next]_vars => SlotWhileServed'
<1> SUFFICES ASSUME Types, SlotWhileServed, [Next]_vars PROVE SlotWhileServed'
  OBVIOUS
<1>0. /\ phase \in [Stream -> Limiter!Phase] /\ req \in [Stream -> Request]
      /\ \A s \in Stream : phase[s] = "held" <=> req[s].pc # "idle"
  BY DEF Types, SlotTypes, RequestTypes, SlotWhileServed
<1>1. CASE UNCHANGED <<phase, req>>
  BY <1>0, <1>1 DEF SlotWhileServed
<1>2. ASSUME NEW s \in Stream, UNCHANGED phase, req[s].pc # "idle",
             NEW q, q.pc # "idle", req' = [req EXCEPT ![s] = q]
      PROVE  SlotWhileServed'
  BY <1>0, <1>2 DEF SlotWhileServed
<1>3. ASSUME NEW s \in Stream, NEW a \in Client, NEW d \in Dir,
             NEW r \in Run \cup {NoRun}, Accept(s, a, d, r)
      PROVE  SlotWhileServed'
  <2>1. [Idling EXCEPT !.pc = "accepted", !.quotes = r, !.dir = d].pc = "accepted"
    BY DEF Idling
  <2>. QED
    BY <1>0, <1>3, <2>1 DEF Accept, Limiter!Acquire, SlotWhileServed
<1>4. ASSUME NEW s \in Stream, NEW a \in Client, Reject(s, a) PROVE SlotWhileServed'
  BY <1>0, <1>4 DEF Reject, Limiter!Refuse, SlotWhileServed
<1>5. ASSUME NEW s \in Stream, LookUp(s) PROVE SlotWhileServed'
  <2> DEFINE r == Get(req[s].quotes, addr[s])
             q == IF r = NoRun THEN [Idling EXCEPT !.pc = "moving"]
                  ELSE [req[s] EXCEPT !.pc = "found", !.run = r, !.quotes = NoRun, !.since = now]
  <2>1. req' = [req EXCEPT ![s] = q] /\ q.pc # "idle"
    BY <1>0, <1>5 DEF LookUp, Request, Idling
  <2>2. UNCHANGED phase /\ req[s].pc # "idle"
    BY <1>5 DEF LookUp, limiter
  <2>. QED
    BY <1>2, <2>1, <2>2
<1>6. ASSUME NEW s \in Stream, BeginStream(s) PROVE SlotWhileServed'
  BY <1>0, <1>6 DEF BeginStream, limiter, Request, SlotWhileServed
<1>7. ASSUME NEW s \in Stream, NEW n \in Amount, MoveBytes(s, n) PROVE SlotWhileServed'
  BY <1>0, <1>7 DEF MoveBytes, limiter, Request, SlotWhileServed
<1>8. ASSUME NEW s \in Stream, EndStream(s) PROVE SlotWhileServed'
  BY <1>0, <1>8 DEF EndStream, limiter, Idling, SlotWhileServed
<1>9. ASSUME NEW s \in Stream, Release(s) PROVE SlotWhileServed'
  BY <1>0, <1>9 DEF Release, Limiter!Release, Idling, SlotWhileServed
<1>10. CASE Restart
  BY <1>10 DEF Restart, Idling, SlotWhileServed
<1>. QED
  BY <1>1, <1>3, <1>4, <1>5, <1>6, <1>7, <1>8, <1>9, <1>10
     DEF Next, vars, limiter, Tick, OpenRun, SweepActive, SweepIdle, SweepDelete, Insert, Close,
         ReadDown, ReadUp, Save, SaveFails

LEMMA BoundedNext == Types /\ Bounded /\ [Next]_vars => Bounded'
<1> SUFFICES ASSUME Types, Bounded, [Next]_vars PROVE Bounded'
  OBVIOUS
<1>0. Limit \in Nat \ {0}
  BY RunsAssumption DEF Limit
<1>1. ASSUME sessions' \subseteq sessions PROVE Bounded'
  <2>1. IsFiniteSet(sessions') /\ Cardinality(sessions') <= Cardinality(sessions)
    BY <1>1, FS_Subset DEF Bounded
  <2>2. Cardinality(sessions) \in Nat /\ Cardinality(sessions') \in Nat
    BY <2>1, FS_CardinalityType DEF Bounded
  <2>3. Limit' = Limit
    BY DEF Limit
  <2>. QED
    BY <1>0, <2>1, <2>2, <2>3 DEF Bounded, StoreBounded
<1>2. CASE Insert
  <2>1. CASE StoreFull
    BY <1>1, <1>2, <2>1 DEF Insert, store
  <2>2. CASE ~StoreFull
    <3>1. sessions' = sessions \cup {opening.run}
      BY <1>2, <2>2 DEF Insert
    <3>2. IsFiniteSet(sessions) /\ Cardinality(sessions) \in Nat
      BY FS_CardinalityType DEF Bounded
    <3>3. ~(Cardinality(sessions) >= Limit)
      BY <2>2 DEF StoreFull
    <3>4. /\ IsFiniteSet(sessions')
          /\ Cardinality(sessions') = Cardinality(sessions)
                \/ Cardinality(sessions') = Cardinality(sessions) + 1
      BY <3>1, <3>2, FS_AddElement
    <3>5. Limit' = Limit
      BY DEF Limit
    <3>. QED
      BY <1>0, <3>2, <3>3, <3>4, <3>5 DEF Bounded, StoreBounded
  <2>. QED
    BY <2>1, <2>2
<1>. QED
  BY <1>1, <1>2
     DEF Next, vars, store, Tick, OpenRun, SweepActive, SweepIdle, SweepDelete, Accept, Reject,
         LookUp, BeginStream, MoveBytes, EndStream, Release, Close, ReadDown, ReadUp, Save,
         SaveFails, Restart

(***************************************************************************)
(* An identifier that was handed out stays handed out, and its run keeps   *)
(* the address that opened it.                                             *)
(***************************************************************************)
LEMMA UsedStays ==
  ASSUME Types, Locked, [Next]_vars, NEW r \in Run, fate[r] # "unused"
  PROVE  fate'[r] # "unused" /\ owner'[r] = owner[r]
<1>0. fate \in [Run -> Fate] /\ owner \in [Run -> Client]
  BY DEF Types, StoreTypes
<1>1. CASE UNCHANGED <<fate, owner>>
  BY <1>1
<1>2. CASE Insert
  <2>1. opening.run # r
    BY <1>2 DEF Insert, Locked, StoreFree
  <2>. QED
    BY <1>0, <1>2, <2>1 DEF Insert, store
<1>3. ASSUME NEW c \in Closer, NEW q \in Run, NEW a \in Client, Close(c, q, a)
      PROVE  fate'[r] # "unused" /\ owner'[r] = owner[r]
  BY <1>0, <1>3 DEF Close
<1>4. CASE Restart
  BY <1>0, <1>4 DEF Restart
<1>5. CASE SweepDelete
  BY <1>0, <1>5 DEF SweepDelete
<1>6. ASSUME NEW c \in Closer, ReadUp(c) \/ Save(c) \/ SaveFails(c)
      PROVE  fate'[r] # "unused" /\ owner'[r] = owner[r]
  BY <1>0, <1>6 DEF ReadUp, Save, SaveFails
<1>. QED
  BY <1>1, <1>2, <1>3, <1>4, <1>5, <1>6
     DEF Next, vars, store, Tick, OpenRun, SweepActive, SweepIdle, Accept, Reject, LookUp,
         BeginStream, MoveBytes, EndStream, Release, ReadDown

(***************************************************************************)
(* A request gets a run from the store alone, and only one of its address. *)
(***************************************************************************)
LEMMA RunFrom ==
  ASSUME Types, [Next]_vars, NEW s \in Stream, req'[s].run # NoRun
  PROVE  /\ addr'[s] = addr[s]
         /\ \/ req'[s].run = req[s].run
            \/ req'[s].run \in sessions /\ owner[req'[s].run] = addr[s]
<1>0. /\ req \in [Stream -> Request] /\ addr \in [Stream -> Client]
  BY DEF Types, RequestTypes, SlotTypes
<1> DEFINE Good == /\ addr'[s] = addr[s]
                   /\ \/ req'[s].run = req[s].run
                      \/ req'[s].run \in sessions /\ owner[req'[s].run] = addr[s]
<1>1. CASE UNCHANGED <<req, addr>>
  BY <1>1
<1>2. ASSUME NEW u \in Stream, LookUp(u) PROVE Good
  <2>1. UNCHANGED addr
    BY <1>2 DEF LookUp, limiter
  <2>2. u # s => req'[s].run = req[s].run
    BY <1>0, <1>2 DEF LookUp
  <2>3. u = s => req'[s].run = Get(req[s].quotes, addr[s])
    BY <1>0, <1>2 DEF LookUp, Request, Idling
  <2>. QED
    BY <2>1, <2>2, <2>3 DEF Get
<1>3. ASSUME NEW u \in Stream, NEW a \in Client, NEW d \in Dir,
             NEW r \in Run \cup {NoRun}, Accept(u, a, d, r)
      PROVE  Good
  <2>1. req'[u].run = NoRun
    BY <1>0, <1>3 DEF Accept, Idling
  <2>2. u # s
    BY <2>1
  <2>. QED
    BY <1>0, <1>3, <2>2 DEF Accept, Limiter!Acquire
<1>4. ASSUME NEW u \in Stream, BeginStream(u) PROVE Good
  BY <1>0, <1>4 DEF BeginStream, limiter, Request
<1>5. ASSUME NEW u \in Stream, NEW n \in Amount, MoveBytes(u, n) PROVE Good
  BY <1>0, <1>5 DEF MoveBytes, limiter, Request
<1>6. ASSUME NEW u \in Stream, EndStream(u) PROVE Good
  BY <1>0, <1>6 DEF EndStream, limiter, Idling
<1>7. ASSUME NEW u \in Stream, Release(u) PROVE Good
  BY <1>0, <1>7 DEF Release, Limiter!Release, Idling
<1>8. ASSUME NEW u \in Stream, NEW a \in Client, Reject(u, a) PROVE Good
  BY <1>0, <1>8 DEF Reject, Limiter!Refuse
<1>9. ASSUME Restart PROVE FALSE
  BY <1>9 DEF Restart, Idling
<1>. QED
  BY <1>1, <1>2, <1>3, <1>4, <1>5, <1>6, <1>7, <1>8, <1>9
     DEF Next, vars, limiter, Tick, OpenRun, SweepActive, SweepIdle, SweepDelete, Insert,
         Close, ReadDown, ReadUp, Save, SaveFails

LEMMA StagesNext == Types /\ Locked /\ Stages /\ [Next]_vars => Stages'
<1> SUFFICES ASSUME Types, Locked, Stages, [Next]_vars PROVE Stages'
  OBVIOUS
<1>0. /\ StoreTypes /\ req \in [Stream -> Request]
      /\ \A s \in Stream : req[s].run \in Run \cup {NoRun}
  BY DEF Types, RequestTypes, Request
<1>1. \A r \in sessions' : fate'[r] # "unused"
  <2>1. \A r \in sessions : fate'[r] # "unused"
    BY <1>0, UsedStays DEF Stages, StoreTypes
  <2>2. CASE sessions' \subseteq sessions
    BY <2>1, <2>2
  <2>3. ASSUME Insert, ~StoreFull PROVE \A q \in sessions' : fate'[q] # "unused"
    <3>1. opening.run \in Run
      BY <2>3 DEF Insert, Locked, StoreFree
    <3>2. sessions' = sessions \cup {opening.run} /\ fate'[opening.run] = "open"
      BY <1>0, <2>3, <3>1 DEF Insert, StoreTypes
    <3>. QED
      BY <2>1, <3>2
  <2>. QED
    BY <2>2, <2>3
       DEF Next, vars, store, Tick, OpenRun, SweepActive, SweepIdle, SweepDelete, Insert,
           Accept, Reject, LookUp, BeginStream, MoveBytes, EndStream, Release, Close,
           ReadDown, ReadUp, Save, SaveFails, Restart
<1> DEFINE Fits(q) == /\ q.pc \in {"idle", "accepted", "ended"} => q.run = NoRun
                      /\ q.pc = "found" => q.run # NoRun
<1>2. \A s \in Stream : Fits(req'[s])
  <2>1. CASE UNCHANGED req
    BY <2>1 DEF Stages
  <2>2. ASSUME NEW s \in Stream, NEW q, Fits(q), req' = [req EXCEPT ![s] = q]
        PROVE  \A u \in Stream : Fits(req'[u])
    BY <1>0, <2>2 DEF Stages
  <2>3. ASSUME NEW s \in Stream, NEW a \in Client, NEW d \in Dir,
               NEW r \in Run \cup {NoRun}, Accept(s, a, d, r)
        PROVE  \A u \in Stream : Fits(req'[u])
    <3>1. Fits([Idling EXCEPT !.pc = "accepted", !.quotes = r, !.dir = d])
      BY DEF Idling
    <3>. QED
      BY <2>2, <2>3, <3>1 DEF Accept
  <2>4. ASSUME NEW s \in Stream, LookUp(s) PROVE \A u \in Stream : Fits(req'[u])
    BY <1>0, <2>4 DEF LookUp, Stages, Request, Idling
  <2>5. ASSUME NEW s \in Stream, BeginStream(s) PROVE \A u \in Stream : Fits(req'[u])
    BY <1>0, <2>5 DEF BeginStream, Stages, Request
  <2>6. ASSUME NEW s \in Stream, NEW n \in Amount, MoveBytes(s, n)
        PROVE  \A u \in Stream : Fits(req'[u])
    BY <1>0, <2>6 DEF MoveBytes, Stages, Request
  <2>7. ASSUME NEW s \in Stream, EndStream(s) PROVE \A u \in Stream : Fits(req'[u])
    BY <1>0, <2>7 DEF EndStream, Stages, Idling
  <2>8. ASSUME NEW s \in Stream, Release(s) PROVE \A u \in Stream : Fits(req'[u])
    BY <1>0, <2>8 DEF Release, Stages, Idling
  <2>9. CASE Restart
    BY <2>9 DEF Restart, Idling
  <2>. QED
    BY <2>1, <2>3, <2>4, <2>5, <2>6, <2>7, <2>8, <2>9
       DEF Next, vars, Tick, OpenRun, SweepActive, SweepIdle, SweepDelete, Insert, Reject,
           Close, ReadDown, ReadUp, Save, SaveFails
<1>3. ASSUME NEW s \in Stream, req'[s].run # NoRun PROVE fate'[req'[s].run] # "unused"
  <2>1. CASE req'[s].run = req[s].run
    BY <1>0, <1>3, <2>1, UsedStays DEF Stages
  <2>2. CASE req'[s].run \in sessions
    BY <1>0, <2>2, UsedStays DEF StoreTypes, Stages
  <2>. QED
    BY <1>3, <2>1, <2>2, RunFrom
<1>. QED
  BY <1>1, <1>2, <1>3 DEF Stages

LEMMA OwnNext ==
  Types /\ Locked /\ Stages /\ OwnTrafficOnly /\ [Next]_vars => OwnTrafficOnly'
<1> SUFFICES ASSUME Types, Locked, Stages, OwnTrafficOnly, [Next]_vars,
                    NEW s \in Stream, req'[s].run # NoRun
             PROVE  owner'[req'[s].run] = addr'[s]
  BY DEF OwnTrafficOnly
<1>0. req[s].run \in Run \cup {NoRun} /\ sessions \subseteq Run
  BY DEF Types, RequestTypes, Request, StoreTypes
<1>1. CASE req'[s].run = req[s].run
  BY <1>0, <1>1, RunFrom, UsedStays DEF Stages, OwnTrafficOnly
<1>2. CASE req'[s].run \in sessions /\ owner[req'[s].run] = addr[s]
  BY <1>0, <1>2, RunFrom, UsedStays DEF Stages
<1>. QED
  BY <1>1, <1>2, RunFrom

-----------------------------------------------------------------------------
(***************************************************************************)
(* The open counts are the requests that transfer.                         *)
(***************************************************************************)
LEMMA CountedNext == Types /\ Locked /\ Stages /\ Counted /\ [Next]_vars => Counted'
<1> SUFFICES ASSUME Types, Locked, Stages, Counted, [Next]_vars, NEW r \in Run, NEW d \in Dir
             PROVE  /\ IsFiniteSet(Transferring(r, d)')
                    /\ r \in sessions' \/ Users(r)' # {} =>
                          session'[r].legs[d].open = Cardinality(Transferring(r, d)')
  BY DEF Counted, OpenCountsRequests
<1> DEFINE Live == r \in sessions \/ Users(r) # {}
           Right == /\ IsFiniteSet(Transferring(r, d)')
                    /\ r \in sessions' \/ Users(r)' # {} =>
                          session'[r].legs[d].open = Cardinality(Transferring(r, d)')
<1>0. /\ req \in [Stream -> Request] /\ StoreTypes /\ r # NoRun
      /\ IsFiniteSet(Transferring(r, d))
      /\ Live => session[r].legs[d].open = Cardinality(Transferring(r, d))
      /\ Transferring(r, d) # {} => Live
  BY RunsAssumption DEF Types, RequestTypes, Counted, OpenCountsRequests, Transferring, Users
<1>1. ASSUME Transferring(r, d)' = Transferring(r, d),
             session'[r].legs[d].open = session[r].legs[d].open,
             r \in sessions' => r \in sessions,
             Users(r)' # {} => Users(r) # {} \/ r \in sessions
      PROVE  Right
  BY <1>0, <1>1
<1>2. CASE UNCHANGED <<store, req>>
  BY <1>1, <1>2 DEF store, Transferring, Users
<1>3. CASE Insert
  <2> DEFINE q == opening.run
  <2>1. q \in Run /\ fate[q] = "unused"
    BY <1>3 DEF Insert, Locked, StoreFree
  <2>2. Transferring(r, d)' = Transferring(r, d) /\ Users(r)' = Users(r)
    BY <1>3 DEF Insert, Transferring, Users
  <2>3. CASE StoreFull
    BY <1>2, <1>3, <2>3 DEF Insert
  <2>4. CASE ~StoreFull /\ q # r
    <3> HIDE DEF q
    <3>1. sessions' = sessions \cup {q} /\ session'[r] = session[r]
      BY <1>0, <1>3, <2>1, <2>4 DEF q, Insert, StoreTypes
    <3>. QED
      BY <1>1, <2>2, <2>4, <3>1
  <2>5. CASE ~StoreFull /\ q = r
    <3>1. Users(r) = {}
      BY <1>0, <2>1, <2>5 DEF Stages, Users
    <3>2. Transferring(r, d)' = {}
      BY <2>2, <3>1 DEF Transferring, Users
    <3>3. session'[r].legs[d].open = 0
      <4>1. session'[r] = NewSession(opening.at)
        BY <1>0, <1>3, <2>5 DEF Insert, StoreTypes
      <4>. QED
        BY <4>1 DEF NewSession, NewLeg
    <3>. QED
      BY <3>2, <3>3, FS_EmptySet
  <2>. QED
    BY <2>3, <2>4, <2>5
<1>4. ASSUME NEW s \in Stream, NEW a \in Client, NEW e \in Dir,
             NEW q \in Run \cup {NoRun}, Accept(s, a, e, q)
      PROVE  Right
  <2>1. /\ req'[s].pc = "accepted" /\ req'[s].run = NoRun /\ req[s].run = NoRun
        /\ \A u \in Stream \ {s} : req'[u] = req[u]
    BY <1>0, <1>4 DEF Accept, Idling, Stages
  <2>2. Transferring(r, d)' = Transferring(r, d) /\ Users(r)' = Users(r)
    BY <1>0, <2>1 DEF Transferring, Users
  <2>. QED
    BY <1>1, <1>4, <2>2 DEF Accept, store
<1>5. ASSUME NEW s \in Stream, NEW a \in Client, Reject(s, a) PROVE Right
  BY <1>2, <1>5 DEF Reject
<1>6. ASSUME NEW s \in Stream, LookUp(s) PROVE Right
  <2>1. /\ req'[s].pc \in {"moving", "found"}
        /\ req'[s].run = Get(req[s].quotes, addr[s])
        /\ req'[s].pc = "moving" => req'[s].run = NoRun
        /\ req[s].pc = "accepted"
        /\ \A u \in Stream \ {s} : req'[u] = req[u]
    BY <1>0, <1>6 DEF LookUp, Request, Idling
  <2>2. Transferring(r, d)' = Transferring(r, d)
    BY <1>0, <2>1 DEF Transferring
  <2>3. Users(r)' # {} => Users(r) # {} \/ r \in sessions
    BY <1>0, <2>1 DEF Users, Get
  <2>. QED
    BY <1>1, <1>6, <2>2, <2>3 DEF LookUp, store
<1>7. ASSUME NEW s \in Stream, BeginStream(s) PROVE Right
  <2> DEFINE e == req[s].dir
  <2>1. PICK t \in Stamps(req[s].since) :
           session' = [session EXCEPT ![req[s].run] = Begin(@, e, t)]
    BY <1>7 DEF BeginStream
  <2>2. /\ req'[s].pc = "moving" /\ req'[s].run = req[s].run /\ req'[s].dir = e
        /\ req[s].pc = "found" /\ UNCHANGED sessions
        /\ \A u \in Stream \ {s} : req'[u] = req[u]
        /\ Users(r)' = Users(r)
    BY <1>0, <1>7 DEF BeginStream, Request, Users
  <2>3. CASE req[s].run # r
    <3>1. Transferring(r, d)' = Transferring(r, d)
      BY <2>2, <2>3 DEF Transferring
    <3>2. session'[r] = session[r]
      BY <1>0, <2>1, <2>3 DEF StoreTypes
    <3>. QED
      BY <1>1, <2>2, <3>1, <3>2
  <2>4. CASE req[s].run = r
    <3>1. t \in Nat /\ e \in Dir /\ 0 \in Nat /\ session[r] \in Session
      BY <1>0 DEF Types, RequestTypes, Request, Stamps, StoreTypes
    <3>2. session'[r] = Begin(session[r], e, t)
      BY <1>0, <2>1, <2>4 DEF StoreTypes
    <3>3. session'[r].legs[d].open = IF d = e THEN session[r].legs[d].open + 1
                                              ELSE session[r].legs[d].open
      <4>1. Begin(session[r], e, t).legs[d].open =
               IF d = e THEN session[r].legs[d].open + 1 ELSE session[r].legs[d].open
        <5> HIDE DEF e
        <5>. QED
          BY <3>1, SessionTypes
      <4>. QED
        BY <3>2, <4>1
    <3>4. CASE d # e
      <4>1. Transferring(r, d)' = Transferring(r, d)
        BY <2>2, <3>4 DEF Transferring
      <4>. QED
        BY <1>1, <2>2, <3>3, <3>4, <4>1
    <3>5. CASE d = e
      <4>1. Transferring(r, d)' = Transferring(r, d) \cup {s} /\ s \notin Transferring(r, d)
        BY <2>2, <2>4, <3>5 DEF Transferring
      <4>2. Live
        BY <2>4 DEF Users
      <4>. QED
        BY <1>0, <3>3, <3>5, <4>1, <4>2, FS_AddElement
    <3>. QED
      BY <3>4, <3>5
  <2>. QED
    BY <2>3, <2>4
<1>8. ASSUME NEW s \in Stream, NEW n \in Amount, MoveBytes(s, n) PROVE Right
  <2>1. /\ req'[s].pc = "moving" /\ req'[s].run = req[s].run /\ req'[s].dir = req[s].dir
        /\ req[s].pc = "moving" /\ UNCHANGED sessions
        /\ \A u \in Stream \ {s} : req'[u] = req[u]
    BY <1>0, <1>8 DEF MoveBytes, Request
  <2>2. Transferring(r, d)' = Transferring(r, d) /\ Users(r)' = Users(r)
    BY <2>1 DEF Transferring, Users
  <2>3. CASE UNCHANGED session
    BY <1>1, <2>1, <2>2, <2>3
  <2>4. ASSUME NEW t \in Stamps(req[s].since),
               session' = [session EXCEPT ![req[s].run] = Add(@, req[s].dir, n, t)]
        PROVE  Right
    <3>1. t \in Nat /\ n \in Nat /\ req[s].dir \in Dir /\ session[r] \in Session
      BY <1>0, RunsAssumption DEF Types, RequestTypes, Request, Stamps, StoreTypes
    <3>2. session'[r] = session[r] \/ session'[r] = Add(session[r], req[s].dir, n, t)
      BY <1>0, <2>4 DEF StoreTypes
    <3>3. Add(session[r], req[s].dir, n, t).legs[d].open = session[r].legs[d].open
      <4> DEFINE e == req[s].dir
      <4>1. e \in Dir
        BY <3>1
      <4> HIDE DEF e
      <4>2. Add(session[r], e, n, t).legs[d].open = session[r].legs[d].open
        BY <3>1, <4>1, AddKeepsOpen
      <4>. QED
        BY <4>2 DEF e
    <3>4. session'[r].legs[d].open = session[r].legs[d].open
      BY <3>2, <3>3
    <3>. QED
      BY <1>1, <2>1, <2>2, <3>4
  <2>. QED
    BY <1>8, <2>3, <2>4 DEF MoveBytes
<1>9. ASSUME NEW s \in Stream, EndStream(s) PROVE Right
  <2> DEFINE e == req[s].dir
  <2>1. /\ req'[s].pc = "ended" /\ req'[s].run = NoRun
        /\ req[s].pc = "moving" /\ UNCHANGED sessions
        /\ \A u \in Stream \ {s} : req'[u] = req[u]
    BY <1>0, <1>9 DEF EndStream, Idling
  <2>2. Users(r)' \subseteq Users(r)
    BY <1>0, <2>1 DEF Users
  <2>3. CASE req[s].run # r
    <3>1. Transferring(r, d)' = Transferring(r, d)
      BY <1>0, <2>1, <2>3 DEF Transferring
    <3>2. session'[r] = session[r]
      BY <1>0, <1>9, <2>3 DEF EndStream, StoreTypes
    <3>. QED
      BY <1>1, <2>1, <2>2, <3>1, <3>2
  <2>4. CASE req[s].run = r
    <3>1. req[s].deferred \in Nat /\ e \in Dir /\ 0 \in Nat /\ session[r] \in Session
      BY <1>0 DEF Request, StoreTypes
    <3>2. session'[r] = End(session[r], e, req[s].deferred)
      BY <1>0, <1>9, <2>4 DEF EndStream, StoreTypes
    <3>3. session'[r].legs[d].open = IF d = e THEN session[r].legs[d].open - 1
                                              ELSE session[r].legs[d].open
      BY <3>1, <3>2, SessionTypes
    <3>4. CASE d # e
      <4>1. Transferring(r, d)' = Transferring(r, d)
        BY <2>1, <3>4 DEF Transferring
      <4>. QED
        BY <1>1, <2>1, <2>2, <3>3, <3>4, <4>1
    <3>5. CASE d = e
      <4>1. Transferring(r, d)' = Transferring(r, d) \ {s} /\ s \in Transferring(r, d)
        BY <2>1, <2>4, <3>5 DEF Transferring
      <4>2. Live
        BY <2>4 DEF Users
      <4>. QED
        BY <1>0, <3>3, <3>5, <4>1, <4>2, FS_RemoveElement
    <3>. QED
      BY <3>4, <3>5
  <2>. QED
    BY <2>3, <2>4
<1>10. ASSUME NEW s \in Stream, Release(s) PROVE Right
  <2>1. /\ req'[s].pc = "idle" /\ req'[s].run = NoRun /\ req[s].run = NoRun
        /\ \A u \in Stream \ {s} : req'[u] = req[u]
    BY <1>0, <1>10 DEF Release, Idling, Stages
  <2>2. Transferring(r, d)' = Transferring(r, d) /\ Users(r)' = Users(r)
    BY <1>0, <2>1 DEF Transferring, Users
  <2>. QED
    BY <1>1, <1>10, <2>2 DEF Release, store
<1>11. ASSUME NEW c \in Closer, NEW q \in Run, NEW a \in Client, Close(c, q, a) PROVE Right
  <2>1. Transferring(r, d)' = Transferring(r, d) /\ Users(r)' = Users(r)
    BY <1>11 DEF Close, Transferring, Users
  <2>. QED
    BY <1>1, <1>11, <2>1 DEF Close
<1>13. CASE SweepDelete
  <2>1. Transferring(r, d)' = Transferring(r, d) /\ Users(r)' = Users(r)
    BY <1>13 DEF SweepDelete, Transferring, Users
  <2>. QED
    BY <1>1, <1>13, <2>1 DEF SweepDelete
<1>14. ASSUME NEW c \in Closer, ReadUp(c) \/ Save(c) \/ SaveFails(c) PROVE Right
  <2>1. UNCHANGED <<sessions, session, req>>
    BY <1>14 DEF ReadUp, Save, SaveFails
  <2>. QED
    BY <1>1, <2>1 DEF Transferring, Users
<1>12. CASE Restart
  <2>1. \A u \in Stream : req'[u].run = NoRun
    BY <1>12 DEF Restart, Idling
  <2>2. Transferring(r, d)' = {}
    BY <1>0, <2>1 DEF Transferring
  <2>3. Users(r)' = {}
    BY <1>0, <2>1 DEF Users
  <2>4. sessions' = {}
    BY <1>12 DEF Restart
  <2>. QED
    BY <2>2, <2>3, <2>4, FS_EmptySet
<1>. QED
  BY <1>2, <1>3, <1>4, <1>5, <1>6, <1>7, <1>8, <1>9, <1>10, <1>11, <1>12, <1>13, <1>14
     DEF Next, vars, Tick, OpenRun, SweepActive, SweepIdle, ReadDown

-----------------------------------------------------------------------------
(***************************************************************************)
(* Runs that left the store, the requests that close them, and the rows.   *)
(***************************************************************************)
LEMMA ShutStays ==
  ASSUME Types, Locked, [Next]_vars, NEW r, Shut(r)
  PROVE  /\ Shut(r)' /\ owner'[r] = owner[r]
         /\ Users(r) = {} => Users(r)' = {} /\ session'[r] = session[r]
<1>0. /\ req \in [Stream -> Request] /\ StoreTypes /\ r # NoRun
      /\ r \in Run /\ r \notin sessions /\ fate[r] # "unused"
  BY RunsAssumption DEF Types, RequestTypes, Shut
<1>1. fate'[r] # "unused" /\ owner'[r] = owner[r]
  BY <1>0, UsedStays
<1>1a. Insert => opening.run # r
  BY <1>0 DEF Insert, Locked, StoreFree
<1>2. r \notin sessions'
  BY <1>0, <1>1a
     DEF Next, vars, store, Tick, OpenRun, SweepActive, SweepIdle, SweepDelete, Insert,
         Accept, Reject, LookUp, BeginStream, MoveBytes, EndStream, Release, Close,
         ReadDown, ReadUp, Save, SaveFails, Restart
<1>3. ASSUME Users(r) = {} PROVE Users(r)' = {}
  <2> SUFFICES ASSUME NEW s \in Stream, req'[s].run = r PROVE FALSE
    BY DEF Users
  <2>. QED
    BY <1>0, <1>3, RunFrom DEF Users
<1>4. ASSUME Users(r) = {} PROVE session'[r] = session[r]
  <2>1. \A s \in Stream : req[s].run # r
    BY <1>4 DEF Users
  <2>2. CASE Insert
    BY <1>0, <1>1a, <2>2 DEF Insert, StoreTypes, store
  <2>3. ASSUME NEW s \in Stream, BeginStream(s) PROVE session'[r] = session[r]
    BY <1>0, <2>1, <2>3 DEF BeginStream, StoreTypes
  <2>4. ASSUME NEW s \in Stream, NEW n \in Amount, MoveBytes(s, n)
        PROVE  session'[r] = session[r]
    BY <1>0, <2>1, <2>4 DEF MoveBytes, StoreTypes
  <2>5. ASSUME NEW s \in Stream, EndStream(s) PROVE session'[r] = session[r]
    BY <1>0, <2>1, <2>5 DEF EndStream, StoreTypes
  <2>. QED
    BY <2>2, <2>3, <2>4, <2>5
       DEF Next, vars, store, Tick, OpenRun, SweepActive, SweepIdle, SweepDelete, Accept,
           Reject, LookUp, Release, Close, ReadDown, ReadUp, Save, SaveFails, Restart
<1>. QED
  BY <1>0, <1>1, <1>2, <1>3, <1>4 DEF Shut

LEMMA RowStays ==
  ASSUME Types, Locked, [Next]_vars, NEW row, RowSound(row)
  PROVE  RowSound(row)'
<1>1. /\ Shut(row.run)' /\ owner'[row.run] = owner[row.run]
      /\ row.clean => Users(row.run)' = {} /\ session'[row.run] = session[row.run]
  BY ShutStays DEF RowSound
<1>. QED
  BY <1>1 DEF RowSound, Final

(***************************************************************************)
(* The table grows by the row of a close request that took its run.        *)
(***************************************************************************)
LEMMA TableGrows ==
  ASSUME [Next]_vars
  PROVE  \/ UNCHANGED results
         \/ \E c \in Closer : Save(c)
BY DEF Next, vars, Tick, OpenRun, SweepActive, SweepIdle, SweepDelete, Insert, Accept, Reject, LookUp, BeginStream, MoveBytes,
       EndStream, Release, Close, ReadDown, ReadUp, SaveFails, Restart

LEMMA RowAdded ==
  ASSUME Types, NEW c \in Closer, Save(c)
  PROVE  /\ DOMAIN results' = DOMAIN results \cup {Len(results) + 1}
         /\ Len(results) + 1 \notin DOMAIN results
         /\ results'[Len(results) + 1] = Row(c)
         /\ \A i \in DOMAIN results : results'[i] = results[i]
         /\ Recorded' = Recorded \cup {closing[c].run}
<1>1. results \in Seq(SavedRow) /\ results' = Append(results, Row(c))
  BY DEF Types, Save
<1>2. /\ DOMAIN results' = DOMAIN results \cup {Len(results) + 1}
      /\ Len(results) + 1 \notin DOMAIN results
      /\ results'[Len(results) + 1] = Row(c)
      /\ \A i \in DOMAIN results : results'[i] = results[i]
  BY <1>1
<1>3. Row(c).run = closing[c].run
  BY DEF Row
<1>. QED
  BY <1>2, <1>3 DEF Recorded

LEMMA RowsNext ==
  ASSUME Types, Locked, Claims, Sole, RowsSound, OneRowPerRun, [Next]_vars
  PROVE  RowsSound' /\ OneRowPerRun'
<1>1. \A row : RowSound(row) => RowSound(row)'
  BY RowStays
<1>2. CASE UNCHANGED results
  <2>1. RowsSound'
    <3> SUFFICES ASSUME NEW i \in DOMAIN results' PROVE RowSound(results[i])'
      BY DEF RowsSound
    <3>1. PICK row : row = results[i]
      OBVIOUS
    <3>2. RowSound(row)'
      BY <1>1, <1>2, <3>1 DEF RowsSound
    <3>3. results'[i] = row
      BY <1>2, <3>1
    <3>. QED
      BY <3>2, <3>3 DEF RowSound
  <2>. QED
    BY <1>2, <2>1 DEF OneRowPerRun
<1>3. ASSUME NEW c \in Closer, Save(c) PROVE RowsSound' /\ OneRowPerRun'
  <2>1. Taking(c) /\ Claim(c) /\ closing[c].pc = "saving"
    BY <1>3 DEF Claims, Save, Taking
  <2>2. RowSound(Row(c))
    BY <2>1 DEF Claim, RowSound, Row
  <2>3. Row(c).run = closing[c].run /\ closing[c].run \notin Recorded
    BY <2>1 DEF Row, Claim
  <2> DEFINE row == Row(c)
             n == Len(results) + 1
  <2>4. /\ DOMAIN results' = DOMAIN results \cup {n} /\ n \notin DOMAIN results
        /\ results'[n] = row
        /\ \A i \in DOMAIN results : results'[i] = results[i]
    BY <1>3, RowAdded
  <2>5. OneRowPerRun'
    <3>1. \A i \in DOMAIN results : results'[i].run # results'[n].run
      BY <2>3, <2>4 DEF Recorded
    <3> HIDE DEF n, row
    <3>. QED
      BY <2>4, <3>1 DEF OneRowPerRun
  <2>6. PICK kept : kept = row
    OBVIOUS
  <2>7. RowSound(kept)'
    BY <2>2, <2>6, RowStays
  <2>8. ASSUME NEW i \in DOMAIN results' PROVE RowSound(results[i])'
    <3>1. CASE i \in DOMAIN results
      <4>1. PICK old : old = results[i]
        OBVIOUS
      <4>2. RowSound(old)'
        BY <1>1, <3>1, <4>1 DEF RowsSound
      <4>3. results'[i] = old
        BY <2>4, <3>1, <4>1
      <4>. QED
        BY <4>2, <4>3 DEF RowSound
    <3>2. CASE i = n
      <4>1. results'[i] = kept
        BY <2>4, <2>6, <3>2
      <4>. QED
        BY <2>7, <4>1 DEF RowSound
    <3>. QED
      BY <2>4, <2>8, <3>1, <3>2
  <2>. QED
    BY <2>5, <2>8 DEF RowsSound
<1>. QED
  BY <1>2, <1>3, TableGrows

LEMMA ClaimStays ==
  ASSUME Types, Locked, [Next]_vars, NEW c \in Closer, Claim(c),
         closing'[c] = closing[c], closing[c].run \notin Recorded'
  PROVE  Claim(c)'
<1> DEFINE r == closing[c].run
<1>1. PICK q : q = r
  OBVIOUS
<1>2. Shut(q)
  BY <1>1 DEF Claim
<1>3. /\ Shut(q)'
      /\ Users(q) = {} => Users(q)' = {} /\ session'[q] = session[q]
  BY <1>2, ShutStays
<1>. QED
  BY <1>1, <1>3 DEF Claim, Final, Shut, Users

(***************************************************************************)
(* What a step does to a close request that has its run afterwards.        *)
(***************************************************************************)
LEMMA TakingFrom ==
  ASSUME Types, [Next]_vars, NEW c \in Closer, Taking(c)'
  PROVE  \/ Taking(c) /\ closing'[c] = closing[c]
         \/ Taking(c) /\ (ReadDown(c) \/ ReadUp(c))
         \/ /\ \E r \in Run, a \in Client : r \in sessions /\ Close(c, r, a)
                                            /\ closing'[c].run = r
            /\ closing'[c].pc = "taken"
            /\ closing[c].pc = "waiting"
            /\ \A e \in Closer \ {c} : closing'[e] = closing[e]
<1>0. /\ closing \in [Closer -> Closing]
      /\ closing'[c].pc \in {"taken", "halfRead", "saving"}
  BY DEF Types, CloseTypes, Taking
<1> DEFINE Goal == \/ Taking(c) /\ closing'[c] = closing[c]
                   \/ Taking(c) /\ (ReadDown(c) \/ ReadUp(c))
                   \/ /\ \E r \in Run, a \in Client : r \in sessions /\ Close(c, r, a)
                                                      /\ closing'[c].run = r
                      /\ closing'[c].pc = "taken"
                      /\ closing[c].pc = "waiting"
                      /\ \A e \in Closer \ {c} : closing'[e] = closing[e]
<1>1. CASE closing'[c] = closing[c]
  BY <1>0, <1>1 DEF Taking
<1>2. ASSUME NEW e \in Closer, NEW r \in Run, NEW a \in Client, Close(e, r, a) PROVE Goal
  <2>1. CASE e # c
    BY <1>0, <1>1, <1>2, <2>1 DEF Close
  <2>2. CASE e = c
    <3>1. r \in sessions /\ owner[r] = a
      BY <1>0, <1>2, <2>2 DEF Close, Answered, NotYet
    <3>2. /\ closing' = [closing EXCEPT ![c] = [@ EXCEPT !.pc = "taken", !.run = r,
                                                         !.clean = Users(r) = {}]]
          /\ closing[c].pc = "waiting"
      BY <1>0, <1>2, <2>2, <3>1 DEF Close
    <3>3. closing'[c].run = r /\ closing'[c].pc = "taken"
      BY <1>0, <3>2 DEF Closing
    <3>. QED
      BY <1>0, <1>2, <2>2, <3>1, <3>2, <3>3
  <2>. QED
    BY <2>1, <2>2
<1>3. ASSUME NEW e \in Closer, ReadDown(e) \/ ReadUp(e) PROVE Goal
  BY <1>0, <1>1, <1>3 DEF ReadDown, ReadUp, Taking
<1>4. ASSUME NEW e \in Closer, Save(e) \/ SaveFails(e) PROVE Goal
  <2>1. e # c
    BY <1>0, <1>4 DEF Save, SaveFails, Answered, NotYet
  <2>. QED
    BY <1>0, <1>1, <1>4, <2>1 DEF Save, SaveFails
<1>5. ASSUME Restart PROVE FALSE
  BY <1>0, <1>5 DEF Restart, Unfinished, Answered, NotYet
<1>. QED
  BY <1>1, <1>2, <1>3, <1>4, <1>5
     DEF Next, vars, Tick, OpenRun, SweepActive, SweepIdle, SweepDelete, Insert, Accept, Reject, LookUp, BeginStream, MoveBytes,
         EndStream, Release

\* Reading the totals keeps the run, unless that is the end of it.
LEMMA ReadingKeeps ==
  ASSUME Types, NEW c \in Closer, ReadDown(c) \/ ReadUp(c), Taking(c)'
  PROVE  closing'[c].run = closing[c].run /\ UNCHANGED fate
<1>0. closing \in [Closer -> Closing]
  BY DEF Types, CloseTypes
<1>1. CASE ReadDown(c)
  BY <1>0, <1>1 DEF ReadDown, Closing, store
<1>2. CASE ReadUp(c)
  <2> DEFINE up == Totals(session[closing[c].run].legs["up"])
  <2>1. StoreEnabled /\ (Worthwhile(closing[c].down) \/ Worthwhile(up))
    BY <1>0, <1>2 DEF ReadUp, Taking, Answered, NotYet
  <2>2. /\ closing' = [closing EXCEPT ![c] = [@ EXCEPT !.up = up, !.pc = "saving"]]
        /\ UNCHANGED fate
    BY <1>2, <2>1 DEF ReadUp
  <2> HIDE DEF up
  <2>. QED
    BY <1>0, <2>2 DEF Closing
<1>. QED
  BY <1>1, <1>2

LEMMA SoleNext ==
  ASSUME Types, Claims, Sole, [Next]_vars
  PROVE  Sole'
<1> SUFFICES ASSUME NEW c \in Closer, NEW e \in Closer, Taking(c)', Taking(e)',
                    closing'[c].run = closing'[e].run, c # e
             PROVE  FALSE
  BY DEF Sole
<1>0. closing \in [Closer -> Closing]
  BY DEF Types, CloseTypes
<1>1. ASSUME NEW k \in Closer, Taking(k), Taking(k)',
             closing'[k] = closing[k] \/ ReadDown(k) \/ ReadUp(k)
      PROVE  closing'[k].run = closing[k].run /\ closing[k].run \notin sessions
  <2>1. closing[k].run \notin sessions
    BY <1>1 DEF Claims, Claim, Shut
  <2>. QED
    BY <1>1, <2>1, ReadingKeeps
<1>2. ASSUME NEW k \in Closer, NEW l \in Closer, k # l, Taking(k)', Taking(l)',
             closing'[k].run = closing'[l].run,
             closing'[k].pc = "taken", closing[k].pc = "waiting",
             closing'[k].run \in sessions,
             \A j \in Closer \ {k} : closing'[j] = closing[j]
      PROVE  FALSE
  <2>1. Taking(l) /\ closing'[l] = closing[l]
    BY <1>2 DEF Taking
  <2>. QED
    BY <1>1, <1>2, <2>1
<1>3. ASSUME NEW k \in Closer, Taking(k)'
      PROVE  \/ Taking(k) /\ closing'[k].run = closing[k].run
             \/ /\ closing'[k].pc = "taken" /\ closing[k].pc = "waiting"
                /\ closing'[k].run \in sessions
                /\ \A j \in Closer \ {k} : closing'[j] = closing[j]
  BY <1>1, <1>3, TakingFrom
<1>. QED
  BY <1>2, <1>3 DEF Sole

LEMMA ClaimsNext ==
  ASSUME Types, Locked, Stages, Claims, Sole, RowsSound, [Next]_vars
  PROVE  Claims'
<1> SUFFICES ASSUME NEW c \in Closer, Taking(c)' PROVE Claim(c)'
  BY DEF Claims
<1>0. closing \in [Closer -> Closing] /\ Sole'
  BY SoleNext DEF Types, CloseTypes
<1>1. CASE Taking(c) /\ closing'[c] = closing[c]
  <2>1. Claim(c) /\ closing[c].run \notin Recorded
    BY <1>1 DEF Claims, Claim
  <2>2. ASSUME NEW e \in Closer, Save(e) PROVE closing[c].run \notin Recorded'
    <3>1. Taking(e) /\ closing'[e].pc = "answered" /\ closing[e].pc = "saving"
      BY <1>0, <2>2 DEF Save, Taking, Answered, NotYet
    <3>2. c # e
      BY <1>1, <3>1 DEF Taking
    <3>3. closing[c].run # closing[e].run
      BY <1>1, <3>1, <3>2 DEF Sole
    <3>. QED
      BY <2>1, <2>2, <3>3, RowAdded
  <2>3. closing[c].run \notin Recorded'
    BY <2>1, <2>2, TableGrows DEF Recorded
  <2>. QED
    BY <1>1, <2>1, <2>3, ClaimStays
<1>2. CASE Taking(c) /\ ReadDown(c)
  <2>1. Claim(c)
    BY <1>2 DEF Claims
  <2>2. /\ closing'[c].pc = "halfRead" /\ closing'[c].run = closing[c].run
        /\ closing'[c].clean = closing[c].clean
        /\ closing'[c].down = Totals(session[closing[c].run].legs["down"])
        /\ UNCHANGED <<sessions, fate, session, req, results>>
    BY <1>0, <1>2 DEF ReadDown, Closing, store
  <2>. QED
    BY <2>1, <2>2 DEF Claim, Shut, Final, Users, Recorded
<1>3. CASE Taking(c) /\ ReadUp(c)
  <2>1. Claim(c) /\ closing[c].pc = "halfRead"
    BY <1>3 DEF Claims, ReadUp
  <2> DEFINE u == Totals(session[closing[c].run].legs["up"])
  <2>2. /\ UNCHANGED <<sessions, fate, session, req, results>>
        /\ closing' = [closing EXCEPT ![c] = [@ EXCEPT !.up = u, !.pc = "saving"]]
        /\ Worthwhile(closing[c].down) \/ Worthwhile(u)
    BY <1>0, <1>3 DEF ReadUp, Taking, Answered, NotYet
  <2>3. /\ closing'[c].up = u /\ closing'[c].run = closing[c].run
        /\ closing'[c].clean = closing[c].clean /\ closing'[c].down = closing[c].down
        /\ closing'[c].pc = "saving"
    BY <1>0, <2>2 DEF Closing
  <2>. QED
    BY <2>1, <2>2, <2>3 DEF Claim, Shut, Final, Users, Recorded
<1>4. ASSUME NEW r \in Run, NEW a \in Client, r \in sessions, Close(c, r, a)
      PROVE  Claim(c)'
  <2>1. /\ owner[r] = a /\ sessions' = sessions \ {r} /\ fate' = [fate EXCEPT ![r] = "closed"]
        /\ closing' = [closing EXCEPT ![c] = [@ EXCEPT !.pc = "taken", !.run = r,
                                                       !.clean = Users(r) = {}]]
        /\ UNCHANGED <<session, req, results>>
    <3>1. owner[r] = a
      BY <1>0, <1>4 DEF Close, Answered, NotYet, Taking
    <3>. QED
      BY <1>0, <1>4, <3>1 DEF Close
  <2>2. /\ closing'[c].pc = "taken" /\ closing'[c].run = r
        /\ closing'[c].clean = (Users(r) = {})
    BY <1>0, <2>1 DEF Closing
  <2>3. Shut(r)'
    BY <2>1 DEF Shut, Types, StoreTypes
  <2>4. r \notin Recorded
    BY <1>4 DEF RowsSound, RowSound, Shut, Recorded
  <2>5. Recorded' = Recorded /\ Users(r)' = Users(r)
    BY <2>1 DEF Recorded, Users
  <2>6. closing'[c].clean => Users(r)' = {}
    BY <2>2, <2>5
  <2>7. Shut(closing[c].run)'
    BY <2>2, <2>3 DEF Shut
  <2>8. closing'[c].clean => Users(closing[c].run)' = {}
    BY <2>2, <2>6 DEF Users
  <2>. QED
    BY <2>2, <2>4, <2>5, <2>7, <2>8 DEF Claim
<1>. QED
  BY <1>1, <1>2, <1>3, <1>4, TakingFrom

(***************************************************************************)
(* What each step does to the fate of a run, and with it to the store and  *)
(* the results table.                                                      *)
(***************************************************************************)
LEMMA FatesAgree ==
  ASSUME Types, Locked, Fates, [Next]_vars, NEW r \in Run
  PROVE  (r \in sessions' <=> fate'[r] = "open") /\ (r \in Recorded' <=> fate'[r] = "recorded")
<1> DEFINE Agree == /\ r \in sessions' <=> fate'[r] = "open"
                    /\ r \in Recorded' <=> fate'[r] = "recorded"
<1>0. /\ fate \in [Run -> Fate] /\ sessions \subseteq Run
      /\ r \in sessions <=> fate[r] = "open"
      /\ r \in Recorded <=> fate[r] = "recorded"
      /\ \A c \in Closer : Taking(c) => closing[c].run \in Run /\ fate[closing[c].run] = "closed"
  BY DEF Types, CloseTypes, StoreTypes, Fates
<1>1. CASE UNCHANGED <<sessions, fate, results>>
  BY <1>0, <1>1 DEF Recorded
<1>2. CASE Insert
  <2>1. CASE StoreFull
    BY <1>1, <1>2, <2>1 DEF Insert, store
  <2>2. CASE ~StoreFull
    <3>1. fate[opening.run] = "unused" /\ opening.run \in Run
      BY <1>2 DEF Insert, Locked, StoreFree
    <3>2. /\ sessions' = sessions \cup {opening.run} /\ Recorded' = Recorded
          /\ fate' = [fate EXCEPT ![opening.run] = "open"]
      BY <1>2, <2>2 DEF Insert, Recorded
    <3>. QED
      BY <1>0, <3>1, <3>2
  <2>. QED
    BY <2>1, <2>2
<1>3. CASE SweepDelete
  <2>1. opening.found \in sessions /\ opening.found \in Run
    BY <1>0, <1>3 DEF SweepDelete, Locked
  <2>2. /\ sessions' = sessions \ {opening.found} /\ Recorded' = Recorded
        /\ fate' = [fate EXCEPT ![opening.found] = "swept"]
    BY <1>3 DEF SweepDelete, Recorded
  <2>3. fate[opening.found] = "open"
    BY <2>1 DEF Fates
  <2>. QED
    BY <1>0, <2>1, <2>2, <2>3
<1>4. ASSUME NEW c \in Closer, NEW q \in Run, NEW a \in Client, Close(c, q, a) PROVE Agree
  <2>1. CASE q \in sessions /\ owner[q] = a
    <3>1. /\ sessions' = sessions \ {q} /\ fate' = [fate EXCEPT ![q] = "closed"]
          /\ Recorded' = Recorded
      BY <1>4, <2>1 DEF Close, Recorded
    <3>2. fate[q] = "open"
      BY <2>1 DEF Fates
    <3>. QED
      BY <1>0, <3>1, <3>2
  <2>2. CASE ~(q \in sessions /\ owner[q] = a)
    BY <1>1, <1>4, <2>2 DEF Close
  <2>. QED
    BY <2>1, <2>2
<1>5. ASSUME NEW c \in Closer, ReadUp(c) \/ SaveFails(c) PROVE Agree
  <2>1. fate[closing[c].run] = "closed" /\ closing[c].run \in Run
    BY <1>0, <1>5 DEF ReadUp, SaveFails, Taking
  <2>2. /\ UNCHANGED sessions /\ Recorded' = Recorded
        /\ \/ UNCHANGED fate
           \/ fate' = [fate EXCEPT ![closing[c].run] = "dropped"]
    BY <1>5 DEF ReadUp, SaveFails, Recorded
  <2>. QED
    BY <1>0, <2>1, <2>2
<1>6. ASSUME NEW c \in Closer, Save(c) PROVE Agree
  <2>1. fate[closing[c].run] = "closed" /\ closing[c].run \in Run
    BY <1>0, <1>6 DEF Save, Taking
  <2>2. /\ UNCHANGED sessions /\ Recorded' = Recorded \cup {closing[c].run}
        /\ fate' = [fate EXCEPT ![closing[c].run] = "recorded"]
    BY <1>6, RowAdded DEF Save
  <2>. QED
    BY <1>0, <2>1, <2>2
<1>7. CASE Restart
  <2>1. Recorded' = Recorded /\ sessions' = {}
        /\ fate'[r] = IF fate[r] \in {"open", "closed"} THEN "lost" ELSE fate[r]
    BY <1>7 DEF Restart, Recorded
  <2>. QED
    BY <1>0, <2>1
<1>. QED
  BY <1>1, <1>2, <1>3, <1>4, <1>5, <1>6, <1>7
     DEF Next, vars, store, Tick, OpenRun, SweepActive, SweepIdle, Accept, Reject, LookUp,
         BeginStream, MoveBytes, EndStream, Release, ReadDown

LEMMA FatesNext ==
  ASSUME Types, Locked, Claims, Sole, Fates, [Next]_vars
  PROVE  Fates'
<1>0. /\ closing \in [Closer -> Closing] /\ fate \in [Run -> Fate]
      /\ \A c \in Closer : Taking(c) => closing[c].run \in Run /\ fate[closing[c].run] = "closed"
  BY DEF Types, CloseTypes, StoreTypes, Fates
<1>1. ASSUME NEW c \in Closer, Taking(c)' PROVE fate'[closing'[c].run] = "closed"
  <2>1. CASE Taking(c) /\ closing'[c] = closing[c]
    <3> DEFINE r == closing[c].run
    <3>1. r \in Run /\ fate[r] = "closed" /\ r \notin sessions
      BY <1>0, <2>1 DEF Fates
    <3>2. CASE UNCHANGED fate
      BY <2>1, <3>1, <3>2
    <3>3. CASE Insert
      BY <1>0, <3>1, <3>3 DEF Insert, Locked, StoreFree, store
    <3>4. CASE SweepDelete
      BY <1>0, <3>1, <3>4 DEF SweepDelete, Locked
    <3>5. ASSUME NEW e \in Closer, NEW q \in Run, NEW a \in Client, Close(e, q, a)
          PROVE  fate'[r] = "closed"
      BY <1>0, <3>1, <3>5 DEF Close
    <3>6. ASSUME NEW e \in Closer, ReadUp(e) \/ Save(e) \/ SaveFails(e)
          PROVE  fate'[r] = "closed"
      <4>1. CASE UNCHANGED fate
        BY <3>1, <4>1
      <4>2. CASE ~UNCHANGED fate
        <5>1. Taking(e) /\ closing'[e] = Answered
          BY <1>0, <3>6, <4>2 DEF ReadUp, Save, SaveFails, Taking
        <5>2. e # c
          BY <1>1, <5>1 DEF Taking, Answered, NotYet
        <5>3. closing[e].run # r
          BY <2>1, <5>1, <5>2 DEF Sole
        <5>. QED
          BY <1>0, <3>1, <3>6, <5>3 DEF ReadUp, Save, SaveFails
      <4>. QED
        BY <4>1, <4>2
    <3>7. ASSUME Restart PROVE FALSE
      <4>1. closing'[c].pc = "answered"
        BY <1>0, <2>1, <3>7 DEF Restart, Taking, Unfinished, Answered, NotYet
      <4>. QED
        BY <1>1, <4>1 DEF Taking
    <3>. QED
      BY <2>1, <3>2, <3>3, <3>4, <3>5, <3>6, <3>7
         DEF Next, vars, store, Tick, OpenRun, SweepActive, SweepIdle, Accept, Reject,
             LookUp, BeginStream, MoveBytes, EndStream, Release, ReadDown
  <2>2. CASE Taking(c) /\ (ReadDown(c) \/ ReadUp(c))
    <3>1. closing'[c].run = closing[c].run /\ UNCHANGED fate
      BY <1>1, <2>2, ReadingKeeps
    <3>. QED
      BY <1>0, <2>2, <3>1
  <2>3. ASSUME NEW r \in Run, NEW a \in Client, r \in sessions, Close(c, r, a),
               closing'[c].run = r, closing'[c].pc = "taken"
        PROVE  fate'[closing'[c].run] = "closed"
    BY <1>0, <2>3 DEF Close, Answered, NotYet
  <2>. QED
    BY <1>1, <2>1, <2>2, <2>3, TakingFrom
<1>. QED
  BY <1>1, FatesAgree DEF Fates

-----------------------------------------------------------------------------
(***************************************************************************)
(* The holder of Store.mu, and the streams it must not cut off.            *)
(***************************************************************************)
LEMMA LockedNext ==
  ASSUME Types, Locked, Fates, [Next]_vars
  PROVE  Locked'
<1>0. /\ opening \in Opening /\ fate \in [Run -> Fate] /\ sessions \subseteq Run
      /\ Unlocked = [pc |-> "none", run |-> NoRun, by |-> Invalid, at |-> 0,
                     left |-> {}, found |-> NoRun]
      /\ \A r \in sessions : fate[r] = "open"
      /\ \A c \in Closer : Taking(c) => fate[closing[c].run] = "closed"
      /\ StoreFree <=> opening.pc = "none"
      /\ StoreFree' <=> opening'.pc = "none"
  BY DEF Types, SweepTypes, StoreTypes, Unlocked, Fates, StoreFree
<1>1. CASE opening' = Unlocked
  BY <1>0, <1>1 DEF Locked
<1>2. CASE opening' = opening /\ sessions' = sessions /\ \A r \in Run : fate[r] = "unused" => fate'[r] = "unused"
  BY <1>0, <1>2 DEF Locked
<1>3. ASSUME NEW r \in Run, NEW a \in Client, OpenRun(r, a) PROVE Locked'
  <2>1. PICK t \in Stamps(1) :
           opening' = [Unlocked EXCEPT !.pc = "sweeping", !.run = r, !.by = a,
                                       !.at = t, !.left = sessions]
    BY <1>3 DEF OpenRun
  <2>2. opening'.pc = "sweeping" /\ opening'.run = r /\ opening'.left = sessions
    BY <1>0, <2>1
  <2>. QED
    BY <1>0, <1>3, <2>2 DEF OpenRun, Locked, store
<1>4. ASSUME NEW r \in Run, SweepActive(r) PROVE Locked'
  <2>1. /\ opening'.pc \in {"sweeping", "quiet"} /\ opening'.run = opening.run
        /\ opening'.left = opening.left \ {r}
        /\ opening'.pc = "quiet" => opening'.found = r
        /\ opening.pc = "sweeping" /\ r \in opening.left /\ UNCHANGED store
    BY <1>0, <1>4 DEF SweepActive, Opening
  <2>. QED
    BY <1>0, <2>1 DEF Locked, store
<1>5. CASE SweepIdle
  <2>1. /\ opening'.pc \in {"sweeping", "stale"} /\ opening'.run = opening.run
        /\ opening'.left = opening.left
        /\ opening'.pc = "stale" => opening'.found = opening.found
        /\ opening.pc = "quiet" /\ UNCHANGED store
    BY <1>0, <1>5 DEF SweepIdle, Opening
  <2>. QED
    BY <1>0, <2>1 DEF Locked, store
<1>6. CASE SweepDelete
  <2>1. /\ opening'.pc = "sweeping" /\ opening'.run = opening.run
        /\ opening'.left = opening.left /\ opening.pc = "stale"
        /\ sessions' = sessions \ {opening.found}
        /\ fate' = [fate EXCEPT ![opening.found] = "swept"]
    BY <1>0, <1>6 DEF SweepDelete, Opening
  <2>2. opening.found \in sessions \ opening.left /\ fate[opening.run] = "unused"
        /\ opening.run \in Run
    BY <1>0, <2>1 DEF Locked
  <2>3. fate'[opening.run] = "unused"
    BY <1>0, <2>1, <2>2
  <2>. QED
    BY <1>0, <2>1, <2>2, <2>3 DEF Locked
<1>7. ASSUME NEW c \in Closer, NEW r \in Run, NEW a \in Client, Close(c, r, a) PROVE Locked'
  BY <1>0, <1>1, <1>7 DEF Close, Locked, sweep
<1>8. ASSUME NEW c \in Closer, ReadUp(c) \/ Save(c) \/ SaveFails(c) PROVE Locked'
  <2>1. fate[closing[c].run] = "closed"
    BY <1>0, <1>8 DEF ReadUp, Save, SaveFails, Taking
  <2>2. /\ UNCHANGED <<opening, sessions>>
        /\ \/ UNCHANGED fate
           \/ fate' = [fate EXCEPT ![closing[c].run] = "dropped"]
           \/ fate' = [fate EXCEPT ![closing[c].run] = "recorded"]
    BY <1>8 DEF ReadUp, Save, SaveFails, sweep
  <2>. QED
    BY <1>0, <1>2, <2>1, <2>2
<1>. QED
  BY <1>1, <1>2, <1>3, <1>4, <1>5, <1>6, <1>7, <1>8
     DEF Next, vars, store, sweep, Tick, Insert, Accept, Reject, LookUp, BeginStream,
         MoveBytes, EndStream, Release, ReadDown, Restart

\* A run for which a request moves bytes is Active to whoever asks.
LEMMA MovingIsActive ==
  ASSUME Types, Counted, NEW r \in Run, NEW s \in Moving, req[s].run = r
  PROVE  Active(session[r])
<1> DEFINE d == req[s].dir
           T == Transferring(r, d)
<1>1. s \in Stream /\ req[s].pc = "moving" /\ d \in Dir /\ session[r] \in Session
  BY DEF Moving, Types, RequestTypes, Request, StoreTypes
<1>2. s \in T /\ IsFiniteSet(T) /\ session[r].legs[d].open = Cardinality(T)
  BY <1>1 DEF Counted, OpenCountsRequests, Transferring, Users
<1> HIDE DEF T
<1>3. Cardinality(T) \in Nat /\ Cardinality(T) # 0
  BY <1>2, FS_CardinalityType, FS_EmptySet
<1>4. session[r].legs[d].open > 0
  BY <1>2, <1>3
<1>. QED
  BY <1>1, <1>4 DEF Active

LEMMA SparingNext ==
  ASSUME Types, Locked, Counted, Sparing, [Next]_vars
  PROVE  Sparing'
<1>0. /\ req \in [Stream -> Request] /\ opening \in Opening
      /\ steady \subseteq Moving /\ Moving \subseteq Stream /\ sessions \subseteq Run
      /\ opening.pc \in {"quiet", "stale"} => \A s \in steady : req[s].run # opening.found
  BY DEF Types, RequestTypes, SweepTypes, StoreTypes, Sparing, Moving
<1>1. CASE UNCHANGED <<sweep, req>>
  BY <1>1 DEF Sparing, Moving, sweep
<1>2. CASE steady' = {}
  BY <1>2 DEF Sparing
<1>3. ASSUME NEW r \in Run, NEW a \in Client, OpenRun(r, a) PROVE Sparing'
  <2>1. steady' = Moving' /\ opening'.pc = "sweeping"
    BY <1>3 DEF OpenRun, Moving, Unlocked
  <2>. QED
    BY <2>1 DEF Sparing
<1>4. ASSUME NEW r \in Run, SweepActive(r) PROVE Sparing'
  <2>1. /\ opening'.pc = "quiet" => opening'.found = r /\ ~Active(session[r])
        /\ opening'.pc \in {"sweeping", "quiet"} /\ UNCHANGED <<steady, req>>
    BY <1>0, <1>4 DEF SweepActive, Opening
  <2>2. opening'.pc = "quiet" => \A s \in steady : req[s].run # r
    BY <1>0, <2>1, MovingIsActive
  <2>. QED
    BY <1>0, <2>1, <2>2 DEF Sparing, Moving
<1>5. CASE SweepIdle \/ SweepDelete
  <2>1. /\ opening'.pc = "stale" => opening.pc = "quiet" /\ opening'.found = opening.found
        /\ opening'.pc \in {"sweeping", "stale"} /\ UNCHANGED <<steady, req>>
    BY <1>0, <1>5 DEF SweepIdle, SweepDelete, Opening
  <2>. QED
    BY <1>0, <2>1 DEF Sparing, Moving
<1>6. ASSUME NEW s \in Stream, UNCHANGED sweep, req[s].pc # "moving",
             \A u \in Stream \ {s} : req'[u] = req[u]
      PROVE  Sparing'
  <2>1. s \notin steady
    BY <1>0, <1>6 DEF Moving
  <2>2. \A u \in steady : req'[u] = req[u]
    BY <1>0, <1>6, <2>1
  <2>. QED
    BY <1>0, <1>6, <2>2 DEF Sparing, Moving, sweep
<1>7. ASSUME NEW s \in Stream, NEW a \in Client, NEW d \in Dir,
             NEW r \in Run \cup {NoRun}, Accept(s, a, d, r)
      PROVE  Sparing'
  BY <1>0, <1>6, <1>7 DEF Accept
<1>8. ASSUME NEW s \in Stream, LookUp(s) \/ BeginStream(s) \/ Release(s) PROVE Sparing'
  BY <1>0, <1>6, <1>8 DEF LookUp, BeginStream, Release
<1>9. ASSUME NEW s \in Stream, NEW n \in Amount, MoveBytes(s, n) PROVE Sparing'
  <2>1. /\ \A u \in Stream : req'[u].pc = req[u].pc /\ req'[u].run = req[u].run
        /\ UNCHANGED sweep
    BY <1>0, <1>9 DEF MoveBytes, Request
  <2>. QED
    BY <1>0, <2>1 DEF Sparing, Moving, sweep
<1>10. ASSUME NEW s \in Stream, EndStream(s) PROVE Sparing'
  <2>1. steady' = steady \ {s} /\ UNCHANGED opening /\ \A u \in Stream \ {s} : req'[u] = req[u]
    BY <1>0, <1>10 DEF EndStream
  <2>. QED
    BY <1>0, <2>1 DEF Sparing, Moving
<1>. QED
  BY <1>1, <1>2, <1>3, <1>4, <1>5, <1>7, <1>8, <1>9, <1>10
     DEF Next, vars, sweep, Tick, Insert, Reject, Close, ReadDown, ReadUp, Save, SaveFails,
         Restart

-----------------------------------------------------------------------------
(***************************************************************************)
(* The inductive invariant.                                                *)
(***************************************************************************)
Inv ==
    /\ Types /\ Locked /\ Sparing /\ Stages /\ Bounded /\ Counted
    /\ SlotWhileServed /\ OwnTrafficOnly
    /\ Claims /\ Sole /\ RowsSound /\ OneRowPerRun /\ Fates

LEMMA InvInit == Init => Inv
<1> SUFFICES ASSUME Init PROVE Inv
  OBVIOUS
<1>1. Types
  BY TypesInit
<1>2. Stages /\ SlotWhileServed /\ OwnTrafficOnly
  BY DEF Init, Stages, SlotWhileServed, OwnTrafficOnly, Idling, Limiter!Init
<1>3. Bounded
  <2>1. sessions = {} /\ Limit \in Nat \ {0}
    BY RunsAssumption DEF Init, Limit
  <2>2. IsFiniteSet(sessions) /\ Cardinality(sessions) = 0
    BY <2>1, FS_EmptySet
  <2>. QED
    BY <2>1, <2>2 DEF Bounded, StoreBounded
<1>4. Counted
  <2>1. \A r \in Run : Users(r) = {} /\ sessions = {}
    BY RunsAssumption DEF Init, Users, Idling
  <2>2. \A r \in Run, d \in Dir : Transferring(r, d) = {}
    BY <2>1 DEF Users, Transferring
  <2>. QED
    BY <2>1, <2>2, FS_EmptySet DEF Counted, OpenCountsRequests
<1>5. Claims /\ Sole
  BY DEF Init, Claims, Sole, Taking, NotYet
<1>6. RowsSound /\ OneRowPerRun
  BY DEF Init, RowsSound, OneRowPerRun
<1>7. Fates
  BY DEF Init, Fates, Taking, NotYet, Recorded
<1>8. Locked /\ Sparing
  BY DEF Init, Locked, Sparing, StoreFree, Unlocked
<1>. QED
  BY <1>1, <1>2, <1>3, <1>4, <1>5, <1>6, <1>7, <1>8 DEF Inv

LEMMA InvNext == Inv /\ [Next]_vars => Inv'
BY TypesNext, LockedNext, SparingNext, StagesNext, BoundedNext, CountedNext, SlotNext,
   OwnNext, ClaimsNext, SoleNext, RowsNext, FatesNext
   DEF Inv

LEMMA InvHolds == Spec => []Inv
BY InvInit, InvNext, PTL DEF Spec

-----------------------------------------------------------------------------
(***************************************************************************)
(* The life of a run.                                                      *)
(***************************************************************************)
(***************************************************************************)
(* The steps of the ledger, as what they do to each run.                   *)
(***************************************************************************)
LEMMA LedgerStutters ==
  ASSUME UNCHANGED <<fate, results>>
  PROVE  UNCHANGED Ledger!lvars
BY DEF Ledger!lvars, Status

LEMMA LedgerMoves ==
  ASSUME UNCHANGED results, NEW R \in SUBSET Run, NEW old, NEW new,
         \A r \in R : Status(r) \in old /\ Status(r)' = new,
         \A r \in Run \ R : Status(r)' = Status(r)
  PROVE  Ledger!Becomes(R, old, new)
BY DEF Ledger!Becomes

LEMMA LedgerGivesUp ==
  ASSUME UNCHANGED results, NEW R \in SUBSET Run,
         \A r \in R : fate[r] \in {"open", "closed"} /\ fate'[r] \in {"swept", "dropped", "lost"},
         \A r \in Run \ R : fate'[r] = fate[r]
  PROVE  Ledger!LNext
<1>1. \A r \in R : Status(r) \in {"measuring", "ended"} /\ Status(r)' = "given up"
  BY DEF Status
<1>2. \A r \in Run \ R : Status(r)' = Status(r)
  BY DEF Status
<1>3. Ledger!Becomes(R, {"measuring", "ended"}, "given up")
  BY <1>1, <1>2, LedgerMoves
<1>4. Ledger!GiveUp(R)
  BY <1>3 DEF Ledger!GiveUp
<1>. QED
  BY <1>4 DEF Ledger!LNext

LEMMA InsertIsLedgerOpen ==
  ASSUME Inv, Insert
  PROVE  Ledger!LNext \/ UNCHANGED Ledger!lvars
<1>1. CASE StoreFull
  BY <1>1, LedgerStutters DEF Insert, store
<1>2. CASE ~StoreFull
  <2>1. PICK r : r = opening.run
    OBVIOUS
  <2>2. /\ r \in Run /\ fate[r] = "unused" /\ fate \in [Run -> Fate]
        /\ fate' = [fate EXCEPT ![r] = "open"] /\ UNCHANGED results
    BY <1>2, <2>1 DEF Inv, Locked, StoreFree, Insert, Types, StoreTypes
  <2>3. Status(r) = "unused" /\ Status(r)' = "measuring"
    BY <2>2 DEF Status
  <2>4. \A q \in Run \ {r} : Status(q)' = Status(q)
    BY <2>2 DEF Status
  <2>5. Ledger!Becomes({r}, {"unused"}, "measuring")
    BY <2>2, <2>3, <2>4, LedgerMoves
  <2>. QED
    BY <2>2, <2>5 DEF Ledger!LNext, Ledger!OpenRun
<1>. QED
  BY <1>1, <1>2

LEMMA CloseIsLedgerEnd ==
  ASSUME Inv, NEW c \in Closer, NEW r \in Run, NEW a \in Client, Close(c, r, a)
  PROVE  Ledger!LNext \/ UNCHANGED Ledger!lvars
<1>1. CASE r \in sessions /\ owner[r] = a
  <2>1. /\ fate' = [fate EXCEPT ![r] = "closed"] /\ UNCHANGED results
        /\ fate \in [Run -> Fate] /\ fate[r] = "open"
    BY <1>1 DEF Close, Inv, Types, StoreTypes, Fates
  <2>2. Status(r) = "measuring" /\ Status(r)' = "ended"
    BY <2>1 DEF Status
  <2>3. \A q \in Run \ {r} : Status(q)' = Status(q)
    BY <2>1 DEF Status
  <2>4. Ledger!Becomes({r}, {"measuring"}, "ended")
    BY <2>1, <2>2, <2>3, LedgerMoves
  <2>. QED
    BY <2>1, <2>4 DEF Ledger!LNext, Ledger!EndRun
<1>2. CASE ~(r \in sessions /\ owner[r] = a)
  BY <1>2, LedgerStutters DEF Close
<1>. QED
  BY <1>1, <1>2

LEMMA SaveIsLedgerRecord ==
  ASSUME Inv, NEW c \in Closer, Save(c)
  PROVE  Ledger!LNext
<1>1. PICK r : r = closing[c].run
  OBVIOUS
<1>2. /\ r \in Run /\ fate[r] = "closed" /\ fate \in [Run -> Fate]
      /\ fate' = [fate EXCEPT ![r] = "recorded"]
  BY <1>1 DEF Inv, Fates, Save, Taking, Types, StoreTypes, CloseTypes
<1>3. results \in Seq(SavedRow)
  BY DEF Inv, Types
<1>4. Status(r) = "ended" /\ Status(r)' = "recorded"
  BY <1>2 DEF Status
<1>5. \A q \in Run \ {r} : Status(q)' = Status(q)
  BY <1>2 DEF Status
<1>6. Ledger!Becomes({r}, {"ended"}, "recorded")
  BY <1>2, <1>4, <1>5 DEF Ledger!Becomes
<1> DEFINE Book == [i \in DOMAIN results |-> results[i].run]
<1>7. [i \in DOMAIN results |-> results[i].run]' = Append(Book, r)
  <2>1. results' = Append(results, Row(c)) /\ Row(c).run = r
    BY <1>1 DEF Save, Row
  <2>2. \A i \in DOMAIN results : results[i] \in SavedRow
    BY <1>3
  <2>3. Book \in Seq(Run) /\ Len(Book) = Len(results)
    BY <1>3, <2>2 DEF SavedRow
  <2>4. DOMAIN Append(Book, r) = 1..Len(results) + 1
    BY <2>3
  <2>5. \A i \in 1..Len(results) : Append(Book, r)[i] = results[i].run
    BY <1>3, <2>3
  <2>6. Append(Book, r)[Len(results) + 1] = r
    BY <2>3
  <2>7. /\ DOMAIN results' = 1..Len(results) + 1
        /\ \A i \in 1..Len(results) : results'[i] = results[i]
        /\ results'[Len(results) + 1] = Row(c)
    BY <1>3, <2>1
  <2>. QED
    BY <2>1, <2>3, <2>4, <2>5, <2>6, <2>7
<1>8. Ledger!Record(r)
  BY <1>6, <1>7 DEF Ledger!Record
<1>. QED
  BY <1>2, <1>8 DEF Ledger!LNext

LEMMA LedgerNext == Inv /\ [Next]_vars => [Ledger!LNext]_(Ledger!lvars)
<1> SUFFICES ASSUME Inv, [Next]_vars PROVE Ledger!LNext \/ UNCHANGED Ledger!lvars
  OBVIOUS
<1>0. fate \in [Run -> Fate] /\ sessions \subseteq Run
  BY DEF Inv, Types, StoreTypes
<1>1. CASE UNCHANGED <<fate, results>>
  BY <1>1, LedgerStutters
<1>2. CASE SweepDelete
  <2>1. PICK q : q = opening.found
    OBVIOUS
  <2>2. /\ q \in Run /\ fate[q] = "open" /\ UNCHANGED results
        /\ fate' = [fate EXCEPT ![q] = "swept"]
    BY <1>0, <1>2, <2>1 DEF Inv, Locked, Fates, SweepDelete
  <2> DEFINE R == {q}
  <2>3. /\ R \in SUBSET Run
        /\ \A r \in R : fate[r] \in {"open", "closed"} /\ fate'[r] \in {"swept", "dropped", "lost"}
        /\ \A r \in Run \ R : fate'[r] = fate[r]
    BY <1>0, <2>2
  <2> HIDE DEF R
  <2>. QED
    BY <2>2, <2>3, LedgerGivesUp
<1>3. ASSUME NEW c \in Closer, ReadUp(c) \/ SaveFails(c)
      PROVE  Ledger!LNext \/ UNCHANGED Ledger!lvars
  <2>1. CASE UNCHANGED fate
    BY <1>1, <1>3, <2>1 DEF ReadUp, SaveFails
  <2>2. CASE ~UNCHANGED fate
    <3>1. PICK q : q = closing[c].run
      OBVIOUS
    <3>2. /\ q \in Run /\ fate[q] = "closed" /\ UNCHANGED results
          /\ fate' = [fate EXCEPT ![q] = "dropped"]
      BY <1>3, <2>2, <3>1
         DEF ReadUp, SaveFails, Inv, Fates, Taking, Types, CloseTypes
    <3> DEFINE R == {q}
    <3>3. /\ R \in SUBSET Run
          /\ \A r \in R : fate[r] \in {"open", "closed"} /\ fate'[r] \in {"swept", "dropped", "lost"}
          /\ \A r \in Run \ R : fate'[r] = fate[r]
      BY <1>0, <3>2
    <3> HIDE DEF R
    <3>. QED
      BY <3>2, <3>3, LedgerGivesUp
  <2>. QED
    BY <2>1, <2>2
<1>4. CASE Restart
  <2> DEFINE R == {r \in Run : fate[r] \in {"open", "closed"}}
  <2>1. /\ R \in SUBSET Run /\ UNCHANGED results
        /\ \A r \in R : fate[r] \in {"open", "closed"} /\ fate'[r] \in {"swept", "dropped", "lost"}
        /\ \A r \in Run \ R : fate'[r] = fate[r]
    BY <1>0, <1>4 DEF Restart
  <2> HIDE DEF R
  <2>. QED
    BY <2>1, LedgerGivesUp
<1>. QED
  BY <1>1, <1>2, <1>3, <1>4, InsertIsLedgerOpen, CloseIsLedgerEnd, SaveIsLedgerRecord
     DEF Next, vars, store, Tick, OpenRun, SweepActive, SweepIdle, Accept, Reject, LookUp,
         BeginStream, MoveBytes, EndStream, Release, ReadDown

(***************************************************************************)
(* The server keeps the ledger that RunLedger promises, for any requests,  *)
(* failures and restarts (api.go:84-92, 121-186).                          *)
(***************************************************************************)
THEOREM KeepsLedger == Spec => LedgerKept
<1>1. Init => Ledger!LInit
  BY DEF Init, Ledger!LInit, Status, Recorded
<1>. QED
  BY <1>1, InvHolds, LedgerNext, PTL DEF Spec, LedgerKept, Ledger!LSpec

(***************************************************************************)
(* A run is recorded at most once, whatever races to close it and whatever *)
(* fails or restarts in between (session.go:296-305, api.go:128-186).      *)
(***************************************************************************)
THEOREM RecordedOnce == Spec => []OneRowPerRun
<1>1. Inv => OneRowPerRun
  BY DEF Inv
<1>. QED
  BY <1>1, InvHolds, PTL

(***************************************************************************)
(* A stored result is worth storing and belongs to the address that opened *)
(* the run; if no request held the run as it was closed, it stays the last *)
(* word on the run, because nobody can add to it any more.  Nothing is     *)
(* said of the figures of a row closed under a stream (api.go:121-150).    *)
(***************************************************************************)
THEOREM RowsStayFinal == Spec => []RowsAreFinal
<1>1. Inv => RowsAreFinal
  BY DEF Inv, RowsSound, RowSound, Final, RowsAreFinal
<1>. QED
  BY <1>1, InvHolds, PTL

(***************************************************************************)
(* Only requests of the address that opened a run add to it                *)
(* (session.go:277-293).                                                   *)
(***************************************************************************)
THEOREM TrafficIsOwn == Spec => []OwnTrafficOnly
<1>1. Inv => OwnTrafficOnly
  BY DEF Inv
<1>. QED
  BY <1>1, InvHolds, PTL

(***************************************************************************)
(* The open counts of a run are the requests that move bytes for it        *)
(* (session.go:153-172, speed.go:171-175, 237-241).                        *)
(***************************************************************************)
THEOREM OpenIsTransferring == Spec => []OpenCountsRequests
<1>1. Inv => OpenCountsRequests
  BY DEF Inv, Counted
<1>. QED
  BY <1>1, InvHolds, PTL

(***************************************************************************)
(* The store holds no more runs than it may (session.go:225-229, 262-264). *)
(***************************************************************************)
THEOREM StoreStaysBounded == Spec => []StoreBounded
<1>1. Inv => StoreBounded
  BY DEF Inv, Bounded
<1>. QED
  BY <1>1, InvHolds, PTL

(***************************************************************************)
(* A request holds its slot from acceptance to the deferred release        *)
(* (speed.go:148-153, 227-232).                                            *)
(***************************************************************************)
THEOREM SlotsAreServed == Spec => []SlotWhileServed
<1>1. Inv => SlotWhileServed
  BY DEF Inv
<1>. QED
  BY <1>1, InvHolds, PTL

(***************************************************************************)
(* The sweep drops no run for which a request has been moving bytes since  *)
(* it took the store's lock, although it looks at each session twice and   *)
(* deletes it later, and requests begin and end in between                 *)
(* (session.go:321-332).                                                   *)
(***************************************************************************)
THEOREM SweepIsSafe == Spec => SweepSparesActive
<1> DEFINE Spared == \A r \in Run : fate[r] # "swept" /\ fate'[r] = "swept" =>
                        \A s \in steady : req[s].run # r
<1>1. Inv /\ [Next]_vars => [Spared]_vars
  <2> SUFFICES ASSUME Inv, Next, NEW r \in Run, fate[r] # "swept", fate'[r] = "swept"
               PROVE  \A s \in steady : req[s].run # r
    OBVIOUS
  <2>0. fate \in [Run -> Fate]
    BY DEF Inv, Types, StoreTypes
  <2>1. SweepDelete
    <3>1. ~Insert
      BY <2>0 DEF Insert, store
    <3>2. \A c \in Closer : /\ \A q \in Run, a \in Client : ~Close(c, q, a)
                            /\ ~ReadUp(c) /\ ~Save(c) /\ ~SaveFails(c)
      BY <2>0 DEF Close, ReadUp, Save, SaveFails
    <3>3. ~Restart
      BY <2>0 DEF Restart
    <3>. QED
      BY <3>1, <3>2, <3>3
         DEF Next, store, Tick, OpenRun, SweepActive, SweepIdle, Accept, Reject, LookUp,
             BeginStream, MoveBytes, EndStream, Release, ReadDown
  <2>2. r = opening.found /\ opening.pc = "stale"
    BY <2>0, <2>1 DEF SweepDelete
  <2>. QED
    BY <2>2 DEF Inv, Sparing
<1>. QED
  BY <1>1, InvHolds, PTL DEF Spec, SweepSparesActive
=============================================================================
