--------------------------- MODULE SessionProofs ---------------------------
(***************************************************************************)
(* Proofs about Session for every ramp, tail, clock delay, set of streams  *)
(* and bound: what one run's accounting guarantees does not depend on how  *)
(* its streams interleave or how stale the times they report are.          *)
(***************************************************************************)
EXTENDS Session, FiniteSetTheorems, WellFoundedInduction, TLAPS

-----------------------------------------------------------------------------
(***************************************************************************)
(* The operators of session.go on one direction.                           *)
(***************************************************************************)

LEMMA NewLegSound == NewLeg \in Leg /\ LegSound(NewLeg)
BY SessionAssumption DEF NewLeg, Leg, LegSound

(***************************************************************************)
(* Reporting bytes keeps the marks of the window consistent, whatever time *)
(* the report carries.                                                     *)
(***************************************************************************)
LEMMA AddLegSound ==
  ASSUME NEW l \in Leg, LegSound(l), NEW n \in Nat \ {0}, NEW t \in Nat \ {0}
  PROVE  /\ AddLeg(l, n, t) \in Leg
         /\ LegSound(AddLeg(l, n, t))
         /\ AddLeg(l, n, t).open = l.open
<1> DEFINE total == l.bytes + n
           start == StartedAt(l, t)
           opens == Opens(l, t)
           counted == l.from # 0 \/ opens
           from == IF opens THEN t ELSE l.from
           fromByte == IF opens THEN total ELSE l.fromByte
           until == IF counted THEN t ELSE l.until
           byteAt == IF counted THEN total ELSE l.byteAt
<1>1. /\ total \in Nat \ {0} /\ total >= l.bytes
      /\ from \in Nat /\ fromByte \in Nat /\ until \in Nat /\ byteAt \in Nat
  BY DEF Leg
<1>2. start \in Nat \ {0} /\ (l.started # 0 => start = l.started)
  BY DEF StartedAt, Leg
<1>3. opens => l.from = 0 /\ t - start >= Grace
  BY DEF Opens
<1>4. AddLeg(l, n, t) = [l EXCEPT !.bytes = total, !.started = start,
                                  !.from = from, !.fromByte = fromByte,
                                  !.until = until, !.byteAt = byteAt]
  BY DEF AddLeg, Leg
<1> HIDE DEF start
<1>5. /\ from = 0 => until = 0 /\ fromByte = 0 /\ byteAt = 0
      /\ from # 0 => /\ from - start >= Grace
                     /\ fromByte <= byteAt
                     /\ byteAt <= total
  <2>1. CASE opens
    BY <1>1, <1>3, <2>1
  <2>2. CASE ~opens /\ l.from # 0
    BY <1>1, <1>2, <2>2 DEF LegSound, Leg
  <2>3. CASE ~opens /\ l.from = 0
    BY <2>3 DEF LegSound
  <2>. QED
    BY <2>1, <2>2, <2>3
<1> HIDE DEF total, opens, counted, from, fromByte, until, byteAt
<1>6. AddLeg(l, n, t) \in Leg
  BY <1>1, <1>2, <1>4 DEF Leg
<1>7. LegSound(AddLeg(l, n, t))
  BY <1>1, <1>2, <1>4, <1>5 DEF LegSound, Leg
<1>. QED
  BY <1>4, <1>6, <1>7 DEF Leg

LEMMA BeginLegSound ==
  ASSUME NEW l \in Leg, LegSound(l), NEW t \in Nat
  PROVE  /\ BeginLeg(l, t) \in Leg
         /\ LegSound(BeginLeg(l, t))
         /\ BeginLeg(l, t).open = l.open + 1
<1> DEFINE start == StartedAt(l, t)
<1>1. start \in Nat /\ (l.started # 0 => start = l.started)
  BY DEF StartedAt, Leg
<1>2. BeginLeg(l, t) = [l EXCEPT !.streams = @ + 1, !.open = @ + 1, !.started = start]
  BY DEF BeginLeg
<1>3. l.streams + 1 \in Nat /\ l.open + 1 \in Int
  BY DEF Leg
<1> HIDE DEF start
<1>. QED
  BY <1>1, <1>2, <1>3 DEF Leg, LegSound

LEMMA EndLegSound ==
  ASSUME NEW l \in Leg, LegSound(l)
  PROVE  /\ EndLeg(l) \in Leg
         /\ LegSound(EndLeg(l))
         /\ EndLeg(l).open = l.open - 1
BY DEF EndLeg, Leg, LegSound

(***************************************************************************)
(* Scaling a count by a fraction gives no more than the count.             *)
(***************************************************************************)
LEMMA Scaled ==
  ASSUME NEW m \in Nat, NEW k \in Nat, NEW f \in Nat \ {0}, k <= f
  PROVE  (m * k) \div f \in 0..m
<1> DEFINE p == m * k
           q == p \div f
<1>1. p \in Nat /\ p <= m * f
  OBVIOUS
<1> HIDE DEF p
<1>2. q \in Int /\ f * q <= p /\ p < f * q + f
  BY <1>1
<1>3. q >= 0
  BY <1>1, <1>2
<1>4. q <= m
  BY <1>1, <1>2
<1>. QED
  BY <1>2, <1>3, <1>4 DEF p

(***************************************************************************)
(* Consistent marks give an honest total.                                  *)
(***************************************************************************)
LEMMA SoundTotals ==
  ASSUME NEW l \in Leg, LegSound(l)
  PROVE  /\ Totals(l).measured \in 0..l.bytes
         /\ Totals(l).window >= 0
         /\ Totals(l).window > 0 =>
              Totals(l).window + Grace + Drain <= l.until - l.started
<1>0. /\ l.from \in Nat /\ l.until \in Nat /\ l.started \in Nat
      /\ l.bytes \in Nat /\ l.byteAt \in Nat /\ l.fromByte \in Nat
  BY DEF Leg
<1>1. CASE ~HasWindow(l)
  <2>1. Totals(l).measured = 0 /\ Totals(l).window = 0
    BY <1>1 DEF Totals
  <2>. QED
    BY <1>0, <2>1
<1>2. CASE HasWindow(l)
  <2> DEFINE full == l.until - l.from
             kept == l.until - Drain - l.from
             moved == l.byteAt - l.fromByte
  <2>1. /\ Totals(l).measured = (moved * kept) \div full
        /\ Totals(l).window = kept
    BY <1>2 DEF Totals
  <2>2. /\ kept \in Nat /\ kept > 0
        /\ full \in Nat \ {0}
        /\ kept <= full
    BY <1>0, <1>2, SessionAssumption DEF HasWindow
  <2>3. moved \in Nat /\ moved <= l.bytes
    BY <1>0, <1>2 DEF HasWindow, LegSound
  <2>4. Totals(l).measured \in 0..moved
    BY <2>1, <2>2, <2>3, Scaled
  <2>5. kept + Grace + Drain <= l.until - l.started
    BY <1>0, <1>2, SessionAssumption DEF HasWindow, LegSound
  <2>. QED
    BY <1>0, <2>1, <2>2, <2>3, <2>4, <2>5
<1>. QED
  BY <1>1, <1>2

-----------------------------------------------------------------------------
(***************************************************************************)
(* The inductive invariant.  The streams of a run are finitely many at any *)
(* moment though the requests that may come are not bounded.               *)
(***************************************************************************)
IInv ==
    /\ TypeOK
    /\ WindowSound
    /\ \A d \in Dir : IsFiniteSet(OpenStreams(d))
    /\ OpenIsStreams

(***************************************************************************)
(* Any time a stream may report is a positive number of ticks.             *)
(***************************************************************************)
LEMMA StampsAreTimes ==
  ASSUME TypeOK, NEW s \in Stream, NEW t \in Stamps(s)
  PROVE  t \in Nat \ {0} /\ t <= now
BY StreamAssumption DEF TypeOK, Stamps

(***************************************************************************)
(* A step that begins and ends no stream and only reports bytes, or        *)
(* nothing, keeps the invariant.                                           *)
(***************************************************************************)
LEMMA SameStreams ==
  ASSUME IInv, TypeOK', WindowSound',
         \A d \in Dir : OpenStreams(d)' = OpenStreams(d),
         \A d \in Dir : session'.legs[d].open = session.legs[d].open
  PROVE  IInv'
BY DEF IInv, OpenIsStreams

LEMMA InitIInv == Init => IInv
<1> SUFFICES ASSUME Init PROVE IInv
  OBVIOUS
<1>1. TypeOK
  BY NewLegSound, StreamAssumption
     DEF Init, TypeOK, NewSession, Session, PC
<1>2. WindowSound
  BY NewLegSound DEF Init, WindowSound, NewSession
<1>3. \A d \in Dir : OpenStreams(d) = {}
  BY DEF Init, OpenStreams
<1>4. \A d \in Dir : session.legs[d].open = 0
  BY DEF Init, NewSession, NewLeg
<1>. QED
  BY <1>1, <1>2, <1>3, <1>4, FS_EmptySet DEF IInv, OpenIsStreams
(***************************************************************************)
(* Replacing one direction of a session by a sound one.                    *)
(***************************************************************************)
LEMMA ReplaceLeg ==
  ASSUME session \in Session, WindowSound, NEW d \in Dir, NEW t \in Nat,
         NEW l \in Leg, LegSound(l),
         session' = [legs |-> [session.legs EXCEPT ![d] = l], lastTouch |-> t]
  PROVE  /\ session' \in Session
         /\ WindowSound'
         /\ session'.legs[d] = l
         /\ \A e \in Dir : e # d => session'.legs[e] = session.legs[e]
<1>1. session'.legs[d] = l /\ \A e \in Dir : e # d => session'.legs[e] = session.legs[e]
  BY DEF Session
<1>2. session' \in Session
  BY DEF Session
<1>3. ASSUME NEW e \in Dir PROVE LegSound(session'.legs[e])
  BY <1>1 DEF WindowSound
<1>. QED
  BY <1>1, <1>2, <1>3 DEF WindowSound

(***************************************************************************)
(* Begin adds its stream to the open ones of its direction.                *)
(***************************************************************************)
LEMMA BeginPreserves ==
  ASSUME IInv, NEW s \in Stream, BeginStream(s)
  PROVE  IInv'
<1>0. TypeOK /\ WindowSound /\ session \in Session
  BY DEF IInv, TypeOK
<1>1. PICK t \in Stamps(s) : session' = Begin(session, dir[s], t) /\ log' = Noted(dir[s], 0, t)
  BY DEF BeginStream
<1>2. PICK d \in Dir : d = dir[s]
  BY <1>0 DEF TypeOK
<1>3. t \in Nat /\ t # 0
  BY <1>0, StampsAreTimes
<1> DEFINE l == session.legs[d]
<1>4. l \in Leg /\ LegSound(l)
  BY <1>0 DEF Session, WindowSound
<1>5. session' = [legs |-> [session.legs EXCEPT ![d] = BeginLeg(l, t)], lastTouch |-> t]
  BY <1>0, <1>1, <1>2 DEF Begin, Session
<1>6. /\ session' \in Session
      /\ WindowSound'
      /\ session'.legs[d] = BeginLeg(l, t)
      /\ \A e \in Dir : e # d => session'.legs[e] = session.legs[e]
  BY <1>0, <1>3, <1>4, <1>5, BeginLegSound, ReplaceLeg
<1>7. log' \in [Dir -> Seq(Report)]
  BY <1>0, <1>1, <1>2, <1>3 DEF Noted, TypeOK, Report
<1>8. TypeOK'
  BY <1>0, <1>6, <1>7 DEF TypeOK, BeginStream, PC
<1>9. /\ s \notin OpenStreams(d)
      /\ OpenStreams(d)' = OpenStreams(d) \cup {s}
      /\ \A e \in Dir : e # d => OpenStreams(e)' = OpenStreams(e)
  BY <1>0, <1>2 DEF TypeOK, BeginStream, OpenStreams
<1>10. /\ session'.legs[d].open = l.open + 1
       /\ \A e \in Dir : e # d => session'.legs[e].open = session.legs[e].open
  BY <1>3, <1>4, <1>6, BeginLegSound
<1>11. ASSUME NEW e \in Dir
       PROVE  IsFiniteSet(OpenStreams(e)') /\ session'.legs[e].open = Cardinality(OpenStreams(e)')
  <2>1. IsFiniteSet(OpenStreams(e)) /\ session.legs[e].open = Cardinality(OpenStreams(e))
    BY DEF IInv, OpenIsStreams
  <2>2. CASE e = d
    BY <1>9, <1>10, <2>1, <2>2, FS_AddElement
  <2>3. CASE e # d
    BY <1>9, <1>10, <2>1, <2>3
  <2>. QED
    BY <2>2, <2>3
<1>. QED
  BY <1>6, <1>8, <1>11 DEF IInv, OpenIsStreams

(***************************************************************************)
(* Reporting bytes changes no stream's standing.                           *)
(***************************************************************************)
LEMMA MovePreserves ==
  ASSUME IInv, NEW s \in Stream, NEW n \in Amount, Move(s, n)
  PROVE  IInv'
<1>0. TypeOK /\ WindowSound /\ session \in Session
  BY DEF IInv, TypeOK
<1>1. PICK t \in Stamps(s) : session' = Add(session, dir[s], n, t) /\ log' = Noted(dir[s], n, t)
  BY DEF Move
<1>2. PICK d \in Dir : d = dir[s]
  BY <1>0 DEF TypeOK
<1>3. t \in Nat \ {0} /\ n \in Nat \ {0}
  <2>1. n \in Nat \ {0}
    BY StreamAssumption
  <2>. QED
    BY <1>0, <2>1, StampsAreTimes
<1> DEFINE l == session.legs[d]
<1>4. l \in Leg /\ LegSound(l)
  BY <1>0 DEF Session, WindowSound
<1>5. session' = [legs |-> [session.legs EXCEPT ![d] = AddLeg(l, n, t)], lastTouch |-> t]
  <2>1. session' = [session EXCEPT !.legs[d] = AddLeg(@, n, t), !.lastTouch = t]
    BY <1>1, <1>2, <1>3 DEF Add
  <2>. QED
    BY <1>0, <2>1 DEF Session
<1>6. /\ session' \in Session
      /\ WindowSound'
      /\ session'.legs[d] = AddLeg(l, n, t)
      /\ \A e \in Dir : e # d => session'.legs[e] = session.legs[e]
  BY <1>0, <1>3, <1>4, <1>5, AddLegSound, ReplaceLeg
<1>7. log' \in [Dir -> Seq(Report)]
  BY <1>0, <1>1, <1>2, <1>3 DEF Noted, TypeOK, Report
<1>8. TypeOK'
  BY <1>0, <1>6, <1>7 DEF TypeOK, Move, PC
<1>9. \A e \in Dir : OpenStreams(e)' = OpenStreams(e)
  BY DEF Move, OpenStreams
<1>10. \A e \in Dir : session'.legs[e].open = session.legs[e].open
  BY <1>3, <1>4, <1>6, AddLegSound
<1>. QED
  BY <1>6, <1>8, <1>9, <1>10, SameStreams

(***************************************************************************)
(* End takes its stream out of the open ones of its direction.             *)
(***************************************************************************)
LEMMA EndPreserves ==
  ASSUME IInv, NEW s \in Stream, EndStream(s)
  PROVE  IInv'
<1>0. TypeOK /\ WindowSound /\ session \in Session
  BY DEF IInv, TypeOK
<1>1. PICK t \in Nat : t = deferred[s]
  BY <1>0, StreamAssumption DEF TypeOK
<1>2. PICK d \in Dir : d = dir[s]
  BY <1>0 DEF TypeOK
<1> DEFINE l == session.legs[d]
<1>4. l \in Leg /\ LegSound(l)
  BY <1>0 DEF Session, WindowSound
<1>5. session' = [legs |-> [session.legs EXCEPT ![d] = EndLeg(l)], lastTouch |-> t]
  BY <1>0, <1>1, <1>2 DEF EndStream, End, Session
<1>6. /\ session' \in Session
      /\ WindowSound'
      /\ session'.legs[d] = EndLeg(l)
      /\ \A e \in Dir : e # d => session'.legs[e] = session.legs[e]
  BY <1>0, <1>1, <1>4, <1>5, EndLegSound, ReplaceLeg
<1>8. TypeOK'
  BY <1>0, <1>6 DEF TypeOK, EndStream, PC
<1>9. /\ s \in OpenStreams(d)
      /\ OpenStreams(d)' = OpenStreams(d) \ {s}
      /\ \A e \in Dir : e # d => OpenStreams(e)' = OpenStreams(e)
  BY <1>0, <1>2 DEF TypeOK, EndStream, OpenStreams
<1>10. /\ session'.legs[d].open = l.open - 1
       /\ \A e \in Dir : e # d => session'.legs[e].open = session.legs[e].open
  BY <1>4, <1>6, EndLegSound
<1>11. ASSUME NEW e \in Dir
       PROVE  IsFiniteSet(OpenStreams(e)') /\ session'.legs[e].open = Cardinality(OpenStreams(e)')
  <2>1. IsFiniteSet(OpenStreams(e)) /\ session.legs[e].open = Cardinality(OpenStreams(e))
    BY DEF IInv, OpenIsStreams
  <2>2. CASE e = d
    BY <1>9, <1>10, <2>1, <2>2, FS_RemoveElement
  <2>3. CASE e # d
    BY <1>9, <1>10, <2>1, <2>3
  <2>. QED
    BY <2>2, <2>3
<1>. QED
  BY <1>6, <1>8, <1>11 DEF IInv, OpenIsStreams

(***************************************************************************)
(* The invariant is inductive.                                             *)
(***************************************************************************)
LEMMA NextIInv == IInv /\ [Next]_vars => IInv'
<1> SUFFICES ASSUME IInv, [Next]_vars PROVE IInv'
  OBVIOUS
<1>0. TypeOK /\ WindowSound
  BY DEF IInv
<1>1. CASE Tick
  <2>1. TypeOK'
    BY <1>0, <1>1, StreamAssumption DEF TypeOK, Tick
  <2>2. WindowSound' /\ \A d \in Dir : OpenStreams(d)' = OpenStreams(d)
    BY <1>0, <1>1 DEF Tick, WindowSound, OpenStreams
  <2>. QED
    BY <1>1, <2>1, <2>2, SameStreams DEF Tick
<1>2. ASSUME NEW s \in Stream, BeginStream(s) PROVE IInv'
  BY <1>2, BeginPreserves
<1>3. ASSUME NEW s \in Stream, DeferEnd(s) PROVE IInv'
  <2>1. TypeOK'
    BY <1>0, <1>3, StreamAssumption DEF TypeOK, DeferEnd, PC
  <2>2. WindowSound'
    BY <1>0, <1>3 DEF DeferEnd, WindowSound
  <2>3. \A d \in Dir : OpenStreams(d)' = OpenStreams(d)
    BY <1>0, <1>3 DEF TypeOK, DeferEnd, OpenStreams
  <2>. QED
    BY <1>3, <2>1, <2>2, <2>3, SameStreams DEF DeferEnd
<1>4. ASSUME NEW s \in Stream, NEW n \in Amount, Move(s, n) PROVE IInv'
  BY <1>4, MovePreserves
<1>5. ASSUME NEW s \in Stream, EndStream(s) PROVE IInv'
  BY <1>5, EndPreserves
<1>6. CASE UNCHANGED vars
  <2>1. TypeOK'
    BY <1>0, <1>6 DEF TypeOK, vars
  <2>2. WindowSound' /\ \A d \in Dir : OpenStreams(d)' = OpenStreams(d)
    BY <1>0, <1>6 DEF vars, WindowSound, OpenStreams
  <2>. QED
    BY <1>6, <2>1, <2>2, SameStreams DEF vars
<1>. QED
  BY <1>1, <1>2, <1>3, <1>4, <1>5, <1>6 DEF Next

(***************************************************************************)
(* The inductive invariant holds in every reachable state of a run.        *)
(***************************************************************************)
THEOREM SessionInductive == Spec => []IInv
BY InitIInv, NextIInv, PTL DEF Spec

(***************************************************************************)
(* Type correctness of a run, for every instance.                          *)
(***************************************************************************)
THEOREM SessionTypeCorrect == Spec => []TypeOK
BY SessionInductive, PTL DEF IInv

(***************************************************************************)
(* The count Active() reads (session.go:215-220) is the number of streams  *)
(* between Begin and End, for any number of streams.                       *)
(***************************************************************************)
THEOREM OpenCountIsStreams == Spec => []OpenIsStreams
BY SessionInductive, PTL DEF IInv

(***************************************************************************)
(* The marks of the countable window (session.go:135-150) are consistent   *)
(* however stale and out of order the reported times are.                  *)
(***************************************************************************)
THEOREM WindowIsSound == Spec => []WindowSound
BY SessionInductive, PTL DEF IInv

(***************************************************************************)
(* Totals (session.go:182-206) never reports more bytes than were counted  *)
(* and never a window that reaches into the ramp or the tail.              *)
(***************************************************************************)
THEOREM TotalsAreHonest == Spec => []TotalsSound
<1>1. IInv => TotalsSound
  <2> SUFFICES ASSUME IInv, NEW d \in Dir
               PROVE  LET l == session.legs[d] IN
                      /\ Totals(l).measured \in 0..l.bytes
                      /\ Totals(l).window >= 0
                      /\ Totals(l).window > 0 =>
                           Totals(l).window + Grace + Drain <= l.until - l.started
    BY DEF TotalsSound
  <2>1. session.legs[d] \in Leg /\ LegSound(session.legs[d])
    BY DEF IInv, TypeOK, Session, WindowSound
  <2>. QED
    BY <2>1, SoundTotals
<1>. QED
  BY <1>1, SessionInductive, PTL

-----------------------------------------------------------------------------
(***************************************************************************)
(* The history of reports.                                                 *)
(***************************************************************************)

\* Induction over the natural numbers, as a statement about a set of them.
LEMMA Induction ==
  ASSUME NEW S, 0 \in S, \A n \in Nat : n \in S => n + 1 \in S
  PROVE  Nat \subseteq S
<1> DEFINE T == Nat \ S
<1> SUFFICES ASSUME T # {} PROVE FALSE
  OBVIOUS
<1>1. PICK x \in T : \A y \in T : <<y, x>> \notin OpToRel(<, Nat)
  <2> HIDE DEF T
  <2>1. T \subseteq Nat
    BY DEF T
  <2>. QED
    BY <2>1, NatLessThanWellFounded, WFMin
<1>2. x \in Nat /\ x # 0 /\ x \notin S
  OBVIOUS
<1>3. x - 1 \in Nat /\ x - 1 \in T
  BY <1>2
<1>4. <<x - 1, x>> \in OpToRel(<, Nat)
  BY <1>2, <1>3 DEF OpToRel
<1>. QED
  BY <1>1, <1>3, <1>4

Sums(f, reports) ==
    f = [i \in 0..Len(reports) |-> IF i = 0 THEN 0 ELSE f[i - 1] + reports[i].n]

\* There are prefix sums: those of one report less, and the report's bytes.
LEMMA SumsExist ==
  ASSUME NEW reports \in Seq(Report)
  PROVE  Sums(Moved(reports), reports) /\ Moved(reports) \in [0..Len(reports) -> Nat]
<1> DEFINE Upto(n, f) ==
             f = [i \in 0..n |-> IF i = 0 THEN 0 ELSE f[i - 1] + reports[i].n]
           S == {n \in Nat : n <= Len(reports) => \E f \in [0..n -> Nat] : Upto(n, f)}
<1>0. Len(reports) \in Nat /\ \A i \in 1..Len(reports) : reports[i].n \in Nat
  <2>1. \A i \in 1..Len(reports) : reports[i] \in Report
    OBVIOUS
  <2>. QED
    BY <2>1 DEF Report
<1>1. 0 \in S
  <2> DEFINE z == [i \in 0..0 |-> 0]
  <2>1. z \in [0..0 -> Nat]
    OBVIOUS
  <2>2. z = [i \in 0..0 |-> IF i = 0 THEN 0 ELSE z[i - 1] + reports[i].n]
    OBVIOUS
  <2> HIDE DEF z
  <2>3. \E f \in [0..0 -> Nat] : Upto(0, f)
    BY <2>1, <2>2
  <2>. QED
    BY <2>3
<1>2. ASSUME NEW n \in Nat, n \in S PROVE n + 1 \in S
  <2>0. SUFFICES ASSUME n + 1 <= Len(reports)
                 PROVE  \E f \in [0..(n + 1) -> Nat] : Upto(n + 1, f)
    <3>1. n + 1 \in Nat
      OBVIOUS
    <3> HIDE DEF Upto
    <3>. QED
      BY <3>1
  <2>1. PICK f \in [0..n -> Nat] : Upto(n, f)
    <3>1. n <= Len(reports)
      BY <1>0, <2>0
    <3> HIDE DEF Upto
    <3>. QED
      BY <1>2, <3>1
  <2>2. reports[n + 1].n \in Nat
    BY <1>0, <2>0
  <2> DEFINE g == [i \in 0..(n + 1) |-> IF i = n + 1 THEN f[n] + reports[n + 1].n ELSE f[i]]
  <2>3. g \in [0..(n + 1) -> Nat]
    BY <2>2
  <2>4. ASSUME NEW i \in 0..(n + 1)
        PROVE  g[i] = IF i = 0 THEN 0 ELSE g[i - 1] + reports[i].n
    <3>1. CASE i = n + 1
      BY <3>1
    <3>2. CASE i # n + 1
      <4>1. i \in 0..n /\ g[i] = f[i] /\ (i # 0 => i - 1 \in 0..n /\ g[i - 1] = f[i - 1])
        BY <3>2
      <4>2. f[i] = IF i = 0 THEN 0 ELSE f[i - 1] + reports[i].n
        BY <2>1, <4>1
      <4>. QED
        BY <4>1, <4>2
    <3>. QED
      BY <3>1, <3>2
  <2>5. Upto(n + 1, g)
    BY <2>4
  <2>. QED
    BY <2>3, <2>5
<1>3. Len(reports) \in S
  <2> HIDE DEF S
  <2>. QED
    BY <1>1, <1>2, Induction
<1>4. PICK f \in [0..Len(reports) -> Nat] : Upto(Len(reports), f)
  BY <1>3
<1>5. Sums(Moved(reports), reports)
  BY <1>4 DEF Moved, Sums
<1> DEFINE h == Moved(reports)
<1>6. h = [i \in 0..Len(reports) |-> IF i = 0 THEN 0 ELSE h[i - 1] + reports[i].n]
  BY <1>5 DEF Sums
<1> HIDE DEF h
<1> DEFINE P == {n \in Nat : n <= Len(reports) => h[n] \in Nat}
<1>7. 0 \in P
  BY <1>6
<1>8. ASSUME NEW n \in Nat, n \in P PROVE n + 1 \in P
  <2> SUFFICES ASSUME n + 1 <= Len(reports) PROVE h[n + 1] \in Nat
    OBVIOUS
  <2>1. reports[n + 1].n \in Nat
    BY <1>0
  <2>2. h[n + 1] = h[n] + reports[n + 1].n
    BY <1>0, <1>6
  <2>. QED
    BY <1>0, <1>8, <2>1, <2>2
<1>9. \A i \in 0..Len(reports) : h[i] \in Nat
  <2>1. Nat \subseteq P
    <3> HIDE DEF P
    <3>. QED
      BY <1>7, <1>8, Induction
  <2>. QED
    BY <2>1
<1>10. h \in [0..Len(reports) -> Nat]
  BY <1>6, <1>9
<1>. QED
  BY <1>5, <1>10 DEF h

\* One report more leaves the earlier sums as they were.
LEMMA MovedAppend ==
  ASSUME NEW reports \in Seq(Report), NEW r \in Report
  PROVE  LET longer == Append(reports, r) IN
         /\ \A i \in 0..Len(reports) : Moved(longer)[i] = Moved(reports)[i]
         /\ Moved(longer)[Len(reports) + 1] = Moved(reports)[Len(reports)] + r.n
<1> DEFINE longer == Append(reports, r)
           f == Moved(reports)
           g == Moved(longer)
<1>1. longer \in Seq(Report) /\ Len(longer) = Len(reports) + 1 /\ Len(reports) \in Nat
      /\ longer[Len(reports) + 1] = r
      /\ \A i \in 1..Len(reports) : longer[i] = reports[i]
  OBVIOUS
<1>2. f = [i \in 0..Len(reports) |-> IF i = 0 THEN 0 ELSE f[i - 1] + reports[i].n]
  BY SumsExist DEF Sums
<1>3. g = [i \in 0..Len(longer) |-> IF i = 0 THEN 0 ELSE g[i - 1] + longer[i].n]
  BY <1>1, SumsExist DEF Sums
<1> HIDE DEF f, g, longer
<1> DEFINE S == {n \in Nat : n <= Len(reports) => g[n] = f[n]}
<1>4. 0 \in S
  BY <1>1, <1>2, <1>3
<1>5. ASSUME NEW n \in Nat, n \in S PROVE n + 1 \in S
  <2> SUFFICES ASSUME n + 1 <= Len(reports) PROVE g[n + 1] = f[n + 1]
    OBVIOUS
  <2>1. g[n + 1] = g[n] + longer[n + 1].n
    BY <1>1, <1>3
  <2>2. f[n + 1] = f[n] + reports[n + 1].n
    BY <1>1, <1>2
  <2>. QED
    BY <1>1, <1>5, <2>1, <2>2
<1>6. \A i \in 0..Len(reports) : g[i] = f[i]
  <2>1. Nat \subseteq S
    <3> HIDE DEF S
    <3>. QED
      BY <1>4, <1>5, Induction
  <2>. QED
    BY <1>1, <2>1
<1>7. g[Len(reports) + 1] = g[Len(reports)] + r.n
  <2>1. g[Len(reports) + 1] = g[Len(reports) + 1 - 1] + longer[Len(reports) + 1].n
    BY <1>1, <1>3
  <2>2. Len(reports) + 1 - 1 = Len(reports)
    BY <1>1
  <2>. QED
    BY <1>1, <2>1, <2>2
<1>8. g[Len(reports)] = f[Len(reports)]
  BY <1>1, <1>6
<1>. QED
  BY <1>6, <1>7, <1>8 DEF f, g, longer

(***************************************************************************)
(* One report more, among the reports of bytes and those past the ramp.    *)
(***************************************************************************)
LEMMA CarryingAppend ==
  ASSUME NEW reports \in Seq(Report), NEW r \in Report
  PROVE  LET longer == Append(reports, r)
             next   == Len(reports) + 1
             first  == IF reports = <<>> THEN r.t ELSE reports[1].t
         IN  /\ Carrying(longer) = Carrying(reports) \cup (IF r.n > 0 THEN {next} ELSE {})
             /\ Settled(longer) = Settled(reports) \cup
                                    (IF r.n > 0 /\ r.t - first >= Grace THEN {next} ELSE {})
             /\ longer[1].t = first
             /\ DOMAIN longer = (DOMAIN reports) \cup {next}
             /\ next \notin DOMAIN reports
<1> DEFINE longer == Append(reports, r)
           next == Len(reports) + 1
           first == IF reports = <<>> THEN r.t ELSE reports[1].t
<1>1. /\ Len(reports) \in Nat
      /\ DOMAIN longer = 1..next /\ DOMAIN reports = 1..Len(reports)
      /\ longer[next] = r
      /\ \A i \in 1..Len(reports) : longer[i] = reports[i]
  OBVIOUS
<1>2. DOMAIN longer = (DOMAIN reports) \cup {next} /\ next \notin DOMAIN reports
  BY <1>1
<1>3. longer[1].t = first
  <2>1. CASE reports = <<>>
    BY <2>1
  <2>2. CASE reports # <<>>
    BY <1>1, <2>2
  <2>. QED
    BY <2>1, <2>2
<1>4. reports # <<>> => first = reports[1].t
  OBVIOUS
<1>5. \A i \in DOMAIN reports : longer[i] = reports[i] /\ reports # <<>>
  BY <1>1
<1> HIDE DEF longer, next, first
<1>6. Carrying(longer) = Carrying(reports) \cup (IF r.n > 0 THEN {next} ELSE {})
  BY <1>1, <1>2, <1>5 DEF Carrying
<1>7. Settled(longer) = Settled(reports) \cup
                          (IF r.n > 0 /\ r.t - first >= Grace THEN {next} ELSE {})
  <2>1. \A i \in Settled(longer) : i \in Settled(reports) \/ (i = next /\ r.n > 0 /\ r.t - first >= Grace)
    BY <1>1, <1>2, <1>3, <1>4, <1>5, <1>6 DEF Settled, Carrying
  <2>2. \A i \in Settled(reports) : i \in Settled(longer)
    BY <1>3, <1>4, <1>5, <1>6 DEF Settled, Carrying
  <2>3. r.n > 0 /\ r.t - first >= Grace => next \in Settled(longer)
    BY <1>1, <1>3, <1>6 DEF Settled
  <2>. QED
    BY <2>1, <2>2, <2>3
<1>. QED
  BY <1>2, <1>3, <1>6, <1>7 DEF longer, next, first

(***************************************************************************)
(* What ties a direction's marks to its reports.                           *)
(***************************************************************************)
Extremes(reports, first, last) ==
    /\ first \in Settled(reports) /\ \A j \in Settled(reports) : first <= j
    /\ last \in Carrying(reports) /\ \A j \in Carrying(reports) : j <= last

Kept(l, reports) ==
    /\ \A i \in DOMAIN reports : reports[i].t # 0
    /\ l.bytes = Moved(reports)[Len(reports)]
    /\ l.streams = Cardinality(DOMAIN reports \ Carrying(reports))
    /\ l.started = IF reports = <<>> THEN 0 ELSE reports[1].t
    /\ IF Settled(reports) = {} THEN l.from = 0
       ELSE \E first, last \in DOMAIN reports :
              /\ Extremes(reports, first, last)
              /\ l.from = reports[first].t /\ l.fromByte = Moved(reports)[first]
              /\ l.until = reports[last].t /\ l.byteAt = Moved(reports)[last]

LEMMA KeptByBegin ==
  ASSUME NEW l \in Leg, NEW reports \in Seq(Report), Kept(l, reports), NEW t \in Nat \ {0}
  PROVE  Kept(BeginLeg(l, t), Append(reports, [n |-> 0, t |-> t]))
<1> DEFINE r == [n |-> 0, t |-> t]
           longer == Append(reports, r)
           k == BeginLeg(l, t)
<1>0. r \in Report /\ r.n = 0 /\ r.t = t /\ Len(reports) \in Nat /\ Len(longer) = Len(reports) + 1
  BY DEF Report
<1>1. /\ Carrying(longer) = Carrying(reports)
      /\ Settled(longer) = Settled(reports)
      /\ longer[1].t = IF reports = <<>> THEN t ELSE reports[1].t
      /\ DOMAIN longer = (DOMAIN reports) \cup {Len(reports) + 1}
      /\ Len(reports) + 1 \notin DOMAIN reports
  <2>1. ~(r.n > 0) /\ r.t = t /\ r \in Report
    BY <1>0
  <2> HIDE DEF r
  <2>2. /\ Carrying(longer) = Carrying(reports) \cup (IF r.n > 0 THEN {Len(reports) + 1} ELSE {})
        /\ Settled(longer) = Settled(reports) \cup
              (IF r.n > 0 /\ r.t - (IF reports = <<>> THEN r.t ELSE reports[1].t) >= Grace
               THEN {Len(reports) + 1} ELSE {})
    BY <2>1, CarryingAppend
  <2>3. /\ longer[1].t = IF reports = <<>> THEN r.t ELSE reports[1].t
        /\ DOMAIN longer = (DOMAIN reports) \cup {Len(reports) + 1}
        /\ Len(reports) + 1 \notin DOMAIN reports
    BY <2>1, CarryingAppend
  <2> HIDE DEF longer
  <2>. QED
    BY <2>1, <2>2, <2>3
<1>2. \A i \in DOMAIN reports : longer[i] = reports[i]
  OBVIOUS
<1>3. longer[Len(reports) + 1] = r /\ longer # <<>>
  OBVIOUS
<1>4. /\ \A i \in 0..Len(reports) : Moved(longer)[i] = Moved(reports)[i]
      /\ Moved(longer)[Len(longer)] = Moved(reports)[Len(reports)]
  <2>1. Moved(reports)[Len(reports)] \in Nat
    BY <1>0, SumsExist
  <2>. QED
    BY <1>0, <2>1, MovedAppend
<1>5. /\ k.bytes = l.bytes /\ k.streams = l.streams + 1 /\ k.started = StartedAt(l, t)
      /\ k.from = l.from /\ k.fromByte = l.fromByte /\ k.until = l.until /\ k.byteAt = l.byteAt
  BY DEF BeginLeg, Leg
<1> HIDE DEF r, longer, k
<1>6. \A i \in DOMAIN longer : longer[i].t # 0
  BY <1>0, <1>1, <1>2, <1>3 DEF Kept
<1>7. k.streams = Cardinality(DOMAIN longer \ Carrying(longer))
  <2> DEFINE S == DOMAIN reports \ Carrying(reports)
  <2>1. DOMAIN longer \ Carrying(longer) = S \cup {Len(reports) + 1}
    BY <1>1 DEF Carrying
  <2>2. IsFiniteSet(S)
    BY <1>0, FS_Interval, FS_Subset
  <2>3. Len(reports) + 1 \notin S
    BY <1>1
  <2> HIDE DEF S
  <2>4. Cardinality(S \cup {Len(reports) + 1}) = Cardinality(S) + 1
    BY <2>2, <2>3, FS_AddElement
  <2>. QED
    BY <1>5, <2>1, <2>4 DEF Kept, S
<1>8. k.started = longer[1].t
  <2>1. \A i \in DOMAIN reports : reports[i].t # 0
    BY DEF Kept
  <2>2. reports # <<>> => 1 \in DOMAIN reports
    BY <1>0
  <2>. QED
    BY <1>1, <1>5, <2>1, <2>2 DEF Kept, StartedAt
<1>9. IF Settled(longer) = {} THEN k.from = 0
      ELSE \E first, last \in DOMAIN longer :
             /\ Extremes(longer, first, last)
             /\ k.from = longer[first].t /\ k.fromByte = Moved(longer)[first]
             /\ k.until = longer[last].t /\ k.byteAt = Moved(longer)[last]
  <2>1. CASE Settled(reports) = {}
    BY <1>1, <1>5, <2>1 DEF Kept
  <2>2. CASE Settled(reports) # {}
    <3>1. PICK first \in DOMAIN reports, last \in DOMAIN reports :
             /\ Extremes(reports, first, last)
             /\ l.from = reports[first].t /\ l.fromByte = Moved(reports)[first]
             /\ l.until = reports[last].t /\ l.byteAt = Moved(reports)[last]
      BY <2>2 DEF Kept
    <3>2. first \in 0..Len(reports) /\ last \in 0..Len(reports)
      BY <1>0
    <3>3. Extremes(longer, first, last)
      BY <1>1, <3>1 DEF Extremes
    <3>. QED
      BY <1>1, <1>2, <1>4, <1>5, <2>2, <3>1, <3>2, <3>3
  <2>. QED
    BY <2>1, <2>2
<1>10. k.bytes = Moved(longer)[Len(longer)]
  BY <1>4, <1>5 DEF Kept
<1>11. Kept(k, longer)
  BY <1>3, <1>6, <1>7, <1>8, <1>9, <1>10 DEF Kept
<1>. QED
  BY <1>11 DEF k, longer, r

LEMMA KeptByAdd ==
  ASSUME NEW l \in Leg, NEW reports \in Seq(Report), Kept(l, reports),
         NEW n \in Nat \ {0}, NEW t \in Nat \ {0}
  PROVE  Kept(AddLeg(l, n, t), Append(reports, [n |-> n, t |-> t]))
<1> DEFINE r == [n |-> n, t |-> t]
           next == Len(reports) + 1
           longer == Append(reports, r)
           start == StartedAt(l, t)
           past == t - start >= Grace
           k == AddLeg(l, n, t)
<1>0. r \in Report /\ r.n = n /\ r.t = t /\ Len(reports) \in Nat /\ Len(longer) = next
  BY DEF Report
<1>1. start = IF reports = <<>> THEN t ELSE reports[1].t
  <2>1. reports # <<>> => 1 \in DOMAIN reports
    BY <1>0
  <2>. QED
    BY <2>1 DEF Kept, StartedAt
<1>2. /\ Carrying(longer) = Carrying(reports) \cup {next}
      /\ Settled(longer) = Settled(reports) \cup (IF past THEN {next} ELSE {})
      /\ longer[1].t = start
      /\ DOMAIN longer = (DOMAIN reports) \cup {next}
      /\ next \notin DOMAIN reports
  BY <1>0, <1>1, CarryingAppend
<1>3. /\ \A i \in DOMAIN reports : longer[i] = reports[i] /\ i \in Nat /\ i < next
      /\ longer[next] = r /\ longer # <<>> /\ next \in Nat
  BY <1>0
<1>4. /\ \A i \in DOMAIN reports : Moved(longer)[i] = Moved(reports)[i]
      /\ Moved(longer)[next] = l.bytes + n
  BY <1>0, MovedAppend DEF Kept
<1>5. /\ Carrying(reports) \subseteq DOMAIN reports
      /\ Settled(reports) \subseteq Carrying(reports)
  BY DEF Carrying, Settled
<1>6. l.from # 0 <=> Settled(reports) # {}
  BY DEF Kept, Leg
<1>7. Opens(l, t) <=> Settled(reports) = {} /\ past
  BY <1>6 DEF Opens
<1>8. /\ k.bytes = l.bytes + n /\ k.streams = l.streams /\ k.started = start
      /\ k.from = IF Settled(reports) = {} /\ past THEN t ELSE l.from
      /\ k.fromByte = IF Settled(reports) = {} /\ past THEN l.bytes + n ELSE l.fromByte
      /\ Settled(reports) # {} \/ past => k.until = t /\ k.byteAt = l.bytes + n
  BY <1>6, <1>7 DEF AddLeg, Leg
<1> HIDE DEF r, longer, k, start, past, next
<1>9. \A i \in DOMAIN longer : longer[i].t # 0
  BY <1>0, <1>2, <1>3 DEF Kept
<1>10. k.streams = Cardinality(DOMAIN longer \ Carrying(longer))
  <2>1. DOMAIN longer \ Carrying(longer) = DOMAIN reports \ Carrying(reports)
    BY <1>2, <1>5
  <2>. QED
    BY <1>8, <2>1 DEF Kept
<1>11. IF Settled(longer) = {} THEN k.from = 0
       ELSE \E first, last \in DOMAIN longer :
              /\ Extremes(longer, first, last)
              /\ k.from = longer[first].t /\ k.fromByte = Moved(longer)[first]
              /\ k.until = longer[last].t /\ k.byteAt = Moved(longer)[last]
  <2>1. CASE Settled(reports) = {} /\ ~past
    BY <1>2, <1>8, <2>1 DEF Kept
  <2>2. CASE Settled(reports) = {} /\ past
    <3>1. Extremes(longer, next, next)
      BY <1>2, <1>3, <1>5, <2>2 DEF Extremes
    <3>. QED
      BY <1>0, <1>2, <1>3, <1>4, <1>8, <2>2, <3>1
  <2>3. CASE Settled(reports) # {}
    <3>1. PICK first \in DOMAIN reports, last \in DOMAIN reports :
             /\ Extremes(reports, first, last)
             /\ l.from = reports[first].t /\ l.fromByte = Moved(reports)[first]
             /\ l.until = reports[last].t /\ l.byteAt = Moved(reports)[last]
      BY <2>3 DEF Kept
    <3>2. Extremes(longer, first, next)
      BY <1>2, <1>3, <1>5, <3>1 DEF Extremes
    <3>. QED
      BY <1>0, <1>2, <1>3, <1>4, <1>8, <2>3, <3>1, <3>2
  <2>. QED
    BY <2>1, <2>2, <2>3
<1>12. k.bytes = Moved(longer)[Len(longer)] /\ k.started = longer[1].t
  BY <1>0, <1>2, <1>4, <1>8
<1>13. Kept(k, longer)
  BY <1>3, <1>9, <1>10, <1>11, <1>12 DEF Kept
<1>. QED
  BY <1>13 DEF k, longer, r

LEMMA KeptByEnd ==
  ASSUME NEW l \in Leg, NEW reports, Kept(l, reports)
  PROVE  Kept(EndLeg(l), reports)
BY DEF EndLeg, Leg, Kept

LEMMA KeptByNew == Kept(NewLeg, <<>>)
<1>1. DOMAIN <<>> = {} /\ Len(<<>>) = 0 /\ <<>> \in Seq(Report)
  OBVIOUS
<1>2. Carrying(<<>>) = {} /\ Settled(<<>>) = {}
  BY <1>1 DEF Carrying, Settled
<1>3. Moved(<<>>)[0] = 0
  <2>1. Sums(Moved(<<>>), <<>>)
    BY <1>1, SumsExist
  <2>. QED
    BY <1>1, <2>1 DEF Sums
<1>. QED
  BY <1>1, <1>2, <1>3, FS_EmptySet DEF Kept, NewLeg

HistoryKept == \A d \in Dir : Kept(session.legs[d], log[d])

LEMMA InitHistory == Init => HistoryKept
BY KeptByNew DEF Init, HistoryKept, NewSession

LEMMA NextHistory == IInv /\ HistoryKept /\ [Next]_vars => HistoryKept'
<1> SUFFICES ASSUME IInv, HistoryKept, [Next]_vars PROVE HistoryKept'
  OBVIOUS
<1>0. TypeOK /\ session \in Session /\ log \in [Dir -> Seq(Report)] /\ dir \in [Stream -> Dir]
  BY DEF IInv, TypeOK
<1>l. \A d \in Dir : session.legs[d] \in Leg /\ log[d] \in Seq(Report)
  BY <1>0 DEF Session
<1>1. CASE Tick \/ (\E s \in Stream : DeferEnd(s)) \/ UNCHANGED vars
  BY <1>1 DEF Tick, DeferEnd, vars, HistoryKept
<1>2. ASSUME NEW s \in Stream, BeginStream(s) PROVE HistoryKept'
  <2>1. PICK t \in Stamps(s) : session' = Begin(session, dir[s], t) /\ log' = Noted(dir[s], 0, t)
    BY <1>2 DEF BeginStream
  <2>2. t \in Nat \ {0}
    BY <1>0, StampsAreTimes
  <2>3. dir[s] \in Dir
    BY <1>0
  <2>4. /\ session'.legs = [session.legs EXCEPT ![dir[s]] = BeginLeg(session.legs[dir[s]], t)]
        /\ log' = [log EXCEPT ![dir[s]] = Append(log[dir[s]], [n |-> 0, t |-> t])]
    BY <1>0, <2>1 DEF Begin, Noted, Session
  <2>5. Kept(BeginLeg(session.legs[dir[s]], t), Append(log[dir[s]], [n |-> 0, t |-> t]))
    BY <1>l, <2>2, <2>3, KeptByBegin DEF HistoryKept
  <2>. QED
    BY <1>0, <2>3, <2>4, <2>5 DEF HistoryKept, Session
<1>3. ASSUME NEW s \in Stream, NEW n \in Amount, Move(s, n) PROVE HistoryKept'
  <2>1. PICK t \in Stamps(s) : session' = Add(session, dir[s], n, t) /\ log' = Noted(dir[s], n, t)
    BY <1>3 DEF Move
  <2>2. t \in Nat \ {0} /\ n \in Nat \ {0}
    <3>1. n \in Nat \ {0}
      BY StreamAssumption
    <3>. QED
      BY <1>0, <3>1, StampsAreTimes
  <2>3. dir[s] \in Dir
    BY <1>0
  <2>4. /\ session'.legs = [session.legs EXCEPT ![dir[s]] = AddLeg(session.legs[dir[s]], n, t)]
        /\ log' = [log EXCEPT ![dir[s]] = Append(log[dir[s]], [n |-> n, t |-> t])]
    BY <1>0, <2>1, <2>2 DEF Add, Noted, Session
  <2>5. Kept(AddLeg(session.legs[dir[s]], n, t), Append(log[dir[s]], [n |-> n, t |-> t]))
    BY <1>l, <2>2, <2>3, KeptByAdd DEF HistoryKept
  <2>. QED
    BY <1>0, <2>3, <2>4, <2>5 DEF HistoryKept, Session
<1>4. ASSUME NEW s \in Stream, EndStream(s) PROVE HistoryKept'
  <2>1. dir[s] \in Dir
    BY <1>0
  <2>2. /\ session'.legs = [session.legs EXCEPT ![dir[s]] = EndLeg(session.legs[dir[s]])]
        /\ log' = log
    BY <1>0, <1>4 DEF EndStream, End, Session
  <2>3. Kept(EndLeg(session.legs[dir[s]]), log[dir[s]])
    BY <1>l, <2>1, KeptByEnd DEF HistoryKept
  <2>. QED
    BY <1>0, <2>1, <2>2, <2>3 DEF HistoryKept, Session
<1>. QED
  BY <1>1, <1>2, <1>3, <1>4 DEF Next

\* Two ends of a set of positions are the ones CHOOSE finds.
LEMMA KeptTotals ==
  ASSUME NEW l \in Leg, NEW reports \in Seq(Report), Kept(l, reports)
  PROVE  Totals(l) = HistoryTotals(reports)
<1>1. CASE Settled(reports) = {}
  <2>1. ~HasWindow(l)
    BY <1>1 DEF Kept, HasWindow
  <2>. QED
    BY <1>1, <2>1 DEF Kept, Totals, HistoryTotals
<1>2. CASE Settled(reports) # {}
  <2> DEFINE first == CHOOSE i \in Settled(reports) : \A j \in Settled(reports) : i <= j
             last == CHOOSE i \in Carrying(reports) : \A j \in Carrying(reports) : j <= i
             full == reports[last].t - reports[first].t
  <2>1. PICK f \in DOMAIN reports, e \in DOMAIN reports :
           /\ Extremes(reports, f, e)
           /\ l.from = reports[f].t /\ l.fromByte = Moved(reports)[f]
           /\ l.until = reports[e].t /\ l.byteAt = Moved(reports)[e]
    BY <1>2 DEF Kept
  <2>2. \A i \in Carrying(reports) \cup Settled(reports) : i \in Int
    BY DEF Carrying, Settled
  <2>3. first = f
    <3>1. first \in Settled(reports) /\ \A j \in Settled(reports) : first <= j
      BY <2>1 DEF Extremes
    <3> HIDE DEF first
    <3>. QED
      BY <2>1, <2>2, <3>1 DEF Extremes
  <2>4. last = e
    <3>1. last \in Carrying(reports) /\ \A j \in Carrying(reports) : j <= last
      BY <2>1 DEF Extremes
    <3> HIDE DEF last
    <3>. QED
      BY <2>1, <2>2, <3>1 DEF Extremes
  <2>5. reports[f].t # 0 /\ reports[e].t # 0
    BY <2>1 DEF Kept
  <2>6. l.from \in Nat /\ l.until \in Nat
    BY DEF Leg
  <2>7. HasWindow(l) <=> ~(l.until - l.from - Drain <= 0)
    BY <2>1, <2>5, <2>6, SessionAssumption DEF HasWindow
  <2>8. l.until - Drain - l.from = l.until - l.from - Drain
    BY <2>6, SessionAssumption
  <2>. QED
    BY <1>2, <2>1, <2>3, <2>4, <2>7, <2>8 DEF Kept, Totals, HistoryTotals
<1>. QED
  BY <1>1, <1>2

(***************************************************************************)
(* What Totals reports is what the whole history of reports defines, for   *)
(* any number of streams and however late and out of order their clock     *)
(* readings are (session.go:128-206).                                      *)
(***************************************************************************)
THEOREM FigureIsHistory == Spec => []MatchesHistory
<1>1. Init => IInv /\ HistoryKept
  BY InitIInv, InitHistory
<1>2. IInv /\ HistoryKept /\ [Next]_vars => (IInv /\ HistoryKept)'
  BY NextIInv, NextHistory
<1>3. IInv /\ HistoryKept => MatchesHistory
  <2> SUFFICES ASSUME IInv, HistoryKept, NEW d \in Dir
               PROVE  Totals(session.legs[d]) = HistoryTotals(log[d])
    BY DEF MatchesHistory
  <2>1. session.legs[d] \in Leg /\ log[d] \in Seq(Report)
    BY DEF IInv, TypeOK, Session
  <2>. QED
    BY <2>1, KeptTotals DEF HistoryKept
<1>. QED
  BY <1>1, <1>2, <1>3, PTL DEF Spec
=============================================================================
