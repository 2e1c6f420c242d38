----------------------------- MODULE FrontProofs -----------------------------
(***************************************************************************)
(* Proofs about Front, the limiter in it and the certificates it presents. *)
(* The first part is about the limiter alone (Limiter's Spec), for every   *)
(* set of addresses and streams and every pair of bounds; the second finds *)
(* the addresses, for every chain of proxies, every header and every       *)
(* configuration, and carries the results of the first over to the server; *)
(* the third is about Certs, whose handshakes are the server's own, for    *)
(* any number of them and with the files replaced at any moment.           *)
(***************************************************************************)
EXTENDS Front, Certs, FiniteSetTheorems, WellFoundedInduction, TLAPS

(***************************************************************************)
(* The inductive invariant.  Accounting and WithinLimits are inductive     *)
(* only together with the types and the finiteness of the streams in       *)
(* flight, without which their number is not a natural number.             *)
(***************************************************************************)
IInv ==
    /\ TypeOK
    /\ IsFiniteSet(Held)
    /\ Accounting
    /\ WithinLimits

(***************************************************************************)
(* The map of counters, read as Go reads it, is the number of streams each *)
(* address holds, also for an address without an entry.                    *)
(***************************************************************************)
LEMMA CountIsHeldBy ==
  ASSUME IInv, NEW a \in Addr
  PROVE  /\ IsFiniteSet(HeldBy(a))
         /\ Cardinality(HeldBy(a)) \in Nat
         /\ Count(a) = Cardinality(HeldBy(a))
         /\ Count(a) \in Nat
<1>1. IsFiniteSet(HeldBy(a))
  BY FS_Subset DEF IInv, HeldBy
<1>2. Cardinality(HeldBy(a)) \in Nat
  BY <1>1, FS_CardinalityType
<1>3. CASE a \in DOMAIN counts
  BY <1>1, <1>2, <1>3 DEF IInv, Accounting, Count
<1>4. CASE a \notin DOMAIN counts
  <2>1. HeldBy(a) = {}
    BY <1>4, LimiterAssumption DEF IInv, Accounting, HeldBy
  <2>. QED
    BY <1>1, <1>2, <1>4, <2>1, FS_EmptySet DEF Count
<1>. QED
  BY <1>3, <1>4

(***************************************************************************)
(* Acquire adds its stream to the set in flight, and to its address only.  *)
(***************************************************************************)
LEMMA AcquireHeld ==
  ASSUME TypeOK, NEW s \in Stream, NEW a \in Client, Acquire(s, a)
  PROVE  /\ s \notin Held
         /\ Held' = Held \cup {s}
         /\ HeldBy(a)' = HeldBy(a) \cup {s}
         /\ \A b \in Client : b # a => HeldBy(b)' = HeldBy(b)
<1>1. s \notin Held /\ Held' = Held \cup {s}
  BY DEF TypeOK, Acquire, Held
<1>2. \A x \in Held : addr'[x] = addr[x]
  BY <1>1 DEF TypeOK, Acquire, Held
<1>3. addr'[s] = a
  BY DEF TypeOK, Acquire
<1>. QED
  BY <1>1, <1>2, <1>3 DEF HeldBy

(***************************************************************************)
(* The first Release of a stream takes it out, from its own address only.  *)
(***************************************************************************)
LEMMA ReleaseHeld ==
  ASSUME TypeOK, NEW s \in Stream, Release(s), phase[s] = "held",
         NEW a \in Client, a = addr[s]
  PROVE  /\ s \in Held
         /\ Held' = Held \ {s}
         /\ HeldBy(a)' = HeldBy(a) \ {s}
         /\ \A b \in Client : b # a => HeldBy(b)' = HeldBy(b)
<1>1. s \in Held /\ Held' = Held \ {s}
  BY DEF TypeOK, Release, Held
<1>2. addr' = addr
  BY DEF Release
<1>. QED
  BY <1>1, <1>2 DEF HeldBy

(***************************************************************************)
(* A step that moves no stream into or out of the set in flight and leaves *)
(* the counters alone preserves the invariant.                             *)
(***************************************************************************)
LEMMA QuietStep ==
  ASSUME IInv, TypeOK', Held' = Held,
         active' = active, counts' = counts, addr' = addr
  PROVE  IInv'
<1>1. \A a : HeldBy(a)' = HeldBy(a)
  BY DEF HeldBy
<1>. QED
  BY <1>1 DEF IInv, Accounting, WithinLimits

(***************************************************************************)
(* Initially nothing is in flight and the map is empty.                    *)
(***************************************************************************)
LEMMA InitIInv == Init => IInv
<1> SUFFICES ASSUME Init PROVE IInv
  OBVIOUS
<1>1. TypeOK
  BY DEF Init, TypeOK, Phase, Client
<1>2. Held = {} /\ \A a : HeldBy(a) = {}
  BY DEF Init, Held, HeldBy
<1>3. IsFiniteSet(Held) /\ Cardinality(Held) = 0 /\ \A a : Cardinality(HeldBy(a)) = 0
  BY <1>2, FS_EmptySet
<1>4. Accounting
  BY <1>2, <1>3 DEF Accounting, Init
<1>5. WithinLimits
  BY <1>3, LimiterAssumption DEF WithinLimits
<1>. QED
  BY <1>1, <1>3, <1>4, <1>5 DEF IInv
(***************************************************************************)
(* Taking a slot keeps the books, because the guard read the same numbers. *)
(***************************************************************************)
LEMMA AcquirePreserves ==
  ASSUME IInv, NEW s \in Stream, NEW a \in Client, Acquire(s, a)
  PROVE  IInv'
<1>0. TypeOK /\ IsFiniteSet(Held) /\ Accounting /\ WithinLimits
  BY DEF IInv
<1>1. /\ s \notin Held
      /\ Held' = Held \cup {s}
      /\ HeldBy(a)' = HeldBy(a) \cup {s}
      /\ \A b \in Client : b # a => HeldBy(b)' = HeldBy(b)
  BY <1>0, AcquireHeld
<1>2. /\ a \in Addr => /\ IsFiniteSet(HeldBy(a))
                       /\ Count(a) = Cardinality(HeldBy(a))
                       /\ Count(a) \in Nat
      /\ s \notin HeldBy(a)
  BY <1>1, CountIsHeldBy DEF HeldBy
<1>3. /\ IsFiniteSet(Held')
      /\ Cardinality(Held') = Cardinality(Held) + 1
  BY <1>0, <1>1, FS_AddElement
<1>4. a \in Addr => Cardinality(HeldBy(a)') = Count(a) + 1
  BY <1>1, <1>2, FS_AddElement
<1>5. TypeOK'
  BY <1>0, <1>2 DEF TypeOK, Acquire, Increment, Phase, Client
<1>6. Accounting'
  <2>1. active' = Cardinality(Held')
    BY <1>0, <1>3 DEF Accounting, Acquire
  <2>2. DOMAIN counts' = {addr'[x] : x \in Held'} \ {Invalid}
    <3>1. {addr'[x] : x \in Held'} = {addr[x] : x \in Held} \cup {a}
      BY <1>0, <1>1 DEF Acquire, TypeOK, Held
    <3>2. DOMAIN counts' = IF a = Invalid THEN DOMAIN counts ELSE DOMAIN counts \cup {a}
      BY DEF Acquire, Increment
    <3>. QED
      BY <1>0, <3>1, <3>2 DEF Accounting
  <2>3. ASSUME NEW b \in DOMAIN counts'
        PROVE  counts'[b] = Cardinality(HeldBy(b)')
    <3>1. b \in Addr
      BY <1>5 DEF TypeOK
    <3>2. CASE b = a
      BY <1>4, <2>3, <3>1, <3>2, LimiterAssumption DEF Acquire, Increment
    <3>3. CASE b # a
      BY <1>0, <1>1, <2>3, <3>1, <3>3 DEF Acquire, Increment, Accounting, Client
    <3>. QED
      BY <3>2, <3>3
  <2>. QED
    BY <2>1, <2>2, <2>3 DEF Accounting
<1>7. WithinLimits'
  <2>1. Total > 0 => Cardinality(Held') <= Total
    BY <1>0, <1>3, LimiterAssumption DEF Acquire, Full, Accounting, TypeOK
  <2>2. ASSUME PerIP > 0, NEW b \in Addr
        PROVE  Cardinality(HeldBy(b)') <= PerIP
    <3>1. CASE b = a
      BY <1>2, <1>4, <2>2, <3>1, LimiterAssumption DEF Acquire, Full
    <3>2. CASE b # a
      BY <1>0, <1>1, <2>2, <3>2 DEF WithinLimits, Client
    <3>. QED
      BY <3>1, <3>2
  <2>. QED
    BY <2>1, <2>2 DEF WithinLimits
<1>. QED
  BY <1>3, <1>5, <1>6, <1>7 DEF IInv

(***************************************************************************)
(* Giving a slot back keeps the books; the sync.Once makes a second call   *)
(* harmless.                                                               *)
(***************************************************************************)
LEMMA ReleasePreserves ==
  ASSUME IInv, NEW s \in Stream, Release(s)
  PROVE  IInv'
<1>0. TypeOK /\ IsFiniteSet(Held) /\ Accounting /\ WithinLimits
  BY DEF IInv
<1>1. CASE phase[s] # "held"
  <2>1. TypeOK'
    BY <1>0, <1>1 DEF TypeOK, Release, Phase
  <2>2. Held' = Held
    BY <1>0, <1>1 DEF TypeOK, Release, Held
  <2>. QED
    BY <1>1, <2>1, <2>2, QuietStep DEF Release
<1>2. CASE phase[s] = "held"
  <2>0. PICK a \in Client : a = addr[s]
    BY <1>0 DEF TypeOK
  <2>1. /\ s \in Held
        /\ Held' = Held \ {s}
        /\ HeldBy(a)' = HeldBy(a) \ {s}
        /\ \A b \in Client : b # a => HeldBy(b)' = HeldBy(b)
        /\ addr' = addr
    BY <1>0, <1>2, <2>0, ReleaseHeld DEF TypeOK, Release
  <2>2. s \in HeldBy(a)
    BY <2>0, <2>1 DEF HeldBy
  <2>3. /\ IsFiniteSet(Held')
        /\ Cardinality(Held') = Cardinality(Held) - 1
    BY <1>0, <2>1, FS_RemoveElement
  <2>4. a \in Addr => a \in DOMAIN counts
    BY <1>0, <2>0, <2>1, LimiterAssumption DEF Accounting
  <2>5. a \in Addr => /\ counts[a] = Cardinality(HeldBy(a))
                      /\ counts[a] \in Nat \ {0}
    BY <1>0, <2>4 DEF Accounting, TypeOK
  <2>6. /\ IsFiniteSet(HeldBy(a)')
        /\ Cardinality(HeldBy(a)') \in Nat
        /\ Cardinality(HeldBy(a)') = Cardinality(HeldBy(a)) - 1
        /\ Cardinality(HeldBy(a)') = 0 <=> HeldBy(a)' = {}
    <3>1. IsFiniteSet(HeldBy(a))
      BY <1>0, FS_Subset DEF HeldBy
    <3>. QED
      BY <2>1, <2>2, <3>1, FS_RemoveElement, FS_CardinalityType, FS_EmptySet
  <2>7. a \in Addr => /\ counts[a] \in Nat
                      /\ Cardinality(HeldBy(a)') = counts[a] - 1
                      /\ counts[a] <= 1 <=> HeldBy(a)' = {}
    BY <2>5, <2>6
  <2>a. counts' = IF a = Invalid THEN counts
                  ELSE IF counts[a] <= 1 THEN [x \in DOMAIN counts \ {a} |-> counts[x]]
                  ELSE [counts EXCEPT ![a] = @ - 1]
    <3>1. counts' = Decrement(a)
      BY <1>2, <2>0 DEF Release
    <3>. QED
      BY <2>4, <3>1 DEF Decrement, Count, Client
  <2>8. TypeOK'
    <3>1. active' \in Nat
      BY <1>0, <1>2, <2>3, FS_CardinalityType DEF Accounting, Release, TypeOK
    <3>2. DOMAIN counts' \subseteq Addr /\ counts' \in [DOMAIN counts' -> Nat \ {0}]
      BY <1>0, <2>4, <2>5, <2>a DEF TypeOK, Client
    <3>. QED
      BY <1>0, <3>1, <3>2 DEF TypeOK, Release, Phase
  <2>9. Accounting'
    <3>1. active' = Cardinality(Held')
      BY <1>0, <1>2, <2>3 DEF Accounting, Release
    <3>2. ASSUME NEW b \in Addr
          PROVE  b \in DOMAIN counts' <=> HeldBy(b)' # {}
      <4>1. b \in DOMAIN counts <=> HeldBy(b) # {}
        BY <1>0, LimiterAssumption DEF Accounting, HeldBy
      <4>2. CASE b = a
        <5>1. b \in DOMAIN counts' <=> ~(counts[a] <= 1)
          BY <2>4, <2>a, <4>2, LimiterAssumption
        <5>2. HeldBy(b)' = HeldBy(a)'
          BY <4>2
        <5>. QED
          BY <2>7, <4>2, <5>1, <5>2
      <4>3. CASE b # a
        <5>1. b \in DOMAIN counts' <=> b \in DOMAIN counts
          BY <2>a, <4>3
        <5>. QED
          BY <2>1, <4>1, <4>3, <5>1 DEF Client
      <4>. QED
        BY <4>2, <4>3
    <3>3. DOMAIN counts' = {addr'[x] : x \in Held'} \ {Invalid}
      <4>1. \A x \in Held' : addr'[x] \in Client
        BY <1>0, <2>1 DEF TypeOK, Held
      <4>. QED
        BY <2>8, <3>2, <4>1, LimiterAssumption DEF TypeOK, HeldBy, Client
    <3>4. ASSUME NEW b \in DOMAIN counts'
          PROVE  counts'[b] = Cardinality(HeldBy(b)')
      <4>1. b \in Addr /\ b # Invalid
        BY <2>8, LimiterAssumption DEF TypeOK
      <4>2. CASE b = a
        <5>1. counts'[b] = counts[a] - 1
          BY <2>4, <2>a, <3>4, <4>1, <4>2
        <5>2. HeldBy(b)' = HeldBy(a)'
          BY <4>2
        <5>. QED
          BY <2>7, <4>1, <4>2, <5>1, <5>2
      <4>3. CASE b # a
        <5>1. b \in DOMAIN counts /\ counts'[b] = counts[b]
          BY <2>a, <3>4, <4>3
        <5>. QED
          BY <1>0, <2>1, <4>1, <4>3, <5>1 DEF Accounting, Client
      <4>. QED
        BY <4>2, <4>3
    <3>. QED
      BY <3>1, <3>3, <3>4 DEF Accounting
  <2>10. WithinLimits'
    <3>1. Total > 0 => Cardinality(Held') <= Total
      BY <1>0, <2>3, FS_CardinalityType, LimiterAssumption DEF WithinLimits
    <3>2. ASSUME PerIP > 0, NEW b \in Addr
          PROVE  Cardinality(HeldBy(b)') <= PerIP
      <4>1. CASE b = a
        BY <1>0, <2>5, <2>6, <3>2, <4>1, LimiterAssumption DEF WithinLimits
      <4>2. CASE b # a
        BY <1>0, <2>1, <3>2, <4>2 DEF WithinLimits, Client
      <4>. QED
        BY <4>1, <4>2
    <3>. QED
      BY <3>1, <3>2 DEF WithinLimits
  <2>. QED
    BY <2>3, <2>8, <2>9, <2>10 DEF IInv
<1>. QED
  BY <1>1, <1>2
(***************************************************************************)
(* The invariant is inductive.                                             *)
(***************************************************************************)
LEMMA NextIInv == IInv /\ [Next]_vars => IInv'
<1> SUFFICES ASSUME IInv, [Next]_vars PROVE IInv'
  OBVIOUS
<1>1. ASSUME NEW s \in Stream, NEW a \in Client, Acquire(s, a)
      PROVE  IInv'
  BY <1>1, AcquirePreserves
<1>2. ASSUME NEW s \in Stream, NEW a \in Client, Refuse(s, a)
      PROVE  IInv'
  <2>1. TypeOK' /\ Held' = Held
    BY <1>2 DEF IInv, TypeOK, Refuse, Phase, Held
  <2>. QED
    BY <1>2, <2>1, QuietStep DEF Refuse
<1>3. ASSUME NEW s \in Stream, Release(s)
      PROVE  IInv'
  BY <1>3, ReleasePreserves
<1>4. ASSUME NEW s \in Stream, Forget(s)
      PROVE  IInv'
  <2>1. TypeOK' /\ Held' = Held
    BY <1>4 DEF IInv, TypeOK, Forget, Phase, Held
  <2>. QED
    BY <1>4, <2>1, QuietStep DEF Forget
<1>5. CASE UNCHANGED vars
  <2>1. TypeOK' /\ Held' = Held
    BY <1>5 DEF IInv, TypeOK, vars, Held
  <2>. QED
    BY <1>5, <2>1, QuietStep DEF vars
<1>. QED
  BY <1>1, <1>2, <1>3, <1>4, <1>5 DEF Next

(***************************************************************************)
(* The inductive invariant holds in every reachable state of the limiter.  *)
(***************************************************************************)
THEOREM Inductive == Spec => []IInv
BY InitIInv, NextIInv, PTL DEF Spec

(***************************************************************************)
(* Type correctness of the limiter, for every instance.                    *)
(***************************************************************************)
THEOREM TypeCorrect == Spec => []TypeOK
BY Inductive, PTL DEF IInv

(***************************************************************************)
(* The total and the per-address counters of speed.go:28-73 are the        *)
(* streams in flight in every reachable state, and no address without a    *)
(* stream keeps an entry.                                                  *)
(***************************************************************************)
THEOREM CountersAreStreams == Spec => []Accounting
BY Inductive, PTL DEF IInv

(***************************************************************************)
(* No interleaving of requests and releases exceeds a configured bound     *)
(* (speed.go:48-53).                                                       *)
(***************************************************************************)
THEOREM LimitsRespected == Spec => []WithinLimits
BY Inductive, PTL DEF IInv

(***************************************************************************)
(* Admission counts with the Cardinality the limiter's invariants use.     *)
(***************************************************************************)
LEMMA SameCardinality == \A S : Abstract!Cardinality(S) = Cardinality(S)
BY DEF Abstract!Cardinality, Cardinality

(***************************************************************************)
(* The guard on the counters says what the set of streams says.            *)
(***************************************************************************)
LEMMA FullIsNoRoom ==
  ASSUME IInv, NEW a \in Client
  PROVE  Full(a) <=> ~Abstract!Room(a)
<1>1. HeldBy(a) = Abstract!Of(a)
  BY DEF HeldBy, Abstract!Of
<1>2. active = Cardinality(Held) /\ active \in Nat
  BY DEF IInv, Accounting, TypeOK
<1>3. CASE a = Invalid
  BY <1>2, <1>3, LimiterAssumption, SameCardinality DEF Full, Abstract!Room
<1>4. CASE a # Invalid
  <2>1. Count(a) = Cardinality(Abstract!Of(a)) /\ Count(a) \in Nat
    BY <1>1, <1>4, CountIsHeldBy DEF Client
  <2>. QED
    BY <1>2, <1>4, <2>1, LimiterAssumption, SameCardinality DEF Full, Abstract!Room
<1>. QED
  BY <1>3, <1>4

(***************************************************************************)
(* Every step of the limiter is a step of Admission or changes nothing     *)
(* there.                                                                  *)
(***************************************************************************)
LEMMA StepRefines ==
  ASSUME IInv, [Next]_vars
  PROVE  [Abstract!ANext]_(Abstract!avars)
<1>0. TypeOK
  BY DEF IInv
<1>1. ASSUME NEW s \in Stream, NEW a \in Client, Acquire(s, a)
      PROVE  Abstract!Enter(s, a)
  <2>1. s \notin Held /\ Held' = Held \cup {s}
    BY <1>0, <1>1, AcquireHeld
  <2>2. Abstract!Room(a)
    BY <1>1, FullIsNoRoom DEF Acquire
  <2>3. addr' = [addr EXCEPT ![s] = a]
    BY <1>1 DEF Acquire
  <2>4. /\ s \notin {x \in Stream : phase[x] = "refused"}
        /\ {x \in Stream : phase'[x] = "refused"} = {x \in Stream : phase[x] = "refused"}
    BY <1>0, <1>1 DEF Acquire, TypeOK
  <2>. QED
    BY <2>1, <2>2, <2>3, <2>4 DEF Abstract!Enter
<1>2. ASSUME NEW s \in Stream, NEW a \in Client, Refuse(s, a)
      PROVE  Abstract!TurnAway(s, a)
  <2>1. s \notin Held /\ Held' = Held /\ addr' = addr
    BY <1>0, <1>2 DEF Refuse, TypeOK, Held
  <2>2. ~Abstract!Room(a)
    BY <1>2, FullIsNoRoom DEF Refuse
  <2>3. /\ s \notin {x \in Stream : phase[x] = "refused"}
        /\ {x \in Stream : phase'[x] = "refused"}
             = {x \in Stream : phase[x] = "refused"} \cup {s}
    BY <1>0, <1>2 DEF Refuse, TypeOK
  <2>. QED
    BY <2>1, <2>2, <2>3 DEF Abstract!TurnAway
<1>3. ASSUME NEW s \in Stream, Release(s), phase[s] = "held"
      PROVE  Abstract!Leave(s)
  <2>1. s \in Held /\ Held' = Held \ {s} /\ addr' = addr
    BY <1>0, <1>3 DEF Release, TypeOK, Held
  <2>2. {x \in Stream : phase'[x] = "refused"} = {x \in Stream : phase[x] = "refused"}
    BY <1>0, <1>3 DEF Release, TypeOK
  <2>. QED
    BY <2>1, <2>2 DEF Abstract!Leave
<1>4. ASSUME NEW s \in Stream, Release(s), phase[s] # "held"
      PROVE  UNCHANGED Abstract!avars
  <2>1. phase' = phase /\ addr' = addr
    BY <1>0, <1>4 DEF Release, TypeOK
  <2>. QED
    BY <2>1 DEF Abstract!avars, Held
<1>5. ASSUME NEW s \in Stream, Forget(s), phase[s] = "refused"
      PROVE  Abstract!GoAway(s)
  <2>1. Held' = Held /\ addr' = addr
    BY <1>0, <1>5 DEF Forget, TypeOK, Held
  <2>2. /\ s \in {x \in Stream : phase[x] = "refused"}
        /\ {x \in Stream : phase'[x] = "refused"}
             = {x \in Stream : phase[x] = "refused"} \ {s}
    BY <1>0, <1>5 DEF Forget, TypeOK
  <2>. QED
    BY <2>1, <2>2 DEF Abstract!GoAway
<1>6. ASSUME NEW s \in Stream, Forget(s), phase[s] # "refused"
      PROVE  UNCHANGED Abstract!avars
  <2>1. Held' = Held /\ addr' = addr
    BY <1>0, <1>6 DEF Forget, TypeOK, Held
  <2>2. {x \in Stream : phase'[x] = "refused"} = {x \in Stream : phase[x] = "refused"}
    BY <1>0, <1>6 DEF Forget, TypeOK
  <2>. QED
    BY <2>1, <2>2 DEF Abstract!avars
<1>7. CASE UNCHANGED vars
  BY <1>7 DEF vars, Abstract!avars, Held
<1>. QED
  BY <1>1, <1>2, <1>3, <1>4, <1>5, <1>6, <1>7
     DEF Next, Client, Abstract!ANext

(***************************************************************************)
(* The limiter lets a request in exactly when the streams in flight leave  *)
(* room for it, whatever the interleaving: its counters implement the set  *)
(* of streams of Admission.                                                *)
(***************************************************************************)
THEOREM LimiterImplementsAdmission == Spec => Refinement
<1>1. Init => Abstract!AInit
  BY DEF Init, Abstract!AInit, Held
<1>2. IInv /\ [Next]_vars => [Abstract!ANext]_(Abstract!avars)
  BY StepRefines
<1>. QED
  BY <1>1, <1>2, Inductive, PTL DEF Spec, Refinement, Abstract!ASpec

-----------------------------------------------------------------------------
(***************************************************************************)
(* A nonempty set of positions has a last one: the position with the least *)
(* set of positions after it.                                              *)
(***************************************************************************)
LEMMA LastPosition ==
  ASSUME NEW n \in Nat, NEW S \in SUBSET (1..n), S # {}
  PROVE  Closest(S) \in S /\ \A j \in S : j <= Closest(S)
<1> DEFINE After(i) == {j \in S : j > i}
           T == {After(i) : i \in S}
<1>0. \A i \in S : i \in Int
  OBVIOUS
<1>1. IsFiniteSet(S)
  <2>1. 1 \in Int /\ n \in Int
    OBVIOUS
  <2>2. IsFiniteSet(1..n)
    BY <2>1, FS_Interval
  <2>. QED
    BY <2>2, FS_Subset
<1>2. T \subseteq FiniteSubsetsOf(S) /\ T # {}
  <2>1. \A i \in S : After(i) \in SUBSET S /\ IsFiniteSet(After(i))
    BY <1>1, FS_Subset
  <2> HIDE DEF After
  <2>. QED
    BY <2>1 DEF FiniteSubsetsOf
<1>3. PICK x \in T : \A y \in T : ~(<<y, x>> \in StrictSubsetOrdering(S))
  <2> HIDE DEF T
  <2>1. IsWellFoundedOn(StrictSubsetOrdering(S), FiniteSubsetsOf(S))
    BY FS_StrictSubsetOrderingWellFounded
  <2>. QED
    BY <1>2, <2>1, WFMin
<1>4. PICK i \in S : x = After(i)
  BY <1>3
<1>5. ASSUME NEW j \in S, ~(j <= i) PROVE FALSE
  <2>1. After(j) \subseteq After(i) /\ j \in After(i) /\ j \notin After(j)
    <3>1. i \in Int /\ j \in Int /\ j > i /\ ~(j > j)
      BY <1>0, <1>5
    <3>2. \A q \in S : q > j => q > i
      BY <1>0, <3>1
    <3>. QED
      BY <3>1, <3>2
  <2>2. After(j) \in SUBSET S /\ After(i) \in SUBSET S /\ After(j) # After(i)
    BY <2>1
  <2> HIDE DEF After
  <2>3. <<After(j), After(i)>> \in StrictSubsetOrdering(S)
    BY <2>1, <2>2 DEF StrictSubsetOrdering
  <2>4. After(j) \in T
    OBVIOUS
  <2>. QED
    BY <1>3, <1>4, <2>3, <2>4
<1>. QED
  BY <1>5 DEF Closest

(***************************************************************************)
(* And a first one, which is the last of the positions counted backwards.  *)
(***************************************************************************)
LEMMA FirstPosition ==
  ASSUME NEW n \in Nat, NEW S \in SUBSET (1..n), S # {}
  PROVE  Farthest(S) \in S
<1> DEFINE B == {n + 1 - i : i \in S}
<1>1. B \in SUBSET (1..n) /\ B # {}
  <2>1. \A i \in S : n + 1 - i \in 1..n
    OBVIOUS
  <2>2. PICK i \in S : TRUE
    OBVIOUS
  <2>. QED
    BY <2>1, <2>2
<1>2. PICK b \in B : \A j \in B : j <= b
  <2> HIDE DEF B
  <2>. QED
    BY <1>1, LastPosition
<1>3. PICK i \in S : b = n + 1 - i
  BY <1>2
<1>4. ASSUME NEW j \in S PROVE i <= j
  <2>1. n + 1 - j <= n + 1 - i
    BY <1>2, <1>3
  <2>. QED
    BY <1>3, <2>1
<1>. QED
  BY <1>4 DEF Farthest

-----------------------------------------------------------------------------
\* The address Transfer charges a request to.
Charge(client, path, made, real) ==
    LET hops   == <<client>> \o path
        header == made \o SubSeq(hops, 1, Len(hops) - 1)
    IN  ClientIP(hops[Len(hops)], header, real)

RightlyCharged(client, path, a) ==
    /\ a \in Client
    /\ a \in Visitor => a = client \/ Trusted(client)
    /\ client \in Visitor /\ ~Trusted(client) /\ (\A i \in DOMAIN path : Trusted(path[i]))
          => a = client

(***************************************************************************)
(* Of the address a request is charged to, unless the client's own address *)
(* is trusted: it is the client's or no visitor's, and the client's when   *)
(* every proxy on the way is trusted.                                      *)
(***************************************************************************)
LEMMA AddressFound ==
  ASSUME NEW client \in Client, NEW path \in Seq(Proxy),
         NEW made \in Seq(Addr \cup {Junk}), NEW real \in Addr \cup {Junk},
         client \notin Visitor => path = <<>> /\ made = <<>> /\ real = Junk
  PROVE  RightlyCharged(client, path, Charge(client, path, made, real))
<1> DEFINE hops == <<client>> \o path
           header == made \o SubSeq(hops, 1, Len(hops) - 1)
           a == Charge(client, path, made, real)
           n == Len(path)
           m == Len(made)
           peer == hops[Len(hops)]
<1> SUFFICES /\ a \in Client
             /\ a \in Visitor => a = client \/ Trusted(client)
             /\ client \in Visitor /\ ~Trusted(client) /\ (\A i \in DOMAIN path : Trusted(path[i]))
                   => a = client
  BY DEF RightlyCharged
<1>1. /\ n \in Nat /\ m \in Nat /\ Len(hops) = n + 1
      /\ n = 0 => peer = client
      /\ n > 0 => peer = path[n] /\ path[n] \in Proxy
  OBVIOUS
<1>2. /\ Len(header) = m + n
      /\ DOMAIN header = 1..m + n
      /\ n > 0 => header[m + 1] = client
      /\ \A i \in 1..n - 1 : header[m + 1 + i] = path[i] /\ path[i] \in Proxy
      /\ \A i \in DOMAIN header : header[i] \in Client \cup Proxy \cup {Junk}
  <2>1. /\ hops \in Seq(Client \cup Proxy) /\ hops[1] = client
        /\ \A i \in 1..n : hops[i + 1] = path[i]
    OBVIOUS
  <2> DEFINE sent == SubSeq(hops, 1, n)
  <2>2. sent \in Seq(Client \cup Proxy) /\ Len(sent) = n /\ \A i \in 1..n : sent[i] = hops[i]
    BY <1>1, <2>1
  <2>3. header = made \o sent
    BY <1>1
  <2>7. made \in Seq(Client \cup Proxy \cup {Junk}) /\ sent \in Seq(Client \cup Proxy \cup {Junk})
    BY <2>2 DEF Client
  <2>8. header \in Seq(Client \cup Proxy \cup {Junk})
    <3> HIDE DEF sent, header
    <3>. QED
      BY <2>3, <2>7
  <2> HIDE DEF sent
  <2>4. /\ Len(header) = m + n /\ DOMAIN header = 1..m + n
        /\ \A i \in 1..n : header[m + i] = sent[i]
    BY <2>2, <2>3
  <2>5. ASSUME NEW i \in 1..n - 1 PROVE header[m + 1 + i] = path[i] /\ path[i] \in Proxy
    <3>1. i + 1 \in 1..n /\ m + (i + 1) = m + 1 + i /\ i \in 1..n
      BY <1>1
    <3>. QED
      BY <2>1, <2>2, <2>4, <3>1
  <2>6. n > 0 => header[m + 1] = client
    BY <1>1, <2>1, <2>2, <2>4
  <2>9. \A i \in DOMAIN header : header[i] \in Client \cup Proxy \cup {Junk}
    <3> HIDE DEF header
    <3>. QED
      BY <2>8
  <2>. QED
    BY <2>4, <2>5, <2>6, <2>9
<1>3. /\ Addr = Visitor \cup Proxy /\ Visitor \cap Proxy = {} /\ Junk \notin Client
      /\ Invalid \notin Addr /\ Client = Addr \cup {Invalid}
  BY FrontAssumption, LimiterAssumption DEF Client
<1>4. a = ClientIP(peer, header, real)
  BY DEF Charge
<1> HIDE DEF n, m, peer, header, hops, a
<1> DEFINE U == {i \in Hops(header) : ~Trusted(header[i])}
           k == Closest(U)
<1>5. CASE peer = Invalid \/ ~Trusted(peer)
  <2>1. a = peer
    BY <1>5, <1>4 DEF ClientIP
  <2>2. CASE n = 0
    BY <1>1, <2>1, <2>2
  <2>3. CASE n > 0
    <3>1. peer = path[n] /\ n \in DOMAIN path /\ peer \in Proxy
      BY <1>1, <2>3 DEF n
    <3>. QED
      BY <1>3, <1>5, <2>1, <3>1
  <2>. QED
    BY <1>1, <2>2, <2>3
<1>6. U \in SUBSET (1..m + n) /\ Hops(header) \in SUBSET (1..m + n) /\ m + n \in Nat
  BY <1>1, <1>2 DEF Hops
<1>7. /\ U # {} => k \in U /\ \A j \in U : j <= k
      /\ Hops(header) # {} => Farthest(Hops(header)) \in Hops(header)
  <2> HIDE DEF U
  <2>. QED
    BY <1>6, LastPosition, FirstPosition
<1>8. CASE peer # Invalid /\ Trusted(peer) /\ n = 0
  <2>1. peer = client /\ Trusted(client)
    BY <1>1, <1>8
  <2>2. a \in Client
    BY <1>2, <1>3, <1>4, <1>6, <1>7, <1>8, <2>1 DEF ClientIP, Hops
  <2>. QED
    BY <2>1, <2>2
<1>9. CASE peer # Invalid /\ Trusted(peer) /\ n > 0
  <2>1. client \in Visitor
    BY <1>9 DEF n
  <2>2. a \in Client
    BY <1>1, <1>2, <1>3, <1>4, <1>6, <1>7, <1>9 DEF ClientIP, Hops
  <2>3. ASSUME ~Trusted(client)
        PROVE  /\ a \in Visitor => a = client
               /\ (\A i \in DOMAIN path : Trusted(path[i])) => a = client
    <3>1. m + 1 \in U
      BY <1>1, <1>2, <1>3, <1>9, <2>1, <2>3 DEF Hops
    <3>2. k \in U /\ m + 1 <= k
      BY <1>7, <3>1
    <3>3. a = header[k]
      BY <1>9, <1>4, <3>1 DEF ClientIP
    <3>4. ~Trusted(header[k]) /\ k \in 1..m + n
      BY <1>6, <3>2
    <3> HIDE DEF U, k
    <3>5. CASE k = m + 1
      BY <1>2, <1>9, <3>3, <3>5
    <3>6. CASE k # m + 1
      <4>1. k - (m + 1) \in 1..n - 1 /\ m + 1 + (k - (m + 1)) = k
        BY <1>1, <3>2, <3>4, <3>6
      <4>2. header[k] = path[k - (m + 1)] /\ path[k - (m + 1)] \in Proxy
        BY <1>2, <4>1
      <4>3. k - (m + 1) \in DOMAIN path
        BY <1>1, <4>1 DEF n
      <4>. QED
        BY <1>3, <3>3, <3>4, <4>2, <4>3
    <3>. QED
      BY <3>5, <3>6
  <2>. QED
    BY <2>2, <2>3
<1>. QED
  BY <1>1, <1>5, <1>8, <1>9

LEMMA TransferCharges ==
  ASSUME NEW s \in Stream, NEW client \in Client, NEW path \in Paths,
         NEW made \in Headers, NEW real \in RealIPs,
         Transfer(s, client, path, made, real)
  PROVE  \E a \in Client, named \in BOOLEAN :
            /\ a \in Visitor => a = client \/ Trusted(client)
            /\ client \in Visitor /\ ~Trusted(client) /\ named => a = client
            /\ \/ /\ Acquire(s, a)
                  /\ origin' = [origin EXCEPT ![s] = [client |-> client, named |-> named]]
               \/ Refuse(s, a) /\ UNCHANGED origin
            /\ UNCHANGED config
<1> DEFINE a == Charge(client, path, made, real)
           named == \A i \in DOMAIN path : Trusted(path[i])
<1>1. path \in Seq(Proxy) /\ made \in Seq(Addr \cup {Junk}) /\ real \in Addr \cup {Junk}
  BY FrontAssumption
<1>2. client \notin Visitor => path = <<>> /\ made = <<>> /\ real = Junk
  BY DEF Transfer
<1>3. /\ \/ Acquire(s, a) /\ origin' = [origin EXCEPT ![s] = [client |-> client, named |-> named]]
         \/ Refuse(s, a) /\ UNCHANGED origin
      /\ UNCHANGED config
  BY DEF Transfer, Charge
<1>4. RightlyCharged(client, path, a)
  BY <1>1, <1>2, AddressFound
<1> HIDE DEF a
<1>5. /\ a \in Client /\ named \in BOOLEAN
      /\ a \in Visitor => a = client \/ Trusted(client)
      /\ client \in Visitor /\ ~Trusted(client) /\ named => a = client
  BY <1>4 DEF RightlyCharged
<1> HIDE DEF named
<1>. QED
  BY <1>3, <1>5

-----------------------------------------------------------------------------
(***************************************************************************)
(* Every slot of a client that is not trusted is charged to no visitor but *)
(* the one who has it, and to that one when every proxy on the way was     *)
(* trusted.                                                                *)
(***************************************************************************)
Charged(s) ==
    /\ addr[s] \in Visitor => origin[s].client = addr[s] \/ Trusted(origin[s].client)
    /\ origin[s].client \in Visitor /\ ~Trusted(origin[s].client) /\ origin[s].named
          => addr[s] = origin[s].client

FInv ==
    /\ phase \in [Stream -> Phase]
    /\ addr \in [Stream -> Client]
    /\ origin \in [Stream -> [client : Client, named : BOOLEAN]]
    /\ \A s \in Held : Charged(s)

LEMMA FInvInit == InitFront => FInv
<1> SUFFICES ASSUME InitFront PROVE FInv
  OBVIOUS
<1>1. phase = [s \in Stream |-> "idle"] /\ addr = [s \in Stream |-> Invalid] /\ Held = {}
  BY DEF InitFront, Init, Held
<1>2. origin \in [Stream -> [client : Client, named : BOOLEAN]]
  BY DEF InitFront, Unknown, Client
<1>. QED
  BY <1>1, <1>2 DEF FInv, Phase, Client

LEMMA FInvNext == FInv /\ [NextFront]_fvars => FInv'
<1> SUFFICES ASSUME FInv, [NextFront]_fvars PROVE FInv'
  OBVIOUS
<1> USE DEF FInv
<1>1. ASSUME NEW s \in Stream, NEW client \in Client, NEW path \in Paths,
             NEW made \in Headers, NEW real \in RealIPs,
             Transfer(s, client, path, made, real)
      PROVE  FInv'
  <2>1. PICK a \in Client, named \in BOOLEAN :
           /\ a \in Visitor => a = client \/ Trusted(client)
           /\ client \in Visitor /\ ~Trusted(client) /\ named => a = client
           /\ \/ /\ Acquire(s, a)
                 /\ origin' = [origin EXCEPT ![s] = [client |-> client, named |-> named]]
              \/ Refuse(s, a) /\ UNCHANGED origin
           /\ UNCHANGED config
    BY <1>1, TransferCharges
  <2>2. CASE Acquire(s, a) /\ origin' = [origin EXCEPT ![s] = [client |-> client, named |-> named]]
    <3>1. /\ phase' \in [Stream -> Phase] /\ addr' \in [Stream -> Client]
          /\ origin' \in [Stream -> [client : Client, named : BOOLEAN]]
      BY <2>1, <2>2 DEF Acquire, Phase
    <3>2. Charged(s)'
      BY <2>1, <2>2 DEF Acquire, Charged, Trusted
    <3>3. \A u \in Held' \ {s} : Charged(u)'
      BY <2>1, <2>2 DEF Acquire, Held, Charged, Trusted
    <3>. QED
      BY <2>1, <3>1, <3>2, <3>3
  <2>3. CASE Refuse(s, a) /\ UNCHANGED origin
    BY <2>1, <2>3 DEF Refuse, Phase, Held, Charged, Trusted
  <2>. QED
    BY <2>1, <2>2, <2>3
<1>2. ASSUME NEW s \in Stream, Return(s) PROVE FInv'
  BY <1>2 DEF Return, Release, Unknown, Phase, Client, Held, Charged, Trusted
<1>3. ASSUME NEW s \in Stream, Forgotten(s) PROVE FInv'
  BY <1>3 DEF Forgotten, Forget, front, Phase, Held, Charged, Trusted
<1>4. CASE StartAnew
  <2>1. Held' = {} /\ UNCHANGED <<phase, addr, origin>>
    BY <1>4 DEF StartAnew, Start, vars, Held
  <2>. QED
    BY <2>1
<1>5. CASE Shutdown \/ Close
  BY <1>5 DEF Shutdown, Close, vars, Held, Charged, Trusted
<1>6. CASE UNCHANGED fvars
  BY <1>6 DEF fvars, vars, front, Held, Charged, Trusted
<1>. QED
  BY <1>1, <1>2, <1>3, <1>4, <1>5, <1>6 DEF NextFront

LEMMA FInvHolds == SpecFront => []FInv
BY FInvInit, FInvNext, PTL DEF SpecFront

-----------------------------------------------------------------------------
(***************************************************************************)
(* The process is a limiter to the streams.                                *)
(***************************************************************************)
LEMMA FrontIsLimiter == SpecFront => Spec
<1>1. InitFront => Init
  BY DEF InitFront
<1>2. FInv /\ [NextFront]_fvars => [Next]_vars
  <2> SUFFICES ASSUME FInv, [NextFront]_fvars PROVE [Next]_vars
    OBVIOUS
  <2>1. ASSUME NEW s \in Stream, NEW client \in Client, NEW path \in Paths,
               NEW made \in Headers, NEW real \in RealIPs,
               Transfer(s, client, path, made, real)
        PROVE  [Next]_vars
    <3>1. PICK a \in Client : Acquire(s, a) \/ Refuse(s, a)
      BY <2>1, TransferCharges
    <3>. QED
      BY <3>1 DEF Next
  <2>2. ASSUME NEW s \in Stream, Return(s) \/ Forgotten(s) PROVE [Next]_vars
    BY <2>2 DEF Return, Forgotten, Next
  <2>3. UNCHANGED fvars => UNCHANGED vars
    BY DEF fvars
  <2>4. StartAnew => UNCHANGED vars
    BY DEF StartAnew, Start
  <2>5. Shutdown \/ Close => UNCHANGED vars
    BY DEF Shutdown, Close
  <2>. QED
    BY <2>1, <2>2, <2>3, <2>4, <2>5 DEF NextFront
<1>. QED
  BY <1>1, <1>2, FInvHolds, PTL DEF SpecFront, Spec

(***************************************************************************)
(* The limiter's bounds hold in the server, across restarts                *)
(* (speed.go:48-53).                                                       *)
(***************************************************************************)
THEOREM ServerWithinLimits == SpecFront => []WithinLimits
BY FrontIsLimiter, LimitsRespected, PTL

(***************************************************************************)
(* No client outside the prefixes the operator trusts holds a slot in      *)
(* another's name, whatever it sends, whichever proxies stand between and  *)
(* whatever else is trusted, other visitors included (netutil.go:11-12,    *)
(* 38-79).                                                                 *)
(***************************************************************************)
THEOREM NobodyElsesSlot == SpecFront => []SlotsAreOwn
<1>1. FInv => SlotsAreOwn
  BY DEF FInv, Charged, SlotsAreOwn
<1>. QED
  BY <1>1, FInvHolds, PTL

(***************************************************************************)
(* Behind proxies that are all named, and without any, the bound per       *)
(* address is a bound per client for every client not itself trusted,      *)
(* whatever header it makes up (netutil.go:43-44, speed.go:48-53).         *)
(***************************************************************************)
THEOREM ClientsAreBounded == SpecFront => []ClientWithinLimit
<1>1. FInv /\ IInv => ClientWithinLimit
  <2> SUFFICES ASSUME FInv, IInv, PerIP > 0, NEW v \in Visitor, ~Trusted(v)
               PROVE  Cardinality({s \in Held : origin[s] = [client |-> v, named |-> TRUE]}) <= PerIP
    BY DEF ClientWithinLimit
  <2> DEFINE own == {s \in Held : origin[s] = [client |-> v, named |-> TRUE]}
  <2>1. v \in Addr
    BY FrontAssumption
  <2>2. own \subseteq HeldBy(v)
    BY DEF FInv, Charged, HeldBy
  <2>3. IsFiniteSet(HeldBy(v)) /\ Cardinality(HeldBy(v)) \in Nat
    BY <2>1, CountIsHeldBy
  <2>4. Cardinality(HeldBy(v)) <= PerIP
    BY <2>1 DEF IInv, WithinLimits
  <2> HIDE DEF own
  <2>5. Cardinality(own) \in Nat /\ Cardinality(own) <= Cardinality(HeldBy(v))
    BY <2>2, <2>3, FS_Subset, FS_CardinalityType
  <2>. QED
    BY <2>3, <2>4, <2>5, LimiterAssumption DEF own
<1>. QED
  BY <1>1, FInvHolds, FrontIsLimiter, Inductive, PTL

(***************************************************************************)
(* Whatever is configured and built, the bare path of the API is a page,   *)
(* against static.go:63 and 77, and no other path of it is.                *)
(***************************************************************************)
THEOREM OnlyTheBareApi == SpecFront => []OnlyBareApiIsAPage
<1> DEFINE IsPage(method, path, preflight) == Answer(method, path, preflight) \in {"page", "file"}
           Methods == Get \cup {"POST", "OPTIONS", "DELETE"}
<1>1. ASSUME NEW method, NEW path \in Prefixed, NEW preflight \in BOOLEAN
      PROVE  ~IsPage(method, path, preflight)
  <2>1. path \notin Files
    BY DEF Prefixed, Api, Files
  <2>2. Static(path) = "not found"
    BY <2>1 DEF Static, NotBuilt
  <2>. QED
    BY <2>2 DEF Answer
<1>2. IsPage("DELETE", BareApi, FALSE)
  <2>1. Static(BareApi) = "page"
    BY DEF Static, NotBuilt, BareApi, Prefixed, Api, Files, Dotted
  <2>2. "DELETE" \notin Get /\ <<"DELETE", BareApi>> \notin Routes
    BY DEF Get, Routes
  <2>. QED
    BY <2>1, <2>2 DEF Answer
<1>3. "DELETE" \in Methods
  OBVIOUS
<1> HIDE DEF IsPage, Methods
<1>4. ASSUME NEW path \in Api
      PROVE  path = BareApi <=>
                \E method \in Methods, preflight \in BOOLEAN : IsPage(method, path, preflight)
  BY <1>1, <1>2, <1>3 DEF Prefixed
<1>5. OnlyBareApiIsAPage
  BY <1>4 DEF OnlyBareApiIsAPage, IsPage, Methods
<1>. QED
  BY <1>5, PTL

-----------------------------------------------------------------------------
(* The certificates.                                                       *)

(***************************************************************************)
(* A handshake that compared the key with the certificate it loaded did so *)
(* while the two were, or had been, on disk together.                      *)
(***************************************************************************)
Loaded(h) == hs[h].pc \in {"restat", "install"} => hs[h].loaded \in issued

Look == [pc : PC, seen : Int, loaded : Int, mtime : Int, overtaken : BOOLEAN]

Handshakes == hs \in [Handshake -> Look]

Pairs ==
    /\ Handshakes
    /\ cert.version \in Int /\ cert.mtime \in Int /\ modified \in Int
    /\ key \in issued
    /\ current \in issued
    /\ \A h \in Handshake : Loaded(h)

LEMMA PairsInit == InitCerts => Pairs
BY DEF InitCerts, Pairs, Handshakes, Look, Loaded, Fresh, PC

LEMMA PairsNext == Pairs /\ [NextCerts]_cvars => Pairs'
<1> SUFFICES ASSUME Pairs, [NextCerts]_cvars PROVE Pairs'
  OBVIOUS
<1> USE DEF Pairs
<1>1. ASSUME NEW state, StartRenewal(state) PROVE Pairs'
  <2>1. cert'.version = cert.version /\ cert'.mtime \in Int
    BY <1>1 DEF StartRenewal, reloader
  <2>. QED
    BY <1>1, <2>1 DEF StartRenewal, reloader, Handshakes, Look, Loaded
<1>2. CASE WriteCert
  BY <1>2 DEF WriteCert, reloader, Handshakes, Look, Loaded
<1>3. CASE WriteKey
  BY <1>3 DEF WriteKey, reloader, Handshakes, Look, Loaded
<1>4. CASE Interval
  BY <1>4 DEF Interval, disk, Handshakes, Look, Loaded
<1>5. ASSUME NEW h \in Handshake, Begin(h) PROVE Pairs'
  <2> DEFINE q == [hs[h] EXCEPT !.pc = IF recent THEN "serve" ELSE "stat", !.seen = modified]
  <2>1. hs' = [hs EXCEPT ![h] = q] /\ UNCHANGED <<cert, key, issued, current, modified>>
    BY <1>5 DEF Begin, reloader, disk, Handshakes
  <2>2. /\ q \in Look
        /\ q.pc \notin {"restat", "install"}
    BY DEF Handshakes, Look, PC
  <2> HIDE DEF q
  <2>. QED
    BY <2>1, <2>2 DEF Handshakes, Look, Loaded
<1>6. ASSUME NEW h \in Handshake, Stat(h) PROVE Pairs'
  BY <1>6 DEF Stat, reloader, Goto, disk, Handshakes, Look, Loaded, PC
<1>7. ASSUME NEW h \in Handshake, ReadCert(h) PROVE Pairs'
  <2> DEFINE q == [hs[h] EXCEPT !.pc = IF cert.state = "whole" THEN "readKey" ELSE "serve",
                                !.loaded = cert.version]
  <2>1. hs' = [hs EXCEPT ![h] = q] /\ UNCHANGED <<cert, key, issued, current, modified>>
    BY <1>7 DEF ReadCert, reloader, disk, Handshakes
  <2>2. /\ q \in Look
        /\ q.pc \notin {"restat", "install"}
    BY DEF Handshakes, Look, PC
  <2> HIDE DEF q
  <2>. QED
    BY <2>1, <2>2 DEF Handshakes, Look, Loaded
<1>8. ASSUME NEW h \in Handshake, ReadKey(h) PROVE Pairs'
  BY <1>8 DEF ReadKey, reloader, Matches, Goto, disk, Handshakes, Look, Loaded, PC
<1>9. ASSUME NEW h \in Handshake, Restat(h) PROVE Pairs'
  <2> DEFINE q == [hs[h] EXCEPT !.pc = IF cert.state = "missing" THEN "serve" ELSE "install",
                                !.mtime = cert.mtime,
                                !.overtaken = cert.version # hs[h].loaded]
  <2>1. /\ hs' = [hs EXCEPT ![h] = q] /\ hs[h].pc = "restat"
        /\ UNCHANGED <<cert, key, issued, current, modified>>
    BY <1>9 DEF Restat, reloader, disk, Handshakes, Look
  <2>2. q \in Look /\ q.loaded = hs[h].loaded
    BY DEF Handshakes, Look, PC
  <2> HIDE DEF q
  <2>. QED
    BY <2>1, <2>2 DEF Handshakes, Loaded
<1>10. ASSUME NEW h \in Handshake, Install(h) PROVE Pairs'
  BY <1>10 DEF Install, Goto, disk, Handshakes, Look, Loaded, PC
<1>11. ASSUME NEW h \in Handshake, Serve(h) PROVE Pairs'
  BY <1>11 DEF Serve, reloader, Fresh, disk, Handshakes, Look, Loaded, PC
<1>12. CASE UNCHANGED cvars
  BY <1>12 DEF cvars, reloader, disk, Handshakes, Look, Loaded
<1>. QED
  BY <1>1, <1>2, <1>3, <1>4, <1>5, <1>6, <1>7, <1>8, <1>9, <1>10, <1>11, <1>12
     DEF NextCerts, Step

(***************************************************************************)
(* Whatever moment of a renewal a handshake catches, and however many      *)
(* reloads race, the certificate installed is one that was on disk with    *)
(* its own key (reloader.go:53-63, 81-97).                                 *)
(***************************************************************************)
THEOREM AlwaysAWholePair == SpecCerts => []ServesWholePair
<1>1. Pairs => ServesWholePair
  BY DEF Pairs, ServesWholePair
<1>. QED
  BY <1>1, PairsInit, PairsNext, PTL DEF SpecCerts
=============================================================================
