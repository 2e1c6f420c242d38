----------------------------- MODULE LiftProofs -----------------------------
(***************************************************************************)
(* Proofs about Lift for any dial, any tempo within TempoAssumption, any   *)
(* number of tests ended in any way, and frames that may fail to come.     *)
(***************************************************************************)
EXTENDS Lift, NaturalsInduction, WellFoundedInduction, TLAPS

Orders == [throw : BOOLEAN, drive : Drive, to : Level]

-----------------------------------------------------------------------------
(* Durations.                                                              *)

LEMMA Proportion ==
  ASSUME NEW whole \in Nat, NEW n \in Nat
  PROVE  (whole * n) \div Top \in Nat /\ (n <= Top => (whole * n) \div Top <= whole)
<1> DEFINE p == whole * n
           q == p \div Top
<1>0. Top \in Nat \ {0}
  BY LiftAssumption
<1>1. p \in Nat /\ (n <= Top => p <= whole * Top)
  BY <1>0
<1> HIDE DEF p
<1>2. q \in Int /\ Top * q <= p /\ p < Top * q + Top
  BY <1>0, <1>1
<1>3. q >= 0
  BY <1>0, <1>1, <1>2
<1>4. n <= Top => q <= whole
  BY <1>0, <1>1, <1>2
<1>. QED
  BY <1>2, <1>3, <1>4 DEF p

LEMMA Times ==
  /\ \A level \in Level : SweepTime(level) \in Nat \ {0} /\ SweepTime(level) <= Sweep
  /\ \A m, n \in Level : Distance(m, n) \in Nat /\ RideTime(Distance(m, n)) \in Nat \ {0}
<1>0. /\ Top \in Nat \ {0} /\ Sweep \in Nat \ {0} /\ RideFull \in Nat \ {0}
      /\ \A level \in Level : level \in Nat /\ level <= Top
  BY LiftAssumption DEF Level
<1>1. ASSUME NEW level \in Level
      PROVE  SweepTime(level) \in Nat \ {0} /\ SweepTime(level) <= Sweep
  <2> DEFINE time == (Sweep * level) \div Top
  <2>1. time \in Nat /\ time <= Sweep
    BY <1>0, Proportion
  <2> HIDE DEF time
  <2>. QED
    BY <1>0, <2>1 DEF SweepTime, Larger, time
<1>2. ASSUME NEW m \in Level, NEW n \in Level
      PROVE  Distance(m, n) \in Nat /\ RideTime(Distance(m, n)) \in Nat \ {0}
  <2> DEFINE d == Distance(m, n)
             time == (RideFull * d) \div Top
  <2>1. d \in Nat
    BY <1>0 DEF Distance
  <2> HIDE DEF d
  <2>2. time \in Nat
    BY <1>0, <2>1, Proportion
  <2> HIDE DEF time
  <2>. QED
    BY <2>1, <2>2 DEF RideTime, Larger, time, d
<1>. QED
  BY <1>1, <1>2

-----------------------------------------------------------------------------
(* What each command leaves alone.                                         *)

Pointer == [at : Level, aim : Level, left : Nat]
Car == [at : Level, to : Level, left : Nat]
Gear == [seat : Drive, left : Nat]

LEMMA Machines ==
  ASSUME NEW m
  PROVE  m \in Machine <=>
            m \in [pointer : Pointer, car : Car, orders : Seq(Orders), drive : Drive, gear : Gear, belt : Drive]
BY DEF Machine, Pointer, Car, Orders, Gear

LEMMA AimKeeps ==
  ASSUME NEW m \in Machine, NEW level \in Level
  PROVE  LET a == Aim(m, level) IN
         /\ a \in Machine
         /\ a.car = m.car /\ a.orders = m.orders /\ a.drive = m.drive /\ a.gear = m.gear /\ a.belt = m.belt
         /\ a.pointer = [at |-> m.pointer.at, aim |-> level,
                         left |-> IF level > 0 THEN 0
                                  ELSE IF m.pointer.aim > 0 THEN SweepTime(m.pointer.at)
                                  ELSE m.pointer.left]
<1> DEFINE left == IF level > 0 THEN 0
                   ELSE IF m.pointer.aim > 0 THEN SweepTime(m.pointer.at) ELSE m.pointer.left
           p == [at |-> m.pointer.at, aim |-> level, left |-> left]
<1>1. m.pointer \in Pointer
  BY DEF Machine, Pointer
<1>2. left \in Nat
  BY <1>1, Times DEF Pointer
<1>3. Aim(m, level) = [m EXCEPT !.pointer = p]
  <2> HIDE DEF left
  <2>1. Aim(m, level) = [m EXCEPT !.pointer.aim = level, !.pointer.left = left]
    BY DEF Aim, left
  <2>. QED
    BY <1>1, <2>1 DEF Machine, Pointer
<1>4. p \in Pointer
  BY <1>1, <1>2 DEF Pointer
<1> HIDE DEF p
<1>5. [m EXCEPT !.pointer = p] \in Machine
  BY <1>4 DEF Machine, Pointer
<1>. QED
  BY <1>3, <1>5 DEF Machine, p

\* What happens to the car alone.
CarOnly(m, n) ==
    /\ n \in Machine
    /\ n.pointer = m.pointer /\ n.orders = m.orders /\ n.drive = m.drive
    /\ n.gear = m.gear /\ n.belt = m.belt

LEMMA TakeKeeps ==
  ASSUME NEW m \in Machine, NEW to \in Level, NEW time \in Nat
  PROVE  LET n == Take(m, to, time) IN
         CarOnly(m, n) /\ n.car = [at |-> m.car.at, to |-> to, left |-> time]
<1> DEFINE c == [at |-> m.car.at, to |-> to, left |-> time]
<1>1. m.car \in Car
  BY DEF Machine, Car
<1>2. Take(m, to, time) = [m EXCEPT !.car = c]
  <2>1. Take(m, to, time) = [m EXCEPT !.car.to = to, !.car.left = time]
    BY DEF Take
  <2>. QED
    BY <1>1, <2>1 DEF Machine, Car
<1>3. c \in Car
  BY <1>1 DEF Car
<1> HIDE DEF c
<1>4. [m EXCEPT !.car = c] \in Machine
  BY <1>3 DEF Machine, Car
<1>. QED
  BY <1>2, <1>4 DEF CarOnly, Machine, c

LEMMA Floors == Rest \in Level /\ Top \in Level
BY LiftAssumption DEF Rest, Level

LEMMA LandKeeps ==
  ASSUME NEW m \in Machine
  PROVE  LET n == LandCar(m)
             floor == IF m.drive = "down" THEN Rest ELSE Top
         IN  /\ CarOnly(m, n) /\ Riding(n) /\ n.car.to = floor
             /\ ~Riding(m) => n.car = [at |-> m.car.at, to |-> floor, left |-> Land]
<1> DEFINE floor == IF m.drive = "down" THEN Rest ELSE Top
           taken == Take(m, floor, Land)
<1>1. floor \in Level /\ Land \in Nat /\ Land > 0
  BY Floors, LiftAssumption
<1>2. LandCar(m) = IF Riding(m) /\ m.car.to = floor THEN m ELSE taken
  BY DEF LandCar
<1> HIDE DEF floor
<1>3. CarOnly(m, taken) /\ taken.car = [at |-> m.car.at, to |-> floor, left |-> Land]
  BY <1>1, TakeKeeps
<1> HIDE DEF taken
<1>4. CarOnly(m, m)
  BY DEF CarOnly
<1>. QED
  BY <1>1, <1>2, <1>3, <1>4 DEF Riding, floor

LEMMA RideToKeeps ==
  ASSUME NEW m \in Machine, NEW to \in Level
  PROVE  LET n == RideTo(m, to) IN
         /\ CarOnly(m, n)
         /\ to = Destination(m) => n = m
         /\ to # Destination(m) =>
               /\ Riding(n)
               /\ n.car = [at |-> m.car.at, to |-> to, left |-> RideTime(Distance(to, Destination(m)))]
<1> DEFINE time == RideTime(Distance(to, Destination(m)))
           taken == Take(m, to, time)
<1>1. m.car \in Car /\ Destination(m) \in Level
  BY DEF Machine, Car, Destination
<1>2. time \in Nat /\ time > 0
  BY <1>1, Times
<1> HIDE DEF time
<1>3. CarOnly(m, taken) /\ taken.car = [at |-> m.car.at, to |-> to, left |-> time]
  BY <1>2, TakeKeeps
<1> HIDE DEF taken
<1>4. RideTo(m, to) = IF to = Destination(m) THEN m ELSE taken
  BY DEF RideTo, taken, time
<1>5. CarOnly(m, m)
  BY DEF CarOnly
<1>. QED
  BY <1>2, <1>3, <1>4, <1>5 DEF Riding, time

LEMMA ObeyKeeps ==
  ASSUME NEW m \in Machine, NEW order \in Orders
  PROVE  LET n == Obey(m, order) IN
         /\ n \in Machine
         /\ n.pointer = m.pointer /\ n.orders = m.orders /\ n.drive = m.drive
         /\ order.throw =>
               n.car = m.car /\ n.gear = [seat |-> order.drive, left |-> Shift] /\ n.belt = order.drive
         /\ ~order.throw => n = RideTo(m, order.to) /\ n.gear = m.gear /\ n.belt = m.belt
<1>0. order.drive \in Drive /\ order.to \in Level /\ order.throw \in BOOLEAN /\ Shift \in Nat
  BY LiftAssumption DEF Orders
<1>1. CASE order.throw
  <2> DEFINE g == [seat |-> order.drive, left |-> Shift]
             n == [m EXCEPT !.gear = g, !.belt = order.drive]
  <2>1. g \in Gear
    BY <1>0 DEF Gear
  <2>2. Obey(m, order) = n
    BY <1>1 DEF Obey
  <2> HIDE DEF g
  <2>3. n \in Machine
    BY <1>0, <2>1 DEF Machine, Gear
  <2>4. /\ n.pointer = m.pointer /\ n.orders = m.orders /\ n.drive = m.drive
        /\ n.car = m.car /\ n.gear = g /\ n.belt = order.drive
    BY DEF Machine
  <2> HIDE DEF n
  <2>. QED
    BY <1>1, <2>2, <2>3, <2>4 DEF g
<1>2. CASE ~order.throw
  <2>1. Obey(m, order) = RideTo(m, order.to)
    BY <1>2 DEF Obey
  <2> DEFINE n == RideTo(m, order.to)
  <2>2. CarOnly(m, n)
    BY <1>0, RideToKeeps
  <2>3. Obey(m, order) = n
    BY <2>1
  <2> HIDE DEF n
  <2>. QED
    BY <1>2, <2>1, <2>2, <2>3 DEF CarOnly
<1>. QED
  BY <1>1, <1>2

\* An order queues behind the journey, or is carried out.
LEMMA OrderKeeps ==
  ASSUME NEW m \in Machine, NEW order \in Orders
  PROVE  LET n == Order(m, order) IN
         /\ n \in Machine /\ n.pointer = m.pointer /\ n.drive = m.drive
         /\ Riding(m) =>
               /\ n.orders = Append(m.orders, order)
               /\ n.car = m.car /\ n.gear = m.gear /\ n.belt = m.belt
         /\ ~Riding(m) => n = Obey(m, order) /\ n.orders = m.orders
<1>1. CASE Riding(m)
  <2> DEFINE orders == Append(m.orders, order)
             n == [m EXCEPT !.orders = orders]
  <2>1. orders \in Seq(Orders)
    BY DEF Machine, Orders
  <2>2. Order(m, order) = n
    BY <1>1 DEF Order
  <2> HIDE DEF orders
  <2>3. n \in Machine
    BY <2>1 DEF Machine, Orders
  <2>4. /\ n.pointer = m.pointer /\ n.orders = orders /\ n.drive = m.drive
        /\ n.car = m.car /\ n.gear = m.gear /\ n.belt = m.belt
    BY DEF Machine
  <2> HIDE DEF n
  <2>. QED
    BY <1>1, <2>2, <2>3, <2>4 DEF orders
<1>2. CASE ~Riding(m)
  BY <1>2, ObeyKeeps DEF Order
<1>. QED
  BY <1>1, <1>2

-----------------------------------------------------------------------------
(* The drive the first n orders leave the gear in: that of the last throw  *)
(* among them, and the one it is seated in where there is none.            *)

Wanted(orders, n, seat, drive) ==
    \/ drive = seat /\ \A i \in 1..n : ~orders[i].throw
    \/ \E i \in 1..n : /\ orders[i].throw /\ orders[i].drive = drive
                       /\ \A j \in i + 1..n : ~orders[j].throw

WantedOf(m, drive) == Wanted(m.orders, Len(m.orders), m.gear.seat, drive)

LEMMA WantedIsSeated ==
  ASSUME NEW m \in Machine, NEW drive, WantedOf(m, drive)
  PROVE  Seated(m) = drive
<1> DEFINE throws == {i \in DOMAIN m.orders : m.orders[i].throw}
           n == Len(m.orders)
<1>1. DOMAIN m.orders = 1..n /\ n \in Nat
  BY DEF Machine
<1>2. CASE throws = {}
  <2>1. \A i \in 1..n : ~m.orders[i].throw
    BY <1>1, <1>2
  <2>. QED
    BY <1>2, <2>1 DEF Seated, WantedOf, Wanted
<1>3. CASE throws # {}
  <2>1. PICK i \in 1..n : /\ m.orders[i].throw /\ m.orders[i].drive = drive
                          /\ \A j \in i + 1..n : ~m.orders[j].throw
    BY <1>1, <1>3 DEF WantedOf, Wanted
  <2>2. i \in throws /\ \A j \in throws : j <= i
    BY <1>1, <2>1
  <2>3. \A j \in throws : (\A k \in throws : k <= j) => j = i
    BY <1>1, <2>2
  <2> DEFINE last == CHOOSE j \in throws : \A k \in throws : k <= j
  <2>4. last = i
    <3> HIDE DEF throws
    <3>. QED
      BY <2>2, <2>3
  <2>5. Seated(m) = m.orders[last].drive
    BY <1>3 DEF Seated
  <2>. QED
    BY <2>1, <2>4, <2>5
<1>. QED
  BY <1>2, <1>3

LEMMA WantedNext ==
  ASSUME NEW orders, NEW n \in Nat, NEW seat, NEW drive
  PROVE  Wanted(orders, n + 1, seat, drive) <=>
            IF orders[n + 1].throw THEN drive = orders[n + 1].drive
            ELSE Wanted(orders, n, seat, drive)
<1>1. CASE orders[n + 1].throw
  <2>1. \A i \in 1..n + 1 : (\A j \in i + 1..n + 1 : ~orders[j].throw) => i = n + 1
    BY <1>1
  <2>2. n + 1 \in 1..n + 1 /\ \A j \in n + 1 + 1..n + 1 : FALSE
    OBVIOUS
  <2>. QED
    BY <1>1, <2>1, <2>2 DEF Wanted
<1>2. CASE ~orders[n + 1].throw
  <2>1. \A i : i \in 1..n + 1 <=> i \in 1..n \/ i = n + 1
    OBVIOUS
  <2>2. \A i \in 1..n : \A j : j \in i + 1..n + 1 <=> j \in i + 1..n \/ j = n + 1
    OBVIOUS
  <2>. QED
    BY <1>2, <2>1, <2>2 DEF Wanted
<1>. QED
  BY <1>1, <1>2

LEMMA WantedSame ==
  ASSUME NEW orders, NEW others, NEW n \in Nat, NEW seat, NEW drive,
         \A i \in 1..n : orders[i] = others[i]
  PROVE  Wanted(orders, n, seat, drive) <=> Wanted(others, n, seat, drive)
<1>1. \A i \in 1..n : \A j \in i + 1..n : j \in 1..n
  OBVIOUS
<1>. QED
  BY <1>1 DEF Wanted

\* One order more.
LEMMA OrderWanted ==
  ASSUME NEW m \in Machine, NEW order \in Orders, NEW drive,
         m.orders # <<>> => Riding(m), m.belt = m.gear.seat,
         IF order.throw THEN drive = order.drive ELSE WantedOf(m, drive)
  PROVE  LET n == Order(m, order) IN
         n.belt = n.gear.seat /\ (n.orders # <<>> => Riding(n)) /\ WantedOf(n, drive)
<1> DEFINE n == Order(m, order)
           last == Len(m.orders)
<1>0. /\ m.orders \in Seq(Orders) /\ last \in Nat /\ order.throw \in BOOLEAN
      /\ m.gear \in Gear /\ order.to \in Level /\ order.drive \in Drive
  BY DEF Machine, Orders, Gear
<1>1. CASE Riding(m)
  <2> DEFINE longer == Append(m.orders, order)
  <2>1. n.orders = longer /\ n.car = m.car /\ n.gear = m.gear /\ n.belt = m.belt
    BY <1>1, OrderKeeps
  <2>2. Len(longer) = last + 1 /\ longer[last + 1] = order /\ \A i \in 1..last : longer[i] = m.orders[i]
    BY <1>0
  <2> HIDE DEF longer, n
  <2>3. ~order.throw => Wanted(longer, last, m.gear.seat, drive)
    BY <1>0, <2>2, WantedSame DEF WantedOf
  <2>4. Wanted(longer, last + 1, m.gear.seat, drive)
    BY <1>0, <2>2, <2>3, WantedNext
  <2>5. WantedOf(n, drive)
    BY <2>1, <2>2, <2>4 DEF WantedOf
  <2>. QED
    BY <1>1, <2>1, <2>5 DEF n, Riding
<1>2. CASE ~Riding(m)
  <2>1. n = Obey(m, order) /\ n.orders = m.orders
    BY <1>2, OrderKeeps
  <2>2. m.orders = <<>> /\ last = 0
    BY <1>2
  <2>3. /\ order.throw => n.gear = [seat |-> order.drive, left |-> Shift] /\ n.belt = order.drive
        /\ ~order.throw => n.gear = m.gear /\ n.belt = m.belt
    BY <2>1, ObeyKeeps
  <2> HIDE DEF n
  <2>4. WantedOf(n, drive)
    BY <1>0, <2>1, <2>2, <2>3 DEF WantedOf, Wanted
  <2>. QED
    BY <1>0, <2>1, <2>2, <2>3, <2>4 DEF n
<1>. QED
  BY <1>1, <1>2

-----------------------------------------------------------------------------
(* Arrival.                                                                *)

LEMMA Induction ==
  ASSUME NEW S, 0 \in S, \A n \in Nat : n \in S => n + 1 \in S
  PROVE  Nat \subseteq S
<1> DEFINE T == Nat \ S
<1> SUFFICES ASSUME T # {} PROVE FALSE
  OBVIOUS
<1>1. PICK x \in T : \A y \in T : <<y, x>> \notin OpToRel(<, Nat)
  <2> HIDE DEF T
  <2>1. T \subseteq Nat
    BY DEF T
  <2>. QED
    BY <2>1, NatLessThanWellFounded, WFMin
<1>2. x \in Nat /\ x # 0 /\ x \notin S
  OBVIOUS
<1>3. x - 1 \in Nat /\ x - 1 \in T
  BY <1>2
<1>4. <<x - 1, x>> \in OpToRel(<, Nat)
  BY <1>2, <1>3 DEF OpToRel
<1>. QED
  BY <1>1, <1>3, <1>4

Emptied(m) == [m EXCEPT !.orders = <<>>]

DoneUpTo(n, f, m) == f = [i \in 0..n |-> IF i = 0 THEN Emptied(m) ELSE Order(f[i - 1], m.orders[i])]

\* The machine after each of the orders.
LEMMA DrainByOrders ==
  ASSUME NEW m \in Machine
  PROVE  \E f : DoneUpTo(Len(m.orders), f, m) /\ Drain(m) = f[Len(m.orders)]
<1> DEFINE S == {n \in Nat : \E f : DoneUpTo(n, f, m)}
<1>1. 0 \in S
  <2> DEFINE z == [i \in 0..0 |-> Emptied(m)]
  <2>1. z = [i \in 0..0 |-> IF i = 0 THEN Emptied(m) ELSE Order(z[i - 1], m.orders[i])]
    OBVIOUS
  <2> HIDE DEF z
  <2>. QED
    BY <2>1 DEF DoneUpTo
<1>2. ASSUME NEW n \in Nat, n \in S PROVE n + 1 \in S
  <2>1. PICK f : DoneUpTo(n, f, m)
    BY <1>2
  <2> DEFINE g == [i \in 0..n + 1 |-> IF i = n + 1 THEN Order(f[n], m.orders[n + 1]) ELSE f[i]]
  <2>2. ASSUME NEW i \in 0..n + 1
        PROVE  g[i] = IF i = 0 THEN Emptied(m) ELSE Order(g[i - 1], m.orders[i])
    <3>1. CASE i = n + 1
      BY <3>1
    <3>2. CASE i # n + 1
      <4>1. i \in 0..n /\ g[i] = f[i] /\ (i # 0 => i - 1 \in 0..n /\ g[i - 1] = f[i - 1])
        BY <3>2
      <4>2. f[i] = IF i = 0 THEN Emptied(m) ELSE Order(f[i - 1], m.orders[i])
        BY <2>1, <4>1 DEF DoneUpTo
      <4>. QED
        BY <4>1, <4>2
    <3>. QED
      BY <3>1, <3>2
  <2>3. DoneUpTo(n + 1, g, m)
    BY <2>2 DEF DoneUpTo
  <2> HIDE DEF g
  <2>. QED
    BY <2>3
<1>3. Len(m.orders) \in S
  <2>1. Nat \subseteq S
    <3> HIDE DEF S
    <3>. QED
      BY <1>1, <1>2, Induction
  <2>. QED
    BY <2>1 DEF Machine
<1>4. PICK f : DoneUpTo(Len(m.orders), f, m)
  BY <1>3
<1> DEFINE done == CHOOSE g : DoneUpTo(Len(m.orders), g, m)
<1>5. DoneUpTo(Len(m.orders), done, m)
  BY <1>4
<1>6. Drain(m) = done[Len(m.orders)]
  BY DEF Drain, DoneUpTo, Emptied
<1>. QED
  BY <1>5, <1>6

LEMMA EmptiedKeeps ==
  ASSUME NEW m \in Machine
  PROVE  /\ Emptied(m) \in Machine /\ Emptied(m).orders = <<>>
         /\ Emptied(m).pointer = m.pointer /\ Emptied(m).car = m.car /\ Emptied(m).drive = m.drive
         /\ Emptied(m).gear = m.gear /\ Emptied(m).belt = m.belt
         /\ m.orders = <<>> => Emptied(m) = m
<1>1. <<>> \in Seq([throw : BOOLEAN, drive : Drive, to : Level])
  OBVIOUS
<1>. QED
  BY <1>1 DEF Emptied, Machine

\* What is queued when the car arrives ends in the drive it would have.
LEMMA DrainKeeps ==
  ASSUME NEW m \in Machine, NEW drive, ~Riding(m), m.belt = m.gear.seat, WantedOf(m, drive)
  PROVE  LET n == Drain(m) IN
         /\ n \in Machine /\ n.pointer = m.pointer /\ n.drive = m.drive
         /\ n.belt = n.gear.seat /\ (n.orders # <<>> => Riding(n)) /\ WantedOf(n, drive)
<1> DEFINE last == Len(m.orders)
<1>0. last \in Nat /\ m.orders \in Seq(Orders)
  BY DEF Machine, Orders
<1>1. PICK f : DoneUpTo(last, f, m) /\ Drain(m) = f[last]
  BY DrainByOrders
<1> DEFINE Good(k, n) ==
              /\ k \in Machine /\ k.pointer = m.pointer /\ k.drive = m.drive
              /\ k.belt = k.gear.seat /\ (k.orders # <<>> => Riding(k))
              /\ \A d : Wanted(m.orders, n, m.gear.seat, d) => WantedOf(k, d)
           P == {n \in Nat : n <= last => Good(f[n], n)}
<1>2. 0 \in P
  <2>1. f[0] = Emptied(m)
    BY <1>0, <1>1 DEF DoneUpTo
  <2>2. \A d : Wanted(m.orders, 0, m.gear.seat, d) => d = m.gear.seat
    BY DEF Wanted
  <2>3. \A d : d = m.gear.seat => WantedOf(Emptied(m), d)
    BY EmptiedKeeps DEF WantedOf, Wanted
  <2>4. Good(Emptied(m), 0)
    BY <2>2, <2>3, EmptiedKeeps
  <2> HIDE DEF Good
  <2>. QED
    BY <2>1, <2>4
<1>3. ASSUME NEW n \in Nat, n \in P PROVE n + 1 \in P
  <2> SUFFICES ASSUME n + 1 <= last PROVE Good(f[n + 1], n + 1)
    <3> HIDE DEF Good
    <3>. QED
      OBVIOUS
  <2> DEFINE k == f[n]
             order == m.orders[n + 1]
  <2>1. Good(k, n) /\ order \in Orders
    BY <1>0, <1>3
  <2>2. f[n + 1] = Order(k, order)
    BY <1>0, <1>1 DEF DoneUpTo
  <2>3. \A d : Wanted(m.orders, n + 1, m.gear.seat, d) =>
                  IF order.throw THEN d = order.drive ELSE Wanted(m.orders, n, m.gear.seat, d)
    BY WantedNext
  <2> HIDE DEF k, order
  <2>4. /\ Order(k, order) \in Machine /\ Order(k, order).pointer = m.pointer
        /\ Order(k, order).drive = m.drive
    BY <2>1, OrderKeeps
  <2>5. ASSUME NEW d, Wanted(m.orders, n + 1, m.gear.seat, d)
        PROVE  /\ Order(k, order).belt = Order(k, order).gear.seat
               /\ Order(k, order).orders # <<>> => Riding(Order(k, order))
               /\ WantedOf(Order(k, order), d)
    <3>1. IF order.throw THEN d = order.drive ELSE WantedOf(k, d)
      BY <2>1, <2>3, <2>5
    <3>. QED
      BY <2>1, <3>1, OrderWanted
  <2>6. \E d : Wanted(m.orders, n + 1, m.gear.seat, d)
    <3> DEFINE Q == {i \in Nat : i <= n + 1 => \E d : Wanted(m.orders, i, m.gear.seat, d)}
    <3>1. 0 \in Q
      BY DEF Wanted
    <3>2. ASSUME NEW i \in Nat, i \in Q PROVE i + 1 \in Q
      <4> SUFFICES ASSUME i + 1 <= n + 1 PROVE \E d : Wanted(m.orders, i + 1, m.gear.seat, d)
        OBVIOUS
      <4>1. PICK d : Wanted(m.orders, i, m.gear.seat, d)
        BY <3>2
      <4>2. CASE m.orders[i + 1].throw
        <5>1. Wanted(m.orders, i + 1, m.gear.seat, m.orders[i + 1].drive)
          BY <4>2, WantedNext
        <5>. QED
          BY <5>1
      <4>3. CASE ~m.orders[i + 1].throw
        BY <4>1, <4>3, WantedNext
      <4>. QED
        BY <4>2, <4>3
    <3>3. Nat \subseteq Q
      <4> HIDE DEF Q
      <4>. QED
        BY <3>1, <3>2, Induction
    <3>. QED
      BY <3>3
  <2>. QED
    BY <2>2, <2>4, <2>5, <2>6
<1>4. Good(Drain(m), last)
  <2>1. Nat \subseteq P
    <3> HIDE DEF P
    <3>. QED
      BY <1>2, <1>3, Induction
  <2>2. last \in P
    BY <1>0, <2>1
  <2> HIDE DEF Good
  <2>. QED
    BY <1>0, <1>1, <2>2
<1>. QED
  BY <1>4 DEF WantedOf

LEMMA DrainOfNone ==
  ASSUME NEW m \in Machine, m.orders = <<>>
  PROVE  Drain(m) = m
<1>1. PICK f : DoneUpTo(0, f, m) /\ Drain(m) = f[0]
  BY DrainByOrders
<1>. QED
  BY <1>1, EmptiedKeeps DEF DoneUpTo

LEMMA DrainOfOne ==
  ASSUME NEW m \in Machine, NEW order, m.orders = <<order>>
  PROVE  Drain(m) = Order(Emptied(m), order)
<1>1. PICK f : DoneUpTo(1, f, m) /\ Drain(m) = f[1]
  BY DrainByOrders
<1>2. f[0] = Emptied(m) /\ f[1] = Order(f[0], m.orders[1])
  BY <1>1 DEF DoneUpTo
<1>. QED
  BY <1>1, <1>2

-----------------------------------------------------------------------------
(* A beat.                                                                 *)

Down(left) == IF left > 0 THEN left - 1 ELSE 0

\* Before the car: the pointer and the gear have moved on, and have turned it.
Turned(m, p) ==
    Turn([m EXCEPT !.pointer = p, !.gear.left = IF @ > 0 THEN @ - 1 ELSE 0], p.at - m.pointer.at)

LEMMA PointerMoves ==
  ASSUME NEW q \in Pointer, NEW p \in Pointed(q)
  PROVE  /\ p \in Pointer /\ p.aim = q.aim /\ p.left = Down(q.left)
         /\ q.left = 1 => p.at = 0
         /\ q.left > 0 => p.at <= q.at
         /\ q.left = 0 /\ q.at = q.aim => p.at = q.at
<1>0. Top \in Nat /\ q.at \in Nat /\ q.at <= Top /\ q.aim \in Nat /\ q.aim <= Top /\ q.left \in Nat
  BY LiftAssumption DEF Pointer, Level
<1>1. CASE q.left > 0
  <2>1. /\ p \in [at : IF q.left = 1 THEN {0} ELSE 0..q.at, aim : {q.aim}, left : {q.left - 1}]
    BY <1>1 DEF Pointed
  <2>. QED
    BY <1>0, <1>1, <2>1 DEF Pointer, Down, Level
<1>2. CASE q.left = 0
  <2> DEFINE at == IF q.at < q.aim THEN q.at + 1 ELSE IF q.at > q.aim THEN q.at - 1 ELSE q.at
  <2>1. p = [q EXCEPT !.at = at]
    BY <1>0, <1>2 DEF Pointed
  <2>2. at \in Level /\ (q.at = q.aim => at = q.at)
    BY <1>0 DEF Level
  <2> HIDE DEF at
  <2>. QED
    BY <1>0, <1>2, <2>1, <2>2 DEF Pointer, Down
<1>. QED
  BY <1>0, <1>1, <1>2

LEMMA TurnedKeeps ==
  ASSUME NEW m \in Machine, NEW p \in Pointed(m.pointer)
  PROVE  LET n == Turned(m, p) IN
         /\ n \in Machine
         /\ n.pointer = p /\ n.orders = m.orders /\ n.drive = m.drive /\ n.belt = m.belt
         /\ n.gear = [seat |-> m.gear.seat, left |-> Down(m.gear.left)]
         /\ n.car.left = m.car.left /\ n.car.to = m.car.to
         /\ Throwing(n) \/ Riding(m) \/ p.at = m.pointer.at => n.car.at = m.car.at
         /\ m.belt = "up" /\ p.at <= m.pointer.at /\ m.car.at = 0 => n.car.at = 0
<1> DEFINE g == [seat |-> m.gear.seat, left |-> Down(m.gear.left)]
           k == [m EXCEPT !.pointer = p, !.gear = g]
           delta == p.at - m.pointer.at
           to == IF m.belt = "up" THEN m.car.at + delta ELSE m.car.at - delta
           at == IF to < 0 THEN 0 ELSE IF to > Top THEN Top ELSE to
           c == [at |-> at, to |-> m.car.to, left |-> m.car.left]
<1>0. /\ m.pointer \in Pointer /\ m.car \in Car /\ m.gear \in Gear /\ p \in Pointer /\ Top \in Nat
  BY PointerMoves, LiftAssumption DEF Machine, Pointer, Car, Gear
<1>1. k = [m EXCEPT !.pointer = p, !.gear.left = IF @ > 0 THEN @ - 1 ELSE 0]
  BY <1>0 DEF Machine, Gear, Down
<1>2. g \in Gear
  BY <1>0 DEF Gear, Down
<1>3. k \in Machine /\ k.pointer = p /\ k.gear = g /\ k.car = m.car /\ k.orders = m.orders
      /\ k.drive = m.drive /\ k.belt = m.belt
  <2> HIDE DEF g
  <2>. QED
    BY <1>0, <1>2 DEF Machine, Gear, Pointer
<1>4. delta \in Int /\ to \in Int
  BY <1>0 DEF Pointer, Car, Level
<1> HIDE DEF k
<1>5. Turned(m, p) = IF Throwing(k) \/ Riding(k) THEN k ELSE [k EXCEPT !.car.at = at]
  BY <1>1, <1>3 DEF Turned, Turn
<1>6. /\ at \in Level
      /\ p.at = m.pointer.at => at = m.car.at
      /\ m.belt = "up" /\ p.at <= m.pointer.at /\ m.car.at = 0 => at = 0
  BY <1>0 DEF Pointer, Car, Level
<1> HIDE DEF at
<1>7. CASE Throwing(k) \/ Riding(k)
  BY <1>3, <1>5, <1>7 DEF Riding
<1>8. CASE ~(Throwing(k) \/ Riding(k))
  <2>1. [k EXCEPT !.car.at = at] = [k EXCEPT !.car = c]
    BY <1>0, <1>3 DEF Machine, Car
  <2>2. c \in Car
    BY <1>0, <1>6 DEF Car
  <2> DEFINE n == [k EXCEPT !.car = c]
  <2>3. n \in Machine /\ n.pointer = p /\ n.gear = g /\ n.car = c /\ n.orders = m.orders
        /\ n.drive = m.drive /\ n.belt = m.belt
    <3> HIDE DEF c, g
    <3>. QED
      BY <1>3, <2>2 DEF Machine, Car
  <2>4. Turned(m, p) = n
    BY <1>5, <1>8, <2>1
  <2> HIDE DEF n
  <2>5. ~Throwing(n) /\ ~Riding(m)
    BY <1>3, <1>8, <2>3 DEF Throwing, Riding
  <2>. QED
    BY <1>6, <2>3, <2>4, <2>5
<1>. QED
  BY <1>7, <1>8

LEMMA CarMoved ==
  ASSUME NEW m \in Machine, NEW at \in Level, NEW left \in Nat
  PROVE  [m EXCEPT !.car.left = left, !.car.at = at]
            = [m EXCEPT !.car = [at |-> at, to |-> m.car.to, left |-> left]]
<1>1. m.car \in Car
  BY DEF Machine, Car
<1> DEFINE c == [m.car EXCEPT !.left = left, !.at = at]
<1>2. c \in Car /\ c.at = at /\ c.to = m.car.to /\ c.left = left
  BY <1>1 DEF Car
<1>3. [m EXCEPT !.car.left = left, !.car.at = at] = [m EXCEPT !.car = c]
  BY <1>1 DEF Machine
<1> HIDE DEF c
<1>4. c = [at |-> at, to |-> m.car.to, left |-> left]
  BY <1>2 DEF Car
<1>. QED
  BY <1>3, <1>4

\* The car stands, is on its way, or arrives and turns to what is queued.
LEMMA UpdateCases ==
  ASSUME NEW m \in Machine, NEW n \in Update(m)
  PROVE  \E p \in Pointed(m.pointer) :
            \/ ~Riding(m) /\ n = Turned(m, p)
            \/ /\ m.car.left > 1
               /\ n \in Machine /\ n.pointer = p /\ n.orders = m.orders /\ n.drive = m.drive
               /\ n.belt = m.belt /\ n.gear = [seat |-> m.gear.seat, left |-> Down(m.gear.left)]
               /\ n.car.to = m.car.to /\ n.car.left = m.car.left - 1
            \/ /\ m.car.left = 1
               /\ \E k \in Machine :
                     /\ n = Drain(k)
                     /\ k.pointer = p /\ k.orders = m.orders /\ k.drive = m.drive
                     /\ k.belt = m.belt /\ k.gear = [seat |-> m.gear.seat, left |-> Down(m.gear.left)]
                     /\ k.car = [at |-> m.car.to, to |-> m.car.to, left |-> 0]
<1>1. PICK p \in Pointed(m.pointer) : n \in Carried(Turned(m, p))
  BY DEF Update, Turned
<1> DEFINE t == Turned(m, p)
<1>2. /\ t \in Machine
      /\ t.pointer = p /\ t.orders = m.orders /\ t.drive = m.drive /\ t.belt = m.belt
      /\ t.gear = [seat |-> m.gear.seat, left |-> Down(m.gear.left)]
      /\ t.car.left = m.car.left /\ t.car.to = m.car.to
  BY TurnedKeeps
<1>3. n \in Carried(t)
  BY <1>1
<1>4. Riding(t) <=> Riding(m)
  BY <1>2 DEF Riding
<1>5. t.car \in Car
  BY <1>2 DEF Machine, Car
<1>6. CASE ~Riding(m)
  BY <1>3, <1>4, <1>6 DEF Carried
<1> HIDE DEF t
<1>7. CASE Riding(m) /\ t.car.left = 1
  <2> DEFINE c == [at |-> t.car.to, to |-> t.car.to, left |-> 0]
             k == [t EXCEPT !.car = c]
  <2>1. [t EXCEPT !.car.left = 0, !.car.at = t.car.to] = k
    BY <1>2, <1>5, CarMoved DEF Car
  <2>2. c \in Car
    BY <1>5 DEF Car
  <2>3. k \in Machine /\ k.pointer = t.pointer /\ k.orders = t.orders /\ k.drive = t.drive
        /\ k.belt = t.belt /\ k.gear = t.gear /\ k.car = c
    <3> HIDE DEF c
    <3>. QED
      BY <1>2, <2>2 DEF Machine, Car
  <2>4. n = Drain(k)
    BY <1>3, <1>4, <1>7, <2>1 DEF Carried
  <2> HIDE DEF k
  <2>. QED
    BY <1>2, <1>7, <2>3, <2>4
<1>8. CASE Riding(m) /\ t.car.left # 1
  <2>1. PICK at \in Between(t.car.at, t.car.to) : n = [t EXCEPT !.car.left = @ - 1, !.car.at = at]
    BY <1>3, <1>4, <1>8 DEF Carried
  <2>2. at \in Level
    BY <1>5, <2>1, LiftAssumption DEF Between, Car, Level
  <2>3. t.car.left - 1 \in Nat /\ m.car.left > 1
    BY <1>2, <1>5, <1>8 DEF Riding, Car
  <2> DEFINE c == [at |-> at, to |-> t.car.to, left |-> t.car.left - 1]
             k == [t EXCEPT !.car = c]
  <2>4. [t EXCEPT !.car.left = @ - 1, !.car.at = at] = k
    BY <1>2, <2>2, <2>3, CarMoved
  <2>5. c \in Car
    BY <1>5, <2>2, <2>3 DEF Car
  <2>6. k \in Machine /\ k.pointer = t.pointer /\ k.orders = t.orders /\ k.drive = t.drive
        /\ k.belt = t.belt /\ k.gear = t.gear /\ k.car = c
    <3> HIDE DEF c
    <3>. QED
      BY <1>2, <2>5 DEF Machine, Car
  <2>7. n = k
    BY <2>1, <2>4
  <2> HIDE DEF k
  <2>. QED
    BY <1>2, <2>3, <2>6, <2>7
<1>. QED
  BY <1>6, <1>7, <1>8

-----------------------------------------------------------------------------
(***************************************************************************)
(* What every command and every beat keeps of a machine: something is      *)
(* queued only behind a journey, a fall ends at the stop within its time,  *)
(* the belt runs with the gear, and the drive is where the throws lead.    *)
(***************************************************************************)
Falls(p) ==
    /\ p.left > 0 => p.aim = 0
    /\ p.left = 0 /\ p.aim = 0 => p.at = 0
    /\ p.left <= Sweep

Geared(m) ==
    /\ m.orders # <<>> => Riding(m)
    /\ m.belt = m.gear.seat
    /\ WantedOf(m, m.drive)

Sound(m) == m \in Machine /\ Falls(m.pointer) /\ Geared(m)

LEMMA SoundBeat ==
  ASSUME NEW m, Sound(m), NEW n \in Update(m)
  PROVE  Sound(n) /\ n.drive = m.drive
<1>0. m \in Machine /\ m.pointer \in Pointer /\ m.gear \in Gear /\ m.car \in Car
  BY DEF Sound, Machine, Pointer, Gear, Car
<1>1. PICK p \in Pointed(m.pointer) :
            \/ ~Riding(m) /\ n = Turned(m, p)
            \/ /\ m.car.left > 1
               /\ n \in Machine /\ n.pointer = p /\ n.orders = m.orders /\ n.drive = m.drive
               /\ n.belt = m.belt /\ n.gear = [seat |-> m.gear.seat, left |-> Down(m.gear.left)]
               /\ n.car.to = m.car.to /\ n.car.left = m.car.left - 1
            \/ /\ m.car.left = 1
               /\ \E k \in Machine :
                     /\ n = Drain(k)
                     /\ k.pointer = p /\ k.orders = m.orders /\ k.drive = m.drive
                     /\ k.belt = m.belt /\ k.gear = [seat |-> m.gear.seat, left |-> Down(m.gear.left)]
                     /\ k.car = [at |-> m.car.to, to |-> m.car.to, left |-> 0]
  BY <1>0, UpdateCases
<1>2. Falls(p)
  <2>1. /\ p \in Pointer /\ p.aim = m.pointer.aim /\ p.left = Down(m.pointer.left)
        /\ m.pointer.left = 1 => p.at = 0
        /\ m.pointer.left = 0 /\ m.pointer.at = m.pointer.aim => p.at = m.pointer.at
    BY <1>0, PointerMoves
  <2>. QED
    BY <1>0, <2>1, LiftAssumption DEF Sound, Falls, Down, Pointer
<1>3. CASE ~Riding(m) /\ n = Turned(m, p)
  <2>1. /\ n \in Machine
        /\ n.pointer = p /\ n.orders = m.orders /\ n.drive = m.drive /\ n.belt = m.belt
        /\ n.gear = [seat |-> m.gear.seat, left |-> Down(m.gear.left)]
    BY <1>0, <1>3, TurnedKeeps
  <2>. QED
    BY <1>2, <1>3, <2>1 DEF Sound, Geared, WantedOf
<1>4. CASE /\ m.car.left > 1
           /\ n \in Machine /\ n.pointer = p /\ n.orders = m.orders /\ n.drive = m.drive
           /\ n.belt = m.belt /\ n.gear = [seat |-> m.gear.seat, left |-> Down(m.gear.left)]
           /\ n.car.to = m.car.to /\ n.car.left = m.car.left - 1
  <2>1. Riding(n)
    BY <1>0, <1>4 DEF Riding, Car
  <2>. QED
    BY <1>2, <1>4, <2>1 DEF Sound, Geared, WantedOf
<1>5. ASSUME NEW k \in Machine, n = Drain(k),
             k.pointer = p, k.orders = m.orders, k.drive = m.drive,
             k.belt = m.belt, k.gear = [seat |-> m.gear.seat, left |-> Down(m.gear.left)],
             k.car = [at |-> m.car.to, to |-> m.car.to, left |-> 0]
      PROVE  Sound(n) /\ n.drive = m.drive
  <2>1. ~Riding(k)
    BY <1>5 DEF Riding
  <2>2. WantedOf(k, m.drive) /\ k.belt = k.gear.seat
    BY <1>5 DEF Sound, Geared, WantedOf
  <2>3. /\ n \in Machine /\ n.pointer = k.pointer /\ n.drive = k.drive
        /\ n.belt = n.gear.seat /\ (n.orders # <<>> => Riding(n)) /\ WantedOf(n, m.drive)
    BY <1>5, <2>1, <2>2, DrainKeeps
  <2>. QED
    BY <1>2, <1>5, <2>3 DEF Sound, Geared
<1>. QED
  BY <1>1, <1>3, <1>4, <1>5

LEMMA SoundAim ==
  ASSUME NEW m, Sound(m), NEW level \in Level
  PROVE  Sound(Aim(m, level))
<1> DEFINE a == Aim(m, level)
<1>1. m \in Machine /\ m.pointer \in Pointer /\ level \in Nat
  BY LiftAssumption DEF Sound, Machine, Pointer, Level
<1>2. /\ a \in Machine
      /\ a.car = m.car /\ a.orders = m.orders /\ a.drive = m.drive /\ a.gear = m.gear /\ a.belt = m.belt
      /\ a.pointer = [at |-> m.pointer.at, aim |-> level,
                      left |-> IF level > 0 THEN 0
                               ELSE IF m.pointer.aim > 0 THEN SweepTime(m.pointer.at)
                               ELSE m.pointer.left]
  BY <1>1, AimKeeps
<1> HIDE DEF a
<1>3. Falls(a.pointer)
  <2>1. /\ SweepTime(m.pointer.at) \in Nat \ {0} /\ SweepTime(m.pointer.at) <= Sweep
        /\ m.pointer.aim \in Nat /\ m.pointer.left \in Nat /\ Sweep \in Nat
    BY <1>1, Times, LiftAssumption DEF Pointer, Level
  <2>. QED
    BY <1>1, <1>2, <2>1 DEF Falls, Sound
<1>4. Geared(a)
  BY <1>2 DEF Sound, Geared, Riding, WantedOf
<1>. QED
  BY <1>2, <1>3, <1>4 DEF Sound, a

LEMMA SoundLand ==
  ASSUME NEW m, Sound(m)
  PROVE  Sound(LandCar(m))
<1>1. CarOnly(m, LandCar(m)) /\ Riding(LandCar(m))
  BY LandKeeps DEF Sound
<1> HIDE DEF LandCar
<1>. QED
  BY <1>1 DEF CarOnly, Sound, Geared, WantedOf

LEMMA Given ==
  /\ \A drive \in Drive : ThrowOrder(drive) \in Orders /\ ThrowOrder(drive).throw
                          /\ ThrowOrder(drive).drive = drive
  /\ \A to \in Level : RideOrder(to) \in Orders /\ ~RideOrder(to).throw /\ RideOrder(to).to = to
BY Floors DEF ThrowOrder, RideOrder, Orders, Drive

LEMMA SoundRide ==
  ASSUME NEW m, Sound(m), NEW to \in Level
  PROVE  Sound(Ride(m, to))
<1> DEFINE order == RideOrder(to)
           n == Order(m, order)
<1>1. order \in Orders /\ ~order.throw
  BY Given
<1>2. m \in Machine /\ (m.orders # <<>> => Riding(m)) /\ m.belt = m.gear.seat /\ WantedOf(m, m.drive)
  BY DEF Sound, Geared
<1> HIDE DEF order
<1>3. n \in Machine /\ n.pointer = m.pointer /\ n.drive = m.drive
  BY <1>1, <1>2, OrderKeeps
<1>4. n.belt = n.gear.seat /\ (n.orders # <<>> => Riding(n)) /\ WantedOf(n, m.drive)
  BY <1>1, <1>2, OrderWanted
<1>. QED
  BY <1>3, <1>4 DEF Ride, Sound, Geared, order

SetTo(m, drive) == [m EXCEPT !.drive = drive]

LEMMA SetToKeeps ==
  ASSUME NEW m \in Machine, NEW drive \in Drive
  PROVE  LET k == SetTo(m, drive) IN
         /\ k \in Machine /\ k.drive = drive /\ k.pointer = m.pointer /\ k.car = m.car
         /\ k.orders = m.orders /\ k.gear = m.gear /\ k.belt = m.belt
BY DEF SetTo, Machine

LEMMA SoundSelect ==
  ASSUME NEW m, Sound(m), NEW drive \in Drive
  PROVE  /\ Sound(Select(m, drive)) /\ Select(m, drive).drive = drive
         /\ Select(m, drive).pointer = m.pointer
<1>1. CASE drive = m.drive
  BY <1>1 DEF Select
<1>2. CASE drive # m.drive
  <2> DEFINE k == SetTo(m, drive)
             order == ThrowOrder(drive)
             n == Order(k, order)
  <2>1. order \in Orders /\ order.throw /\ order.drive = drive
    BY Given
  <2>2. /\ k \in Machine /\ k.drive = drive /\ k.pointer = m.pointer /\ k.car = m.car
        /\ k.orders = m.orders /\ k.gear = m.gear /\ k.belt = m.belt
    BY SetToKeeps DEF Sound
  <2>3. Select(m, drive) = n
    BY <1>2 DEF Select, ReverseDrive, SetTo
  <2> HIDE DEF k, order
  <2>4. (k.orders # <<>> => Riding(k)) /\ k.belt = k.gear.seat
    BY <2>2 DEF Sound, Geared, Riding
  <2>5. n \in Machine /\ n.pointer = k.pointer /\ n.drive = k.drive
    BY <2>1, <2>2, OrderKeeps
  <2>6. n.belt = n.gear.seat /\ (n.orders # <<>> => Riding(n)) /\ WantedOf(n, drive)
    BY <2>1, <2>2, <2>4, OrderWanted
  <2> HIDE DEF n
  <2>. QED
    BY <2>2, <2>3, <2>5, <2>6 DEF Sound, Geared
<1>. QED
  BY <1>1, <1>2

\* A reset machine is seated to go up, and the car outlasts the needle's fall.
LEMMA ResetKeeps ==
  ASSUME NEW m, Sound(m)
  PROVE  LET n == Reset(m) IN
         /\ Sound(n)
         /\ n.drive = "up" /\ n.gear = [seat |-> "up", left |-> 0] /\ n.orders = <<>>
         /\ n.pointer.aim = 0
         /\ n.pointer.at > 0 => Riding(n) /\ n.pointer.left <= n.car.left
<1> DEFINE a == Aim(m, 0)
           still == [a EXCEPT !.drive = "up", !.gear = [seat |-> "up", left |-> 0],
                              !.belt = "up", !.orders = <<>>]
           fall == IF m.pointer.at > 0
                   THEN Larger(still.pointer.left, SweepTime(m.pointer.at)) ELSE 0
           time == Larger(fall, RideTime(Distance(still.car.at, Rest)))
           taken == Take(still, Rest, time)
<1>0. m \in Machine /\ 0 \in Level /\ m.pointer \in Pointer /\ Sound(a)
  BY SoundAim, Floors DEF Sound, Machine, Pointer, Rest
<1>1. a \in Machine /\ Falls(a.pointer) /\ a.pointer \in Pointer
      /\ a.pointer.at = m.pointer.at /\ a.pointer.aim = 0 /\ a.car = m.car
  <2>1. a.car = m.car
        /\ a.pointer = [at |-> m.pointer.at, aim |-> 0,
                        left |-> IF 0 > 0 THEN 0
                                 ELSE IF m.pointer.aim > 0 THEN SweepTime(m.pointer.at)
                                 ELSE m.pointer.left]
    BY <1>0, AimKeeps
  <2> HIDE DEF a
  <2>. QED
    BY <1>0, <2>1 DEF Sound, Machine, Pointer
<1>2. Reset(m) = IF fall > 0 \/ m.car.at # Rest THEN taken ELSE still
  BY <1>1 DEF Reset, Home
<1> HIDE DEF a
<1>3. /\ still \in Machine /\ still.pointer = a.pointer /\ still.drive = "up"
      /\ still.gear = [seat |-> "up", left |-> 0] /\ still.belt = "up" /\ still.orders = <<>>
      /\ still.car = m.car
  <2>1. [seat |-> "up", left |-> 0] \in [seat : Drive, left : Nat] /\ "up" \in Drive
    BY DEF Drive
  <2>2. <<>> \in Seq([throw : BOOLEAN, drive : Drive, to : Level])
    OBVIOUS
  <2>. QED
    BY <1>1, <2>1, <2>2 DEF Machine
<1> HIDE DEF still
<1>4. Geared(still)
  BY <1>3 DEF Geared, WantedOf, Wanted
<1>5. /\ fall \in Nat /\ time \in Nat /\ time > 0
      /\ a.pointer.at > 0 => fall > 0 /\ a.pointer.left <= fall
      /\ fall <= time
  <2>1. SweepTime(m.pointer.at) \in Nat \ {0}
    BY <1>0, Times DEF Pointer
  <2>2. RideTime(Distance(still.car.at, Rest)) \in Nat \ {0}
    <3>1. still.car.at \in Level
      BY <1>3 DEF Machine
    <3>. QED
      BY <3>1, Floors, Times
  <2>3. a.pointer.left \in Nat /\ still.pointer.left = a.pointer.left
    BY <1>1, <1>3 DEF Pointer
  <2>. QED
    BY <1>1, <2>1, <2>2, <2>3 DEF Larger
<1> HIDE DEF fall, time
<1>6. CASE fall > 0 \/ m.car.at # Rest
  <2>1. CarOnly(still, taken) /\ taken.car = [at |-> still.car.at, to |-> Rest, left |-> time]
    BY <1>3, <1>5, Floors, TakeKeeps
  <2> HIDE DEF taken
  <2>2. taken \in Machine /\ taken.pointer = a.pointer /\ Riding(taken)
    BY <1>3, <1>5, <2>1 DEF CarOnly, Riding
  <2>3. Sound(taken)
    BY <1>1, <1>4, <2>1, <2>2 DEF CarOnly, Sound, Geared, WantedOf
  <2>4. a.pointer.at > 0 => a.pointer.left <= time
    BY <1>1, <1>5 DEF Pointer
  <2>. QED
    BY <1>1, <1>2, <1>3, <1>6, <2>1, <2>2, <2>3, <2>4 DEF CarOnly
<1>7. CASE ~(fall > 0 \/ m.car.at # Rest)
  <2>1. Sound(still)
    BY <1>1, <1>3, <1>4 DEF Sound
  <2>. QED
    BY <1>1, <1>2, <1>3, <1>5, <1>7, <2>1
<1>. QED
  BY <1>6, <1>7

-----------------------------------------------------------------------------
(* The machine through any tests.                                          *)

Basic ==
    /\ Sound(machine)
    /\ loop \in BOOLEAN
    /\ pc \in {"idle", "opening"} \cup Underway
    /\ timer \in Nat /\ opening \in Nat
    /\ late \in BOOLEAN
    /\ ~loop => AtRest(machine)

LEMMA InitBasic == Init => Basic
<1> SUFFICES ASSUME Init PROVE Basic
  OBVIOUS
<1>1. Assembled \in Machine
  <2>1. <<>> \in Seq([throw : BOOLEAN, drive : Drive, to : Level])
    OBVIOUS
  <2>. QED
    BY <2>1, Floors DEF Assembled, Machine, Drive, Rest
<1>2. /\ Falls(Assembled.pointer) /\ Assembled.orders = <<>> /\ Assembled.belt = Assembled.gear.seat
      /\ WantedOf(Assembled, Assembled.drive) /\ AtRest(Assembled)
  BY LiftAssumption DEF Assembled, Falls, WantedOf, Wanted, AtRest, PointerSettled, Throwing, Free, Riding
<1>. QED
  BY <1>1, <1>2 DEF Init, Basic, Sound, Geared

LEMMA Spans == Transition \in Nat /\ Sweep \in Nat /\ Land \in Nat \ {0} /\ Shift \in Nat \ {0} /\ Settle \in Nat
BY LiftAssumption DEF Transition

\* The pauses the machine is asked for.
LEMMA Pauses ==
  ASSUME NEW m, Sound(m)
  PROVE  /\ SettleTime(m) \in Nat /\ m.car.left <= SettleTime(m) /\ m.pointer.left <= SettleTime(m)
         /\ Destination(m) \in Level /\ RideTime(Distance(Top, Destination(m))) \in Nat \ {0}
<1>1. m.car \in Car /\ m.pointer \in Pointer
  BY DEF Sound, Machine, Car, Pointer
<1>2. Destination(m) \in Level
  BY <1>1 DEF Destination, Car
<1>. QED
  BY <1>1, <1>2, Floors, Times DEF SettleTime, Larger, Car, Pointer

LEMMA NextBasic == Basic /\ [Next]_vars => Basic'
<1> SUFFICES ASSUME Basic, [Next]_vars PROVE Basic'
  OBVIOUS
<1>0. Sound(machine) /\ "up" \in Drive /\ "down" \in Drive /\ 0 \in Level
  BY Floors DEF Basic, Drive, Rest
<1>1. ASSUME NEW frame \in BOOLEAN, Beat(frame) PROVE Basic'
  <2>1. Sound(machine') /\ (~loop' => AtRest(machine')) /\ late' \in BOOLEAN /\ loop' \in BOOLEAN
    <3>1. CASE loop /\ frame
      <4>1. machine' \in Update(machine) /\ loop' = ~AtRest(machine') /\ late' = late
        BY <1>1, <3>1 DEF Beat
      <4>. QED
        BY <1>0, <4>1, SoundBeat DEF Basic
    <3>2. CASE ~(loop /\ frame)
      BY <1>1, <3>2 DEF Beat, Basic
    <3>. QED
      BY <3>1, <3>2
  <2>2. timer' \in Nat /\ UNCHANGED <<pc, opening>>
    BY <1>1 DEF Beat, Basic
  <2>. QED
    BY <2>1, <2>2 DEF Basic
<1>2. CASE Start
  <2>1. Sound(Reset(machine))
    BY <1>0, ResetKeeps
  <2>. QED
    BY <1>2, <2>1 DEF Start, Commanded, Basic
<1>3. CASE Opened
  <2>1. Sound(Aim(Select(Ride(machine, Top), "up"), 0))
    BY <1>0, Floors, SoundRide, SoundSelect, SoundAim
  <2>2. SettleTime(machine) \in Nat /\ RideTime(Distance(Top, Destination(machine))) \in Nat
    BY <1>0, Pauses
  <2>. QED
    BY <1>3, <2>1, <2>2 DEF Opened, Commanded, Basic, Underway
<1>4. CASE Probe
  <2>1. Sound(Aim(machine, 0))
    BY <1>0, SoundAim
  <2>. QED
    BY <1>4, <2>1 DEF Probe, Commanded, Basic, Underway
<1>5. ASSUME NEW from, NEW to \in {"toDownload", "toUpload"}, NEW drive \in Drive,
             Turnabout(from, to, drive)
      PROVE  Basic'
  <2>1. PICK level \in IF from \in Measuring THEN Level ELSE {0} :
           Commanded(Aim(Select(LandCar(Aim(machine, level)), drive), 0))
    BY <1>5 DEF Turnabout
  <2>2. level \in Level
    BY <1>0, <2>1
  <2>3. Sound(Aim(Select(LandCar(Aim(machine, level)), drive), 0))
    BY <1>0, <2>2, SoundAim, SoundLand, SoundSelect
  <2>. QED
    BY <1>5, <2>1, <2>3, Spans DEF Turnabout, Commanded, Basic, Underway
<1>6. ASSUME NEW from, NEW phase \in Measuring, NEW drive \in Drive, Measure(from, phase, drive)
      PROVE  Basic'
  <2>1. Sound(Aim(Select(machine, drive), 0))
    BY <1>0, SoundSelect, SoundAim
  <2>. QED
    BY <1>6, <2>1 DEF Measure, Commanded, Basic, Underway
<1>7. ASSUME NEW level \in Level, Reading(level) PROVE Basic'
  <2>1. Sound(Aim(machine, level))
    BY <1>0, SoundAim
  <2>. QED
    BY <1>7, <2>1 DEF Reading, Commanded, Basic
<1>8. ASSUME NEW level \in Level, Done(level) PROVE Basic'
  <2>1. Sound(Park(Aim(machine, level)))
    BY <1>0, Floors, SoundAim, SoundRide DEF Park
  <2>. QED
    BY <1>8, <2>1 DEF Done, Commanded, Basic
<1>9. CASE Interrupted
  <2>1. Sound(Park(Aim(machine, 0)))
    BY <1>0, Floors, SoundAim, SoundRide DEF Park
  <2>. QED
    BY <1>9, <2>1 DEF Interrupted, Commanded, Basic
<1>10. CASE UNCHANGED vars
  BY <1>10 DEF vars, Basic
<1>. QED
  BY <1>0, <1>1, <1>2, <1>3, <1>4, <1>5, <1>6, <1>7, <1>8, <1>9, <1>10 DEF Next, Measuring

LEMMA AlwaysBasic == Spec => []Basic
BY InitBasic, NextBasic, PTL DEF Spec

\* No command and no beat, in whatever order, takes the mechanism apart.
THEOREM LiftTypeCorrect == Spec => []TypeOK
<1>1. Basic => TypeOK
  BY DEF Basic, Sound, TypeOK
<1>. QED
  BY <1>1, AlwaysBasic, PTL

\* Gear and belt are where the drive is, or will be once what is queued is done,
\* however tests were cut short and whatever they left behind the car.
THEOREM GearFollowsDrive == Spec => []SeatFollowsDrive
<1>1. Basic => SeatFollowsDrive
  BY WantedIsSeated DEF Basic, Sound, Geared, SeatFollowsDrive
<1>. QED
  BY <1>1, AlwaysBasic, PTL

-----------------------------------------------------------------------------
(***************************************************************************)
(* A test that gets its frames: where the machine is in every phase, and   *)
(* that what it still has to do fits in what is left of the pause.         *)
(***************************************************************************)
Upright(m) ==
    m.drive = "up" /\ m.gear = [seat |-> "up", left |-> 0] /\ m.pointer.aim = 0

\* The car is held for as long as the needle falls.
Held(m) == m.pointer.at > 0 => m.pointer.left <= m.car.left

Rising(m, time) ==
    /\ m.orders = <<>>
    /\ IF Riding(m) THEN m.car.to = Top /\ m.car.left <= time ELSE m.car.at = Top

Reversing(m, drive, floor, time) ==
    /\ m.drive = drive /\ m.pointer.aim = 0
    /\ \/ /\ m.orders = <<ThrowOrder(drive)>> /\ m.gear.left = 0
          /\ m.car.to = floor /\ m.car.left + Shift <= time
       \/ /\ m.orders = <<>> /\ ~Riding(m) /\ m.car.at = floor
          /\ m.gear.seat = drive /\ m.gear.left <= time

Driven(m, drive) ==
    m.drive = drive /\ m.gear = [seat |-> drive, left |-> 0] /\ m.orders = <<>> /\ ~Riding(m)

InTime(m) ==
    /\ pc = "opening" => Upright(m) /\ Held(m) /\ m.orders = <<>>
    /\ pc = "settling" =>
          /\ Upright(m) /\ Held(m) /\ m.pointer.left <= timer
          /\ \/ /\ m.orders = <<RideOrder(Top)>> /\ m.car.left <= timer
                /\ opening = RideTime(Distance(Top, m.car.to))
             \/ Rising(m, opening)
    /\ pc = "latency" => Upright(m) /\ m.pointer.left = 0 /\ Rising(m, timer)
    /\ pc = "toDownload" => m.pointer.left = 0 /\ Reversing(m, "down", Top, timer)
    /\ pc = "download" => Driven(m, "down")
    /\ pc = "toUpload" => m.pointer.left <= timer /\ Reversing(m, "up", Rest, timer)
    /\ pc = "upload" => Driven(m, "up")

Timely == ~late => InTime(machine)

LEMMA AimAgain ==
  ASSUME NEW m \in Machine, m.pointer.aim = 0
  PROVE  Aim(m, 0) = m
<1> DEFINE a == Aim(m, 0)
<1>1. m.pointer \in Pointer /\ 0 \in Level
  BY Floors DEF Machine, Pointer, Rest
<1>2. a = [m EXCEPT !.pointer.aim = 0, !.pointer.left = m.pointer.left]
  BY DEF Aim
<1>3. [m.pointer EXCEPT !.aim = 0, !.left = m.pointer.left] = m.pointer
  BY <1>1 DEF Pointer
<1>4. a = [m EXCEPT !.pointer = [m.pointer EXCEPT !.aim = 0, !.left = m.pointer.left]]
  BY <1>1, <1>2 DEF Machine, Pointer
<1>5. [m EXCEPT !.pointer = m.pointer] = m
  BY DEF Machine
<1>. QED
  BY <1>3, <1>4, <1>5

\* A beat while the reading is at its stop or falls to it.
LEMMA FallingBeat ==
  ASSUME NEW m, Sound(m), m.pointer.aim = 0, NEW n \in Update(m)
  PROVE  /\ n.drive = m.drive /\ n.pointer.aim = 0
         /\ n.pointer.left = Down(m.pointer.left) /\ n.pointer.at <= m.pointer.at
         /\ ~Riding(m) =>
               /\ n.orders = <<>> /\ ~Riding(n)
               /\ n.gear = [seat |-> m.gear.seat, left |-> Down(m.gear.left)]
               /\ m.pointer.at = 0 => n.car.at = m.car.at
               /\ m.belt = "up" /\ m.car.at = 0 => n.car.at = 0
         /\ m.car.left > 1 =>
               /\ n.orders = m.orders /\ n.car.to = m.car.to /\ n.car.left = m.car.left - 1
               /\ n.gear = [seat |-> m.gear.seat, left |-> Down(m.gear.left)]
         /\ m.car.left = 1 /\ m.orders = <<>> =>
               /\ n.orders = <<>> /\ n.car = [at |-> m.car.to, to |-> m.car.to, left |-> 0]
               /\ n.gear = [seat |-> m.gear.seat, left |-> Down(m.gear.left)]
         /\ m.car.left = 1 /\ m.orders = <<RideOrder(Top)>> =>
               /\ n.orders = <<>>
               /\ n.gear = [seat |-> m.gear.seat, left |-> Down(m.gear.left)]
               /\ n.car = IF Top = m.car.to THEN [at |-> Top, to |-> Top, left |-> 0]
                          ELSE [at |-> m.car.to, to |-> Top, left |-> RideTime(Distance(Top, m.car.to))]
<1>0. m \in Machine /\ m.pointer \in Pointer /\ m.gear \in Gear /\ m.car \in Car
  BY DEF Sound, Machine, Pointer, Gear, Car
<1>1. PICK p \in Pointed(m.pointer) :
            \/ ~Riding(m) /\ n = Turned(m, p)
            \/ /\ m.car.left > 1
               /\ n \in Machine /\ n.pointer = p /\ n.orders = m.orders /\ n.drive = m.drive
               /\ n.belt = m.belt /\ n.gear = [seat |-> m.gear.seat, left |-> Down(m.gear.left)]
               /\ n.car.to = m.car.to /\ n.car.left = m.car.left - 1
            \/ /\ m.car.left = 1
               /\ \E k \in Machine :
                     /\ n = Drain(k)
                     /\ k.pointer = p /\ k.orders = m.orders /\ k.drive = m.drive
                     /\ k.belt = m.belt /\ k.gear = [seat |-> m.gear.seat, left |-> Down(m.gear.left)]
                     /\ k.car = [at |-> m.car.to, to |-> m.car.to, left |-> 0]
  BY <1>0, UpdateCases
<1>2. /\ p \in Pointer /\ p.aim = 0 /\ p.left = Down(m.pointer.left) /\ p.at <= m.pointer.at
      /\ m.pointer.at = 0 => p.at = m.pointer.at
  <2>1. /\ p \in Pointer /\ p.aim = m.pointer.aim /\ p.left = Down(m.pointer.left)
        /\ m.pointer.left > 0 => p.at <= m.pointer.at
        /\ m.pointer.left = 0 /\ m.pointer.at = m.pointer.aim => p.at = m.pointer.at
    BY <1>0, PointerMoves
  <2>2. m.pointer.at \in Nat /\ p.at \in Nat /\ m.pointer.left \in Nat
    BY <1>0, <2>1, LiftAssumption DEF Pointer, Level
  <2>. QED
    BY <2>1, <2>2 DEF Sound, Falls
<1>3. n.drive = m.drive
  BY SoundBeat
<1>4. CASE ~Riding(m) /\ n = Turned(m, p)
  <2>1. /\ n.pointer = p /\ n.orders = m.orders
        /\ n.gear = [seat |-> m.gear.seat, left |-> Down(m.gear.left)]
        /\ n.car.left = m.car.left
        /\ p.at = m.pointer.at => n.car.at = m.car.at
        /\ m.belt = "up" /\ p.at <= m.pointer.at /\ m.car.at = 0 => n.car.at = 0
    BY <1>0, <1>4, TurnedKeeps
  <2>2. m.orders = <<>> /\ ~(m.car.left > 1) /\ m.car.left # 1
    BY <1>0, <1>4 DEF Sound, Geared, Riding, Car
  <2>. QED
    BY <1>2, <1>3, <1>4, <2>1, <2>2 DEF Riding
<1>5. CASE /\ m.car.left > 1
           /\ n \in Machine /\ n.pointer = p /\ n.orders = m.orders /\ n.drive = m.drive
           /\ n.belt = m.belt /\ n.gear = [seat |-> m.gear.seat, left |-> Down(m.gear.left)]
           /\ n.car.to = m.car.to /\ n.car.left = m.car.left - 1
  <2>1. Riding(m) /\ m.car.left # 1
    BY <1>0, <1>5 DEF Riding, Car
  <2>. QED
    BY <1>2, <1>3, <1>5, <2>1
<1>6. ASSUME m.car.left = 1, NEW k \in Machine, n = Drain(k),
             k.pointer = p, k.orders = m.orders, k.drive = m.drive,
             k.belt = m.belt, k.gear = [seat |-> m.gear.seat, left |-> Down(m.gear.left)],
             k.car = [at |-> m.car.to, to |-> m.car.to, left |-> 0]
      PROVE  /\ n.pointer = p
             /\ m.orders = <<>> => n.orders = <<>> /\ n.car = k.car /\ n.gear = k.gear
             /\ m.orders = <<RideOrder(Top)>> =>
                   /\ n.orders = <<>> /\ n.gear = k.gear
                   /\ n.car = IF Top = m.car.to THEN k.car
                              ELSE [at |-> m.car.to, to |-> Top,
                                    left |-> RideTime(Distance(Top, m.car.to))]
  <2>0. ~Riding(k) /\ k.belt = k.gear.seat /\ WantedOf(k, m.drive)
    BY <1>6 DEF Riding, Sound, Geared, WantedOf
  <2>1. n.pointer = p
    BY <1>6, <2>0, DrainKeeps
  <2>2. CASE m.orders = <<>>
    BY <1>6, <2>1, <2>2, DrainOfNone
  <2> DEFINE e == Emptied(k)
  <2>3. e \in Machine /\ e.orders = <<>> /\ e.car = k.car /\ e.gear = k.gear /\ ~Riding(e)
    BY <2>0, EmptiedKeeps DEF Riding
  <2>4. \A order : m.orders = <<order>> => n = Order(e, order)
    BY <1>6, DrainOfOne
  <2> HIDE DEF e
  <2>5. ASSUME m.orders = <<RideOrder(Top)>>
        PROVE  /\ n.orders = <<>> /\ n.gear = k.gear
               /\ n.car = IF Top = m.car.to THEN k.car
                          ELSE [at |-> m.car.to, to |-> Top,
                                left |-> RideTime(Distance(Top, m.car.to))]
    <3> DEFINE order == RideOrder(Top)
    <3>1. order \in Orders /\ ~order.throw /\ order.to = Top
      BY Given, Floors
    <3>2. n = Order(e, order)
      BY <2>4, <2>5
    <3> HIDE DEF order
    <3>3. n = Obey(e, order) /\ n.orders = <<>>
      BY <2>3, <3>1, <3>2, OrderKeeps
    <3>4. n = RideTo(e, Top) /\ n.gear = e.gear
      BY <2>3, <3>1, <3>3, ObeyKeeps
    <3>5. Destination(e) = m.car.to /\ e.car.at = m.car.to
      BY <1>6, <2>3 DEF Destination
    <3>6. /\ Top = Destination(e) => n = e
          /\ Top # Destination(e) =>
                n.car = [at |-> e.car.at, to |-> Top, left |-> RideTime(Distance(Top, Destination(e)))]
      BY <2>3, <3>4, Floors, RideToKeeps
    <3>. QED
      BY <2>3, <3>3, <3>4, <3>5, <3>6
  <2>. QED
    BY <2>1, <2>2, <2>5
<1>7. CASE m.car.left = 1
  <2>1. Riding(m) /\ ~(m.car.left > 1)
    BY <1>7 DEF Riding
  <2>2. PICK k \in Machine :
           /\ n = Drain(k)
           /\ k.pointer = p /\ k.orders = m.orders /\ k.drive = m.drive
           /\ k.belt = m.belt /\ k.gear = [seat |-> m.gear.seat, left |-> Down(m.gear.left)]
           /\ k.car = [at |-> m.car.to, to |-> m.car.to, left |-> 0]
    BY <1>1, <1>7, <2>1
  <2>3. /\ n.pointer = p
        /\ m.orders = <<>> => n.orders = <<>> /\ n.car = k.car /\ n.gear = k.gear
        /\ m.orders = <<RideOrder(Top)>> =>
              /\ n.orders = <<>> /\ n.gear = k.gear
              /\ n.car = IF Top = m.car.to THEN k.car
                         ELSE [at |-> m.car.to, to |-> Top,
                               left |-> RideTime(Distance(Top, m.car.to))]
    BY <1>6, <1>7, <2>2
  <2>. QED
    BY <1>2, <1>3, <1>7, <2>1, <2>2, <2>3
<1>. QED
  BY <1>1, <1>4, <1>5, <1>7

\* The beat in which the car arrives where the gear is to be thrown.
LEMMA ThrowingBeat ==
  ASSUME NEW m, Sound(m), NEW n \in Update(m), NEW drive \in Drive,
         m.car.left = 1, m.orders = <<ThrowOrder(drive)>>
  PROVE  /\ n.orders = <<>> /\ n.car = [at |-> m.car.to, to |-> m.car.to, left |-> 0]
         /\ n.gear = [seat |-> drive, left |-> Shift]
<1> DEFINE order == ThrowOrder(drive)
<1>1. order \in Orders /\ order.throw /\ order.drive = drive
  BY Given
<1>2. Riding(m) /\ ~(m.car.left > 1) /\ m \in Machine
  BY DEF Riding, Sound
<1>3. PICK k \in Machine :
         /\ n = Drain(k) /\ k.orders = m.orders
         /\ k.car = [at |-> m.car.to, to |-> m.car.to, left |-> 0]
  BY <1>2, UpdateCases
<1> DEFINE e == Emptied(k)
<1>4. e \in Machine /\ e.orders = <<>> /\ e.car = k.car /\ ~Riding(e)
  BY <1>3, EmptiedKeeps DEF Riding
<1>5. k.orders = <<order>>
  BY <1>3
<1> HIDE DEF order, e
<1>6. n = Order(e, order)
  BY <1>3, <1>5, DrainOfOne DEF e
<1>7. n = Obey(e, order) /\ n.orders = <<>>
  BY <1>1, <1>4, <1>6, OrderKeeps
<1>. QED
  BY <1>1, <1>3, <1>4, <1>7, ObeyKeeps

-----------------------------------------------------------------------------
(* Timely, step by step.                                                   *)

LEMMA Figures ==
  ASSUME NEW m, Sound(m)
  PROVE  /\ m \in Machine
         /\ m.pointer.at \in Nat /\ m.pointer.left \in Nat
         /\ m.car.at \in Level /\ m.car.to \in Level /\ m.car.left \in Nat
         /\ m.gear.left \in Nat /\ m.gear.seat \in Drive /\ m.gear = [seat |-> m.gear.seat, left |-> m.gear.left]
         /\ m.orders # <<>> => Riding(m)
         /\ Riding(m) <=> m.car.left > 0
         /\ m.pointer.aim = 0 /\ m.pointer.left = 0 => m.pointer.at = 0
         /\ m.pointer.left <= Sweep
BY LiftAssumption DEF Sound, Geared, Falls, Machine, Level, Riding

\* A pause goes on while a machine with nothing to do is not drawn.
LEMMA RestInTime ==
  ASSUME Basic, InTime(machine), AtRest(machine), machine' = machine, pc' = pc,
         opening' = opening, timer' = Down(timer)
  PROVE  InTime(machine)'
<1>1. Sound(machine) /\ timer \in Nat
  BY DEF Basic
<1>2. /\ machine.pointer.left = 0 /\ machine.gear.left = 0 /\ machine.car.left = 0
      /\ ~Riding(machine) /\ machine.orders = <<>>
  <2>1. machine.gear.left \in Nat /\ machine.car.left \in Nat /\ (Riding(machine) <=> machine.car.left > 0)
    BY <1>1, Figures
  <2>. QED
    BY <2>1 DEF AtRest, PointerSettled, Throwing, Free
<1>3. timer' \in Nat
  BY <1>1 DEF Down
<1>4. \A order : <<order>> # <<>>
  OBVIOUS
<1>. QED
  BY <1>2, <1>3, <1>4 DEF InTime, Upright, Held, Rising, Reversing, Driven, Riding

LEMMA UprightBeat ==
  ASSUME NEW m, Sound(m), Upright(m), Held(m), NEW n \in Update(m), Sound(n),
         \/ m.orders = <<>>
         \/ m.orders = <<RideOrder(Top)>>
  PROVE  /\ Upright(n) /\ Held(n) /\ n.pointer.left = Down(m.pointer.left)
         /\ m.orders = <<>> => n.orders = <<>>
         /\ \A time \in Nat : Rising(m, time) => Rising(n, time) /\ Rising(n, Down(time))
         /\ m.orders = <<RideOrder(Top)>> =>
               \/ n.orders = m.orders /\ n.car.to = m.car.to /\ n.car.left = m.car.left - 1
               \/ Rising(n, RideTime(Distance(Top, m.car.to)))
<1>0. /\ m.pointer.at \in Nat /\ m.pointer.left \in Nat /\ m.car.left \in Nat
      /\ m.gear = [seat |-> "up", left |-> 0] /\ m.pointer.aim = 0 /\ m.drive = "up"
      /\ m.orders # <<>> => Riding(m)
      /\ Riding(m) <=> m.car.left > 0
      /\ m.pointer.left = 0 => m.pointer.at = 0
      /\ n.pointer.at \in Nat /\ n.pointer.left \in Nat /\ n.car.left \in Nat
      /\ Riding(n) <=> n.car.left > 0
      /\ n.pointer.aim = 0 /\ n.pointer.left = 0 => n.pointer.at = 0
  BY Figures DEF Upright
<1>1. /\ n.drive = m.drive /\ n.pointer.aim = 0
      /\ n.pointer.left = Down(m.pointer.left) /\ n.pointer.at <= m.pointer.at
      /\ ~Riding(m) =>
            /\ n.orders = <<>> /\ ~Riding(n)
            /\ n.gear = [seat |-> m.gear.seat, left |-> Down(m.gear.left)]
            /\ m.pointer.at = 0 => n.car.at = m.car.at
      /\ m.car.left > 1 =>
            /\ n.orders = m.orders /\ n.car.to = m.car.to /\ n.car.left = m.car.left - 1
            /\ n.gear = [seat |-> m.gear.seat, left |-> Down(m.gear.left)]
      /\ m.car.left = 1 /\ m.orders = <<>> =>
            /\ n.orders = <<>> /\ n.car = [at |-> m.car.to, to |-> m.car.to, left |-> 0]
            /\ n.gear = [seat |-> m.gear.seat, left |-> Down(m.gear.left)]
      /\ m.car.left = 1 /\ m.orders = <<RideOrder(Top)>> =>
            /\ n.orders = <<>>
            /\ n.gear = [seat |-> m.gear.seat, left |-> Down(m.gear.left)]
            /\ n.car = IF Top = m.car.to THEN [at |-> Top, to |-> Top, left |-> 0]
                       ELSE [at |-> m.car.to, to |-> Top, left |-> RideTime(Distance(Top, m.car.to))]
  BY <1>0, FallingBeat
<1>2. [seat |-> m.gear.seat, left |-> Down(m.gear.left)] = [seat |-> "up", left |-> 0]
  BY <1>0 DEF Down
<1>3. /\ ~Riding(m) => m.pointer.at = 0
      /\ m.car.left = 1 => n.pointer.at = 0
  BY <1>0, <1>1 DEF Held, Down
<1>4. <<RideOrder(Top)>> # <<>>
  OBVIOUS
<1>5. ~Riding(m) \/ m.car.left > 1 \/ m.car.left = 1
  BY <1>0
<1>6. Upright(n)
  BY <1>0, <1>1, <1>2, <1>5 DEF Upright
<1>7. Held(n)
  BY <1>0, <1>1, <1>3, <1>5 DEF Held, Down
<1>8. m.orders = <<>> => n.orders = <<>>
  BY <1>1, <1>5
<1>9. ASSUME NEW time \in Nat, Rising(m, time)
      PROVE  Rising(n, time) /\ Rising(n, Down(time))
  BY <1>0, <1>1, <1>3, <1>5, <1>9 DEF Rising, Down
<1>10. ASSUME m.orders = <<RideOrder(Top)>>
       PROVE  \/ n.orders = m.orders /\ n.car.to = m.car.to /\ n.car.left = m.car.left - 1
              \/ Rising(n, RideTime(Distance(Top, m.car.to)))
  <2>1. Riding(m)
    BY <1>0, <1>4, <1>10
  <2>2. CASE m.car.left > 1
    BY <1>1, <2>2
  <2>3. CASE m.car.left = 1
    <3>1. RideTime(Distance(Top, m.car.to)) \in Nat \ {0}
      BY Figures, Floors, Times
    <3>. QED
      BY <1>0, <1>1, <1>10, <2>3, <3>1 DEF Rising
  <2>. QED
    BY <1>0, <2>1, <2>2, <2>3
<1>. QED
  BY <1>1, <1>6, <1>7, <1>8, <1>9, <1>10

LEMMA ReversingBeat ==
  ASSUME NEW m, Sound(m), NEW n \in Update(m), Sound(n), NEW drive \in Drive, NEW floor \in Level,
         NEW time \in Nat, Reversing(m, drive, floor, time),
         m.pointer.at = 0 \/ (drive = "up" /\ floor = Rest)
  PROVE  Reversing(n, drive, floor, Down(time)) /\ n.pointer.left = Down(m.pointer.left)
<1>0. /\ m.pointer.aim = 0 /\ m.drive = drive /\ m.gear.left \in Nat /\ m.car.left \in Nat
      /\ m.orders # <<>> => Riding(m)
      /\ Riding(m) <=> m.car.left > 0
      /\ Riding(n) <=> n.car.left > 0
      /\ Shift \in Nat
  BY Figures, Spans DEF Reversing
<1>1. n.drive = drive /\ n.pointer.aim = 0 /\ n.pointer.left = Down(m.pointer.left)
  BY <1>0, FallingBeat
<1>2. CASE m.orders = <<>> /\ ~Riding(m) /\ m.car.at = floor /\ m.gear.seat = drive /\ m.gear.left <= time
  <2>1. /\ n.orders = <<>> /\ ~Riding(n)
        /\ n.gear = [seat |-> m.gear.seat, left |-> Down(m.gear.left)]
        /\ m.pointer.at = 0 => n.car.at = m.car.at
        /\ m.belt = "up" /\ m.car.at = 0 => n.car.at = 0
    BY <1>0, <1>2, FallingBeat
  <2>2. m.belt = drive
    BY <1>2 DEF Sound, Geared
  <2>3. n.car.at = floor
    BY <1>2, <2>1, <2>2 DEF Rest
  <2>4. n.gear.seat = drive /\ n.gear.left <= Down(time)
    BY <1>0, <1>2, <2>1 DEF Down
  <2>. QED
    BY <1>1, <2>1, <2>3, <2>4 DEF Reversing
<1>3. CASE /\ m.orders = <<ThrowOrder(drive)>> /\ m.gear.left = 0
           /\ m.car.to = floor /\ m.car.left + Shift <= time
  <2>1. Riding(m)
    BY <1>0, <1>3
  <2>2. CASE m.car.left > 1
    <3>1. /\ n.orders = m.orders /\ n.car.to = m.car.to /\ n.car.left = m.car.left - 1
          /\ n.gear = [seat |-> m.gear.seat, left |-> Down(m.gear.left)]
      BY <1>0, <2>2, FallingBeat
    <3>2. n.gear.left = 0 /\ n.car.left + Shift <= Down(time)
      BY <1>0, <1>3, <2>2, <3>1 DEF Down
    <3>. QED
      BY <1>1, <1>3, <3>1, <3>2 DEF Reversing
  <2>3. CASE m.car.left = 1
    <3>1. /\ n.orders = <<>> /\ n.car = [at |-> m.car.to, to |-> m.car.to, left |-> 0]
          /\ n.gear = [seat |-> drive, left |-> Shift]
      BY <1>3, <2>3, ThrowingBeat
    <3>2. ~Riding(n) /\ n.car.at = floor /\ n.gear.seat = drive /\ n.gear.left <= Down(time)
      BY <1>0, <1>3, <2>3, <3>1 DEF Down
    <3>. QED
      BY <1>1, <3>1, <3>2 DEF Reversing
  <2>. QED
    BY <1>0, <2>1, <2>2, <2>3
<1>. QED
  BY <1>2, <1>3 DEF Reversing

LEMMA FrameInTime ==
  ASSUME Basic, InTime(machine), machine' \in Update(machine), Sound(machine'), pc' = pc,
         opening' = opening, timer' = Down(timer)
  PROVE  InTime(machine)'
<1> DEFINE m == machine
           n == machine'
<1>0. Sound(m) /\ Sound(n) /\ n \in Update(m) /\ timer \in Nat /\ opening \in Nat
      /\ "up" \in Drive /\ "down" \in Drive
  BY DEF Basic, Drive
<1>1. /\ m.pointer.at \in Nat /\ m.pointer.left \in Nat /\ m.gear.left \in Nat
      /\ m.pointer.aim = 0 /\ m.pointer.left = 0 => m.pointer.at = 0
      /\ m.orders # <<>> => Riding(m)
      /\ Riding(m) <=> m.car.left > 0
      /\ m.car.left \in Nat
  BY <1>0, Figures
<1> HIDE DEF m, n
<1>2. ASSUME pc = "opening"
      PROVE  Upright(n) /\ Held(n) /\ n.orders = <<>>
  <2>1. Upright(m) /\ Held(m) /\ m.orders = <<>>
    BY <1>2 DEF InTime, m
  <2>. QED
    BY <1>0, <2>1, UprightBeat
<1>3. ASSUME pc = "settling"
      PROVE  /\ Upright(n) /\ Held(n) /\ n.pointer.left <= Down(timer)
             /\ \/ /\ n.orders = <<RideOrder(Top)>> /\ n.car.left <= Down(timer)
                   /\ opening = RideTime(Distance(Top, n.car.to))
                \/ Rising(n, opening)
  <2>1. /\ Upright(m) /\ Held(m) /\ m.pointer.left <= timer
        /\ \/ /\ m.orders = <<RideOrder(Top)>> /\ m.car.left <= timer
              /\ opening = RideTime(Distance(Top, m.car.to))
           \/ Rising(m, opening)
    BY <1>3 DEF InTime, m
  <2>2. m.orders = <<>> \/ m.orders = <<RideOrder(Top)>>
    BY <2>1 DEF Rising
  <2>3. /\ Upright(n) /\ Held(n) /\ n.pointer.left = Down(m.pointer.left)
        /\ Rising(m, opening) => Rising(n, opening)
        /\ m.orders = <<RideOrder(Top)>> =>
              \/ n.orders = m.orders /\ n.car.to = m.car.to /\ n.car.left = m.car.left - 1
              \/ Rising(n, RideTime(Distance(Top, m.car.to)))
    BY <1>0, <2>1, <2>2, UprightBeat
  <2>4. n.pointer.left <= Down(timer)
    BY <1>0, <1>1, <2>1, <2>3 DEF Down
  <2>5. CASE /\ m.orders = <<RideOrder(Top)>> /\ m.car.left <= timer
             /\ opening = RideTime(Distance(Top, m.car.to))
    <3>1. CASE n.orders = m.orders /\ n.car.to = m.car.to /\ n.car.left = m.car.left - 1
      <4>1. n.car.left <= Down(timer)
        BY <1>0, <1>1, <2>5, <3>1 DEF Down
      <4>. QED
        BY <2>3, <2>4, <2>5, <3>1, <4>1
    <3>2. CASE Rising(n, RideTime(Distance(Top, m.car.to)))
      BY <2>3, <2>4, <2>5, <3>2
    <3>. QED
      BY <2>3, <2>5, <3>1, <3>2
  <2>. QED
    BY <2>1, <2>3, <2>4, <2>5
<1>4. ASSUME pc = "latency"
      PROVE  Upright(n) /\ n.pointer.left = 0 /\ Rising(n, Down(timer))
  <2>1. Upright(m) /\ m.pointer.left = 0 /\ Rising(m, timer)
    BY <1>4 DEF InTime, m
  <2>2. m.orders = <<>> /\ Held(m)
    BY <1>1, <2>1 DEF Rising, Held, Upright
  <2>3. Upright(n) /\ n.pointer.left = Down(m.pointer.left) /\ Rising(n, Down(timer))
    BY <1>0, <2>1, <2>2, UprightBeat
  <2>. QED
    BY <2>1, <2>3 DEF Down
<1>5. ASSUME pc = "toDownload"
      PROVE  n.pointer.left = 0 /\ Reversing(n, "down", Top, Down(timer))
  <2>1. m.pointer.left = 0 /\ Reversing(m, "down", Top, timer)
    BY <1>5 DEF InTime, m
  <2>2. m.pointer.at = 0
    BY <1>1, <2>1 DEF Reversing
  <2>3. Reversing(n, "down", Top, Down(timer)) /\ n.pointer.left = Down(m.pointer.left)
    BY <1>0, <2>1, <2>2, Floors, ReversingBeat
  <2>. QED
    BY <2>1, <2>3 DEF Down
<1>6. ASSUME pc = "toUpload"
      PROVE  n.pointer.left <= Down(timer) /\ Reversing(n, "up", Rest, Down(timer))
  <2>1. m.pointer.left <= timer /\ Reversing(m, "up", Rest, timer)
    BY <1>6 DEF InTime, m
  <2>2. Reversing(n, "up", Rest, Down(timer)) /\ n.pointer.left = Down(m.pointer.left)
    BY <1>0, <2>1, Floors, ReversingBeat
  <2>. QED
    BY <1>0, <1>1, <2>1, <2>2 DEF Down
<1>7. ASSUME NEW drive, Driven(m, drive)
      PROVE  Driven(n, drive)
  <2>1. PICK p \in Pointed(m.pointer) : n = Turned(m, p)
    <3>1. ~Riding(m) /\ ~(m.car.left > 1) /\ m.car.left # 1 /\ m \in Machine
      BY <1>0, <1>1, <1>7 DEF Driven, Sound
    <3>. QED
      BY <1>0, <3>1, UpdateCases
  <2>2. /\ n.orders = m.orders /\ n.drive = m.drive
        /\ n.gear = [seat |-> m.gear.seat, left |-> Down(m.gear.left)]
        /\ n.car.left = m.car.left
    BY <1>0, <2>1, TurnedKeeps DEF Sound
  <2>. QED
    BY <1>7, <2>2 DEF Driven, Down, Riding
<1>8. /\ pc = "download" => Driven(n, "down")
      /\ pc = "upload" => Driven(n, "up")
  BY <1>7 DEF InTime, m
<1>. QED
  BY <1>2, <1>3, <1>4, <1>5, <1>6, <1>8 DEF InTime, n

\* The opening: the ride up begins at once, or behind the ride home.
LEMMA OpeningInTime ==
  ASSUME Basic, InTime(machine), Opened
  PROVE  InTime(machine)'
<1> DEFINE m == machine
           n == Ride(m, Top)
<1>0. /\ Sound(m) /\ Upright(m) /\ Held(m) /\ m.orders = <<>>
      /\ pc' = "settling" /\ timer' = SettleTime(m)
      /\ opening' = RideTime(Distance(Top, Destination(m)))
      /\ machine' = Aim(Select(n, "up"), 0)
  BY DEF Basic, InTime, Opened, Commanded
<1>1. /\ m \in Machine /\ m.pointer.at \in Nat /\ m.pointer.left \in Nat /\ m.car.left \in Nat
      /\ Riding(m) <=> m.car.left > 0
      /\ m.pointer.aim = 0 /\ m.pointer.left = 0 => m.pointer.at = 0
      /\ m.car.left <= timer' /\ m.pointer.left <= timer' /\ opening' \in Nat \ {0}
  BY <1>0, Figures, Pauses
<1> HIDE DEF m
<1> DEFINE order == RideOrder(Top)
<1>2. order \in Orders /\ ~order.throw /\ order.to = Top /\ n = Order(m, order)
  BY Given, Floors DEF Ride
<1> HIDE DEF order, n
<1>3. n \in Machine /\ n.pointer = m.pointer /\ n.drive = m.drive
  BY <1>1, <1>2, OrderKeeps
<1>4. CASE Riding(m)
  <2>1. n.orders = <<order>> /\ n.car = m.car /\ n.gear = m.gear
    BY <1>0, <1>1, <1>2, <1>4, OrderKeeps
  <2>2. opening' = RideTime(Distance(Top, n.car.to))
    BY <1>0, <1>4, <2>1 DEF Destination
  <2>3. Upright(n) /\ Held(n) /\ n.pointer.left <= timer' /\ n.car.left <= timer'
    BY <1>0, <1>1, <1>3, <2>1 DEF Upright, Held
  <2>4. machine' = n
    BY <1>0, <1>3, <2>3, AimAgain DEF Select, Upright
  <2>. QED
    BY <1>0, <2>1, <2>2, <2>3, <2>4 DEF InTime, order
<1>5. CASE ~Riding(m)
  <2>1. n = Obey(m, order) /\ n.orders = <<>>
    BY <1>0, <1>1, <1>2, <1>5, OrderKeeps
  <2>2. n = RideTo(m, Top) /\ n.gear = m.gear
    <3>1. Obey(m, order) = RideTo(m, order.to) /\ Obey(m, order).gear = m.gear
      BY <1>1, <1>2, ObeyKeeps
    <3>. QED
      BY <1>2, <2>1, <3>1
  <2>3. Destination(m) = m.car.at
    BY <1>5 DEF Destination
  <2>4. Rising(n, opening')
    <3>1. /\ Top = Destination(m) => n = m
          /\ Top # Destination(m) =>
                n.car = [at |-> m.car.at, to |-> Top, left |-> RideTime(Distance(Top, Destination(m)))]
      BY <1>1, <2>2, Floors, RideToKeeps
    <3>2. CASE Top = Destination(m)
      BY <1>0, <1>5, <2>3, <3>1, <3>2 DEF Rising
    <3>3. CASE Top # Destination(m)
      <4>1. n.car.to = Top /\ n.car.left = opening' /\ Riding(n)
        BY <1>0, <1>1, <3>1, <3>3 DEF Riding
      <4>. QED
        BY <1>1, <2>1, <4>1 DEF Rising
    <3>. QED
      BY <3>2, <3>3
  <2>5. m.pointer.at = 0
    BY <1>0, <1>1, <1>5 DEF Held, Upright
  <2>6. Upright(n) /\ Held(n) /\ n.pointer.left <= timer'
    BY <1>0, <1>1, <1>3, <2>2, <2>5 DEF Upright, Held
  <2>7. machine' = n
    BY <1>0, <1>3, <2>6, AimAgain DEF Select, Upright
  <2>. QED
    BY <1>0, <2>4, <2>6, <2>7 DEF InTime
<1>. QED
  BY <1>4, <1>5

\* A reversal: the leg runs into its floor, and the throw waits behind it.
LEMMA ReversalInTime ==
  ASSUME NEW m, Sound(m), m.orders = <<>>, ~Riding(m), m.gear.left = 0, NEW drive \in Drive,
         m.drive # drive,
         NEW level \in Level
  PROVE  LET floor == IF m.drive = "down" THEN Rest ELSE Top
             n == Aim(Select(LandCar(Aim(m, level)), drive), 0)
         IN  /\ Reversing(n, drive, floor, Transition) /\ n.pointer.left <= Transition
             /\ level = 0 /\ m.pointer.aim = 0 => n.pointer.left = m.pointer.left
<1> DEFINE floor == IF m.drive = "down" THEN Rest ELSE Top
           a == Aim(m, level)
           l == LandCar(a)
           k == SetTo(l, drive)
           order == ThrowOrder(drive)
           s == Order(k, order)
           n == Aim(s, 0)
<1>0. m \in Machine /\ 0 \in Level /\ Sound(a)
  BY SoundAim, Floors DEF Sound, Rest
<1>1. /\ a \in Machine /\ a.car = m.car /\ a.orders = <<>> /\ a.drive = m.drive /\ a.gear = m.gear
      /\ level = 0 /\ m.pointer.aim = 0 => a.pointer = m.pointer
  <2>1. a.car = m.car /\ a.orders = m.orders /\ a.drive = m.drive /\ a.gear = m.gear
    BY <1>0, AimKeeps
  <2>2. level = 0 /\ m.pointer.aim = 0 => a = m
    BY <1>0, AimAgain
  <2> HIDE DEF a
  <2>. QED
    BY <1>0, <2>1, <2>2 DEF Sound
<1>2. Sound(l)
  BY <1>0, SoundLand
<1> HIDE DEF a
<1>3. CarOnly(a, l) /\ l.car = [at |-> a.car.at, to |-> floor, left |-> Land]
  <2>1. ~Riding(a)
    BY <1>1 DEF Riding
  <2>2. floor = IF a.drive = "down" THEN Rest ELSE Top
    BY <1>1
  <2> HIDE DEF floor
  <2>3. /\ CarOnly(a, l)
        /\ ~Riding(a) => l.car = [at |-> a.car.at, to |-> IF a.drive = "down" THEN Rest ELSE Top,
                                  left |-> Land]
    BY <1>1, LandKeeps, Zenon
  <2>. QED
    BY <2>1, <2>2, <2>3
<1> HIDE DEF l
<1>4. Sound(s) /\ s = Select(l, drive)
  <2>1. s = Select(l, drive)
    BY <1>1, <1>3 DEF CarOnly, Select, ReverseDrive, SetTo
  <2> HIDE DEF s
  <2>. QED
    BY <1>2, <2>1, SoundSelect
<1>5. l \in Machine
  BY <1>2 DEF Sound
<1>6. /\ k \in Machine /\ k.drive = drive /\ k.pointer = l.pointer /\ k.car = l.car
      /\ k.orders = l.orders /\ k.gear = l.gear
  BY <1>5, SetToKeeps
<1>7. order \in Orders
  BY Given
<1> HIDE DEF k, order
<1>8. Riding(k) /\ k.orders = <<>>
  BY <1>1, <1>3, <1>6, Spans DEF CarOnly, Riding
<1>9. /\ s \in Machine /\ s.pointer = k.pointer /\ s.drive = k.drive
      /\ s.orders = Append(k.orders, order) /\ s.car = k.car /\ s.gear = k.gear
  BY <1>6, <1>7, <1>8, OrderKeeps
<1> HIDE DEF s
<1>10. Sound(n)
  BY <1>0, <1>4, SoundAim
<1>11. /\ n.car = s.car /\ n.orders = s.orders /\ n.drive = s.drive /\ n.gear = s.gear
       /\ n.pointer = [at |-> s.pointer.at, aim |-> 0,
                       left |-> IF 0 > 0 THEN 0
                                ELSE IF s.pointer.aim > 0 THEN SweepTime(s.pointer.at)
                                ELSE s.pointer.left]
  BY <1>0, <1>9, AimKeeps
<1>12. s.pointer = a.pointer /\ s.pointer.aim \in Nat
  <2>1. s.pointer = a.pointer
    BY <1>3, <1>6, <1>9 DEF CarOnly
  <2>2. s.pointer \in Pointer
    BY <1>9 DEF Machine, Pointer
  <2>. QED
    BY <2>1, <2>2, LiftAssumption DEF Pointer, Level
<1>13. level = 0 /\ m.pointer.aim = 0 => n.pointer.left = m.pointer.left
  BY <1>1, <1>11, <1>12
<1> HIDE DEF n
<1>14. n.pointer.left <= Transition
  <2>1. n.pointer.left \in Nat /\ n.pointer.left <= Sweep
    BY <1>10, Figures
  <2> HIDE DEF s
  <2>. QED
    BY <2>1, Spans, TempoAssumption
<1>15. Reversing(n, drive, floor, Transition)
  <2>1. n.orders = <<ThrowOrder(drive)>>
    BY <1>8, <1>9, <1>11 DEF order
  <2>2. n.gear.left = 0 /\ n.car.to = floor /\ n.car.left = Land /\ n.drive = drive /\ n.pointer.aim = 0
    BY <1>1, <1>3, <1>6, <1>9, <1>11 DEF CarOnly
  <2>3. Land + Shift <= Transition
    BY Spans DEF Transition
  <2>. QED
    BY <2>1, <2>2, <2>3 DEF Reversing
<1>16. n = Aim(Select(LandCar(Aim(m, level)), drive), 0)
  BY <1>4 DEF n, l, a
<1>. QED
  BY <1>13, <1>14, <1>15, <1>16

\* A reversal whose time is up is done.
LEMMA Reversed ==
  ASSUME NEW m, Sound(m), NEW drive \in Drive, NEW floor, Reversing(m, drive, floor, 0)
  PROVE  /\ m.gear = [seat |-> drive, left |-> 0] /\ m.orders = <<>>
         /\ ~Riding(m) /\ m.car.at = floor /\ m.drive = drive
         /\ Aim(Select(m, drive), 0) = m
<1>1. /\ m \in Machine /\ m.car.left \in Nat /\ m.gear.left \in Nat /\ Shift \in Nat \ {0}
      /\ m.gear = [seat |-> m.gear.seat, left |-> m.gear.left]
  BY Figures, Spans
<1>2. ~(m.car.left + Shift <= 0)
  BY <1>1
<1>3. /\ m.orders = <<>> /\ ~Riding(m) /\ m.car.at = floor
      /\ m.gear.seat = drive /\ m.gear.left <= 0 /\ m.drive = drive /\ m.pointer.aim = 0
  BY <1>2 DEF Reversing
<1>4. m.gear = [seat |-> drive, left |-> 0]
  BY <1>1, <1>3
<1>5. Aim(Select(m, drive), 0) = m
  BY <1>1, <1>3, AimAgain DEF Select
<1>. QED
  BY <1>3, <1>4, <1>5

LEMMA NextTimely == Basic /\ Basic' /\ Timely /\ [Next]_vars => Timely'
<1> SUFFICES ASSUME Basic, Basic', Timely, [Next]_vars, ~late' PROVE InTime(machine)'
  BY DEF Timely
<1>0. /\ Sound(machine) /\ Sound(machine') /\ machine \in Machine
      /\ "up" \in Drive /\ "down" \in Drive /\ 0 \in Level
  BY Floors DEF Basic, Sound, Drive, Rest
<1>1. /\ machine.pointer.left \in Nat /\ machine.car.left \in Nat
      /\ machine.orders # <<>> => Riding(machine)
      /\ Riding(machine) <=> machine.car.left > 0
  BY <1>0, Figures
<1>2. ASSUME NEW frame \in BOOLEAN, Beat(frame) PROVE InTime(machine)'
  <2>1. pc' = pc /\ opening' = opening /\ timer' = Down(timer) /\ ~late
    BY <1>2 DEF Beat, Down, Basic
  <2>2. InTime(machine)
    BY <2>1 DEF Timely
  <2>3. CASE loop /\ frame
    <3>1. machine' \in Update(machine)
      BY <1>2, <2>3 DEF Beat
    <3>. QED
      BY <1>0, <2>1, <2>2, <3>1, FrameInTime
  <2>4. CASE ~(loop /\ frame)
    <3>1. machine' = machine /\ ~loop
      BY <1>2, <2>4 DEF Beat
    <3>. QED
      BY <2>1, <2>2, <3>1, RestInTime DEF Basic
  <2>. QED
    BY <2>3, <2>4
<1>3. CASE Start
  <2>1. machine' = Reset(machine) /\ pc' = "opening"
    BY <1>3 DEF Start, Commanded
  <2>2. Upright(machine') /\ Held(machine') /\ machine'.orders = <<>>
    BY <1>0, <2>1, ResetKeeps DEF Upright, Held
  <2>. QED
    BY <2>1, <2>2 DEF InTime
<1>4. CASE Opened
  <2>1. InTime(machine)
    BY <1>4 DEF Opened, Timely
  <2>. QED
    BY <1>4, <2>1, OpeningInTime
<1>5. CASE Probe
  <2>1. pc = "settling" /\ timer = 0 /\ timer' = opening /\ pc' = "latency" /\ InTime(machine)
    BY <1>5 DEF Probe, Timely
  <2>2. /\ Upright(machine) /\ machine.pointer.left <= 0
        /\ \/ machine.orders = <<RideOrder(Top)>> /\ machine.car.left <= 0
           \/ Rising(machine, opening)
    BY <2>1 DEF InTime
  <2>3. machine' = machine
    BY <1>0, <1>5, <2>2, AimAgain DEF Probe, Commanded, Upright
  <2>4. machine.pointer.left = 0
    BY <1>1, <2>2
  <2>5. ~(machine.orders = <<RideOrder(Top)>> /\ machine.car.left <= 0)
    <3>1. <<RideOrder(Top)>> # <<>>
      OBVIOUS
    <3>2. machine.orders # <<>> => ~(machine.car.left <= 0)
      BY <1>1
    <3>. QED
      BY <3>1, <3>2, Zenon
  <2>. QED
    BY <2>1, <2>2, <2>3, <2>4, <2>5 DEF InTime
<1>6. CASE Turnabout("latency", "toDownload", "down")
  <2>1. /\ pc = "latency" /\ timer = 0 /\ timer' = Transition /\ pc' = "toDownload"
        /\ machine' = Aim(Select(LandCar(Aim(machine, 0)), "down"), 0)
        /\ InTime(machine)
    BY <1>6 DEF Turnabout, Commanded, Measuring, Timely
  <2>2. Upright(machine) /\ machine.pointer.left = 0 /\ Rising(machine, 0)
    BY <2>1 DEF InTime
  <2>3. machine.orders = <<>> /\ ~Riding(machine)
    BY <1>1, <2>2 DEF Rising
  <2>4. machine.gear.left = 0 /\ machine.drive = "up" /\ machine.pointer.aim = 0
    BY <2>2 DEF Upright
  <2>5. Reversing(machine', "down", Top, Transition) /\ machine'.pointer.left = 0
    BY <1>0, <2>1, <2>2, <2>3, <2>4, ReversalInTime
  <2>. QED
    BY <2>1, <2>5 DEF InTime
<1>7. CASE Measure("toDownload", "download", "down")
  <2>1. /\ pc = "toDownload" /\ timer = 0 /\ pc' = "download"
        /\ machine' = Aim(Select(machine, "down"), 0)
        /\ InTime(machine)
    BY <1>7 DEF Measure, Commanded, Timely
  <2>2. Reversing(machine, "down", Top, 0)
    BY <2>1 DEF InTime
  <2>3. Driven(machine, "down") /\ machine' = machine
    BY <1>0, <2>1, <2>2, Reversed DEF Driven
  <2>. QED
    BY <2>1, <2>3 DEF InTime
<1>8. CASE Turnabout("download", "toUpload", "up")
  <2>1. /\ pc = "download" /\ timer' = Transition /\ pc' = "toUpload" /\ InTime(machine)
    BY <1>8 DEF Turnabout, Timely
  <2>2. PICK level \in Level : machine' = Aim(Select(LandCar(Aim(machine, level)), "up"), 0)
    BY <1>8 DEF Turnabout, Commanded, Measuring
  <2>3. Driven(machine, "down")
    BY <2>1 DEF InTime
  <2>4. machine.orders = <<>> /\ ~Riding(machine) /\ machine.gear.left = 0 /\ machine.drive = "down"
    BY <2>3 DEF Driven
  <2>5. Reversing(machine', "up", Rest, Transition) /\ machine'.pointer.left <= Transition
    BY <1>0, <2>2, <2>4, ReversalInTime
  <2>. QED
    BY <2>1, <2>5 DEF InTime
<1>9. CASE Measure("toUpload", "upload", "up")
  <2>1. /\ pc = "toUpload" /\ timer = 0 /\ pc' = "upload"
        /\ machine' = Aim(Select(machine, "up"), 0)
        /\ InTime(machine)
    BY <1>9 DEF Measure, Commanded, Timely
  <2>2. Reversing(machine, "up", Rest, 0)
    BY <2>1 DEF InTime
  <2>3. Driven(machine, "up") /\ machine' = machine
    BY <1>0, <2>1, <2>2, Reversed DEF Driven
  <2>. QED
    BY <2>1, <2>3 DEF InTime
<1>10. ASSUME NEW level \in Level, Reading(level) PROVE InTime(machine)'
  <2>1. pc' = pc /\ pc \in Measuring /\ machine' = Aim(machine, level) /\ InTime(machine)
    BY <1>10 DEF Reading, Commanded, Timely
  <2>2. machine'.car = machine.car /\ machine'.orders = machine.orders
        /\ machine'.drive = machine.drive /\ machine'.gear = machine.gear
    BY <1>0, <2>1, AimKeeps
  <2>3. \A drive : Driven(machine, drive) => Driven(machine', drive)
    BY <2>2 DEF Driven, Riding
  <2>. QED
    BY <2>1, <2>3 DEF InTime, Measuring
<1>11. ASSUME pc' = "idle" PROVE InTime(machine)'
  BY <1>11 DEF InTime
<1>12. CASE UNCHANGED vars
  <2>1. InTime(machine)
    BY <1>12 DEF vars, Timely
  <2>. QED
    BY <1>12, <2>1 DEF vars, InTime
<1>. QED
  BY <1>2, <1>3, <1>4, <1>5, <1>6, <1>7, <1>8, <1>9, <1>10, <1>11, <1>12 DEF Next, Done, Interrupted

LEMMA AlwaysTimely == Spec => [](Basic /\ Timely)
<1>1. Init => Timely
  BY DEF Init, Timely, InTime
<1>. QED
  BY <1>1, AlwaysBasic, NextTimely, PTL DEF Spec

\* In a test that gets its frames the landing car is down before the gear moves,
\* on whatever floor and in whatever position the test found it.
THEOREM GearIsThrownAtRest == Spec => []ThrowsAtRest
<1>1. Basic /\ Timely => ThrowsAtRest
  <2> SUFFICES ASSUME Basic, InTime(machine), pc # "idle", Throwing(machine) PROVE ~Riding(machine)
    BY DEF Timely, ThrowsAtRest
  <2>1. machine.gear.left # 0 /\ [seat |-> "up", left |-> 0].left = 0
    BY DEF Throwing
  <2>2. ~Upright(machine)
    BY <2>1 DEF Upright
  <2>3. \A drive : ~Driven(machine, drive)
    BY <2>1 DEF Driven
  <2>4. pc \in {"toDownload", "toUpload"}
    BY <2>2, <2>3 DEF Basic, InTime, Underway, Measuring
  <2>. QED
    BY <2>1, <2>4 DEF InTime, Reversing
<1>. QED
  BY <1>1, AlwaysTimely, PTL

\* The pauses asked of the machine are long enough, whatever it was doing when
\* the test began: probes wait for the needle, transfers for gear and car.
THEOREM PausesAreLongEnough == Spec => ReadyToMeasure
<1> DEFINE Ready ==
      ~late =>
        /\ pc' = "latency" /\ pc # "latency" => PointerSettled(machine)
        /\ pc' \in Measuring /\ pc # pc' =>
              /\ AtRest(machine)
              /\ machine.gear.seat = IF pc' = "download" THEN "down" ELSE "up"
              /\ machine.car.at = IF pc' = "download" THEN Top ELSE Rest
<1>1. Basic /\ Timely /\ [Next]_vars => [Ready]_vars
  <2> SUFFICES ASSUME Basic, InTime(machine), [Next]_vars, ~late
               PROVE  Ready \/ UNCHANGED vars
    BY DEF Timely
  <2>0. Sound(machine) /\ "up" \in Drive /\ "down" \in Drive
    BY DEF Basic, Drive
  <2>1. CASE Probe
    <3>1. pc = "settling" /\ timer = 0 /\ pc' = "latency"
      BY <2>1 DEF Probe
    <3>2. Upright(machine) /\ machine.pointer.left <= 0
      BY <3>1 DEF InTime
    <3>3. PointerSettled(machine)
      BY <2>0, <3>2, Figures DEF PointerSettled, Upright
    <3>. QED
      BY <3>1, <3>3 DEF Measuring
  <2>2. ASSUME NEW from, NEW phase, NEW drive \in Drive, NEW floor, Measure(from, phase, drive),
               phase \in Measuring, machine.pointer.left <= timer, Reversing(machine, drive, floor, timer)
        PROVE  AtRest(machine) /\ machine.gear.seat = drive /\ machine.car.at = floor
    <3>1. timer = 0 /\ machine.pointer.left \in Nat /\ machine.pointer.aim = 0
      BY <2>0, <2>2, Figures DEF Measure, Reversing
    <3>2. /\ machine.gear = [seat |-> drive, left |-> 0] /\ machine.orders = <<>>
          /\ ~Riding(machine) /\ machine.car.at = floor
      BY <2>0, <2>2, <3>1, Reversed
    <3>3. PointerSettled(machine)
      <4>1. machine.pointer.left = 0
        BY <2>2, <3>1
      <4>. QED
        BY <2>0, <3>1, <4>1, Figures DEF PointerSettled
    <3>. QED
      BY <3>2, <3>3 DEF AtRest, Throwing, Free
  <2>3. CASE Measure("toDownload", "download", "down")
    <3>1. pc = "toDownload" /\ pc' = "download" /\ "download" \in Measuring /\ timer = 0
      BY <2>3 DEF Measure, Measuring
    <3>2. machine.pointer.left <= timer /\ Reversing(machine, "down", Top, timer)
      BY <3>1 DEF InTime
    <3>3. AtRest(machine) /\ machine.gear.seat = "down" /\ machine.car.at = Top
      BY <2>0, <2>2, <2>3, <3>1, <3>2
    <3>. QED
      BY <3>1, <3>3
  <2>4. CASE Measure("toUpload", "upload", "up")
    <3>1. pc = "toUpload" /\ pc' = "upload" /\ "upload" \in Measuring
      BY <2>4 DEF Measure, Measuring
    <3>2. machine.pointer.left <= timer /\ Reversing(machine, "up", Rest, timer)
      BY <3>1 DEF InTime
    <3>3. AtRest(machine) /\ machine.gear.seat = "up" /\ machine.car.at = Rest
      BY <2>0, <2>2, <2>4, <3>1, <3>2
    <3>. QED
      BY <3>1, <3>3
  <2>5. ASSUME pc' = pc PROVE Ready
    BY <2>5
  <2>6. ASSUME pc' \notin {"latency"} \cup Measuring PROVE Ready
    BY <2>6
  <2>7. /\ \A frame \in BOOLEAN : Beat(frame) => pc' = pc
        /\ \A level \in Level : Reading(level) => pc' = pc
        /\ \A level \in Level : Done(level) => pc' = "idle"
        /\ Start => pc' = "opening"
        /\ Opened => pc' = "settling"
        /\ Interrupted => pc' = "idle"
        /\ Turnabout("latency", "toDownload", "down") => pc' = "toDownload"
        /\ Turnabout("download", "toUpload", "up") => pc' = "toUpload"
    BY DEF Beat, Reading, Done, Start, Opened, Interrupted, Turnabout
  <2>8. {"idle", "opening", "settling", "toDownload", "toUpload"} \cap ({"latency"} \cup Measuring) = {}
    BY DEF Measuring
  <2>. QED
    BY <2>1, <2>3, <2>4, <2>5, <2>6, <2>7, <2>8 DEF Next
<1>. QED
  BY <1>1, AlwaysTimely, PTL DEF ReadyToMeasure, Spec
=============================================================================
