---------------------------- MODULE RecordsProofs ----------------------------
(***************************************************************************)
(* Proofs about Records for any addresses, requests, delays within the     *)
(* stated ones, sizes of the cache, settings and number of restarts.       *)
(***************************************************************************)
EXTENDS Records, FiniteSetTheorems, TLAPS

Lookup1 == [pc : PC, addr : Addr \cup {None}, since : Int, info : Info]

(***************************************************************************)
(* A request `l` that closes a run started at `c`, or none: how old what   *)
(* it knows may be, and how long ago the run was started.                  *)
(***************************************************************************)
Idle(l, c) == l.pc = "idle" => c = None

Fetching(l, c, t) ==
    l.pc = "fetching" =>
        /\ l.addr \in Public /\ l.info = None
        /\ t - l.since <= Timeout
        /\ c # None => l.since - c <= MaxRun

Putting(l, c, t) ==
    l.pc = "putting" =>
        /\ l.addr \in Public /\ l.info = [of |-> l.addr, at |-> l.since]
        /\ t - l.since <= Delay
        /\ c # None => l.since - c <= MaxRun + Timeout

Answered(l, c, t) ==
    l.pc = "answered" =>
        /\ l.addr \in Addr
        /\ l.info # None => l.info.of = l.addr /\ l.since - l.info.at <= CacheTTL + Delay
        /\ t - l.since <= Delay
        /\ c # None => l.since - c <= MaxRun + Timeout + Delay

LookupSound(l, c, t) ==
    /\ l \in Lookup1 /\ c \in Nat \cup {None} /\ l.since <= t
    /\ Idle(l, c) /\ Fetching(l, c, t) /\ Putting(l, c, t) /\ Answered(l, c, t)

Lookups ==
    /\ now \in Nat
    /\ lookup \in [Request -> Lookup1]
    /\ closing \in [Request -> Nat \cup {None}]
    /\ \A r \in Request : LookupSound(lookup[r], closing[r], now)

EntrySound(a, entry) ==
    /\ entry.info \in [of : Public, at : Int] /\ entry.expires \in Int
    /\ entry.info.of = a
    /\ entry.expires - entry.info.at <= CacheTTL + Delay

Cached ==
    /\ DOMAIN cache \subseteq Public
    /\ IsFiniteSet(DOMAIN cache) /\ CacheBounded
    /\ \A a \in DOMAIN cache : EntrySound(a, cache[a])

RowSound(row) ==
    /\ row.created \in Nat
    /\ row.real \in Addr
    /\ row.clientIP # None =>
          row.real # Invalid /\ row.clientIP \in {row.real, Network(row.real)}

Kept ==
    /\ due \in Int /\ due - Period <= now
    /\ \A row \in rows : RowSound(row)
    /\ now < due /\ pruned =>
          \A row \in rows : due - Period - row.created <= Retention
    /\ \A row \in answered : row.created \in Nat

-----------------------------------------------------------------------------
LEMMA OneLookup ==
  ASSUME Lookups, NEW r \in Request, NEW l, NEW c, LookupSound(l, c, now),
         lookup' = [lookup EXCEPT ![r] = l], closing' = [closing EXCEPT ![r] = c],
         UNCHANGED now
  PROVE  Lookups'
<1>1. l \in Lookup1 /\ c \in Nat \cup {None}
  BY DEF LookupSound
<1>2. \A q \in Request : lookup'[q] = (IF q = r THEN l ELSE lookup[q])
                         /\ closing'[q] = (IF q = r THEN c ELSE closing[q])
  BY DEF Lookups
<1>3. \A q \in Request : LookupSound(lookup'[q], closing'[q], now)
  BY <1>2 DEF Lookups
<1>. QED
  BY <1>1, <1>3 DEF Lookups

LEMMA DoSound ==
  ASSUME Lookups, Cached, NEW r \in Request, NEW a \in Addr, Do(r, a),
         NEW c \in Nat \cup {None}, c # None => now - c <= MaxRun
  PROVE  \E l : LookupSound(l, c, now) /\ lookup' = [lookup EXCEPT ![r] = l]
<1> DEFINE l == [pc    |-> IF a \in Public /\ Enabled /\ ~Known(a) THEN "fetching" ELSE "answered",
                 addr  |-> a,
                 since |-> now,
                 info  |-> IF a \in Public /\ Enabled /\ Known(a) THEN cache[a].info ELSE None]
<1>1. now \in Nat /\ Timeout \in Nat /\ Delay \in Nat /\ CacheTTL \in Nat /\ MaxRun \in Nat
  BY IpInfoAssumption, RecordsAssumption DEF Lookups
<1>2. lookup' = [lookup EXCEPT ![r] = l]
  BY DEF Do
<1>3. Known(a) => /\ cache[a].info \in [of : Public, at : Int]
                  /\ cache[a].info.of = a
                  /\ now - cache[a].info.at <= CacheTTL + Delay
  BY <1>1 DEF Known, Cached, EntrySound
<1>4. l \in Lookup1
  BY <1>1, <1>3 DEF Lookup1, PC, Info
<1>5. Idle(l, c) /\ Fetching(l, c, now) /\ Putting(l, c, now)
  BY <1>1 DEF Idle, Fetching, Putting
<1>6. Answered(l, c, now)
  BY <1>1, <1>3 DEF Answered
<1>7. l.since <= now
  BY <1>1
<1> HIDE DEF l
<1>. QED
  BY <1>2, <1>4, <1>5, <1>6, <1>7 DEF LookupSound

LEMMA LookupsStep ==
  ASSUME Lookups, LookupStep, UNCHANGED <<now, closing>>
  PROVE  Lookups'
<1>1. now \in Nat /\ Timeout \in Nat /\ Delay \in Nat /\ CacheTTL \in Nat /\ MaxRun \in Nat
  BY IpInfoAssumption, RecordsAssumption DEF Lookups
<1>2. ASSUME NEW r \in Request, NEW l, LookupSound(l, closing[r], now),
             lookup' = [lookup EXCEPT ![r] = l]
      PROVE  Lookups'
  <2>1. closing' = [closing EXCEPT ![r] = closing[r]]
    BY DEF Lookups
  <2>. QED
    BY <1>2, <2>1, OneLookup
<1>3. ASSUME NEW r \in Request, Fetched(r) PROVE Lookups'
  <2> DEFINE o == lookup[r]
             l == [o EXCEPT !.pc = "putting", !.since = now, !.info = [of |-> o.addr, at |-> now]]
  <2>1. o \in Lookup1 /\ LookupSound(o, closing[r], now) /\ o.pc = "fetching"
    BY <1>3 DEF Lookups, Fetched
  <2>2. lookup' = [lookup EXCEPT ![r] = l]
    BY <1>3 DEF Fetched, Lookups
  <2> HIDE DEF o
  <2>3. o.addr \in Public /\ (closing[r] # None => o.since - closing[r] <= MaxRun)
        /\ now - o.since <= Timeout /\ o.since \in Int /\ closing[r] \in Nat \cup {None}
    BY <2>1 DEF LookupSound, Fetching, Lookup1
  <2>. /\ "putting" \in PC /\ now \in Int
       /\ [of |-> o.addr, at |-> now] \in Info
    BY <1>1, <2>3 DEF PC, Info
  <2>4. l \in Lookup1
    BY <2>1 DEF Lookup1
  <2>5. /\ l.pc = "putting" /\ l.since = now /\ l.addr = o.addr
        /\ l.info = [of |-> o.addr, at |-> now]
    BY <2>1 DEF Lookup1
  <2> HIDE DEF l
  <2>6. LookupSound(l, closing[r], now)
    BY <1>1, <2>3, <2>4, <2>5 DEF LookupSound, Idle, Fetching, Putting, Answered
  <2>. QED
    BY <1>2, <2>2, <2>6
<1>4. ASSUME NEW r \in Request, FetchFails(r) PROVE Lookups'
  <2> DEFINE o == lookup[r]
             l == [o EXCEPT !.pc = "answered", !.since = now]
  <2>1. o \in Lookup1 /\ LookupSound(o, closing[r], now) /\ o.pc = "fetching"
    BY <1>4 DEF Lookups, FetchFails
  <2>2. lookup' = [lookup EXCEPT ![r] = l]
    BY <1>4 DEF FetchFails, Lookups
  <2> HIDE DEF o
  <2>3. o.addr \in Public /\ (closing[r] # None => o.since - closing[r] <= MaxRun)
        /\ o.info = None
        /\ now - o.since <= Timeout /\ o.since \in Int /\ closing[r] \in Nat \cup {None}
    BY <2>1 DEF LookupSound, Fetching, Lookup1
  <2>. "answered" \in PC /\ now \in Int
    BY <1>1 DEF PC
  <2>4. l \in Lookup1
    BY <2>1 DEF Lookup1
  <2>5. l.pc = "answered" /\ l.since = now /\ l.addr = o.addr /\ l.info = None
    BY <2>1, <2>3 DEF Lookup1
  <2> HIDE DEF l
  <2>6. LookupSound(l, closing[r], now)
    BY <1>1, <2>3, <2>4, <2>5 DEF LookupSound, Idle, Fetching, Putting, Answered, Addr
  <2>. QED
    BY <1>2, <2>2, <2>6
<1>5. ASSUME NEW r \in Request, Put(r) PROVE Lookups'
  <2> DEFINE o == lookup[r]
             l == [o EXCEPT !.pc = "answered", !.since = now]
  <2>1. o \in Lookup1 /\ LookupSound(o, closing[r], now) /\ o.pc = "putting"
    BY <1>5 DEF Lookups, Put
  <2>2. lookup' = [lookup EXCEPT ![r] = l]
    BY <1>5 DEF Put, Lookups
  <2> HIDE DEF o
  <2>3. /\ o.addr \in Public /\ (closing[r] # None => o.since - closing[r] <= MaxRun + Timeout)
        /\ o.info = [of |-> o.addr, at |-> o.since]
        /\ now - o.since <= Delay /\ o.since \in Int /\ closing[r] \in Nat \cup {None}
    BY <2>1 DEF LookupSound, Putting, Lookup1
  <2>. "answered" \in PC /\ now \in Int
    BY <1>1 DEF PC
  <2>4. l \in Lookup1
    BY <2>1 DEF Lookup1
  <2>5. l.pc = "answered" /\ l.since = now /\ l.addr = o.addr /\ l.info = o.info
    BY <2>1 DEF Lookup1
  <2>6. o.info.of = o.addr /\ o.info.at = o.since
    BY <2>3
  <2> HIDE DEF l
  <2>7. LookupSound(l, closing[r], now)
    BY <1>1, <2>3, <2>4, <2>5, <2>6 DEF LookupSound, Idle, Fetching, Putting, Answered, Addr
  <2>. QED
    BY <1>2, <2>2, <2>7
<1>. QED
  BY <1>3, <1>4, <1>5 DEF LookupStep

(***************************************************************************)
(* The size of what is dropped, and of what is left with one entry more.   *)
(***************************************************************************)
LEMMA RoomForOne ==
  ASSUME Cached, NEW gone \in Evicted, NEW a
  PROVE  /\ IsFiniteSet((DOMAIN cache \ gone) \cup {a})
         /\ Cardinality((DOMAIN cache \ gone) \cup {a}) <= MaxEntries
<1> DEFINE D == DOMAIN cache
           n == IF MaxEntries < 8 THEN 1 ELSE MaxEntries \div 4
<1>1. MaxEntries \in Nat \ {0} /\ IsFiniteSet(D) /\ Cardinality(D) <= MaxEntries
  BY IpInfoAssumption DEF Cached, CacheBounded
<1>2. n \in Nat /\ n >= 1
  BY <1>1
<1>3. /\ gone \subseteq D
      /\ Cardinality(D) >= MaxEntries => Cardinality(gone) = n
      /\ Cardinality(D) < MaxEntries \/ Cardinality(D) >= MaxEntries
  <2>1. Cardinality(D) \in Nat
    BY <1>1, FS_CardinalityType
  <2>. QED
    BY <1>1, <2>1 DEF Evicted
<1> HIDE DEF D, n
<1>4. /\ IsFiniteSet(gone) /\ Cardinality(gone) \in Nat
      /\ IsFiniteSet(D \ gone) /\ Cardinality(D \ gone) \in Nat
      /\ Cardinality(D \ gone) = Cardinality(D) - Cardinality(gone)
      /\ Cardinality(D) \in Nat
  <2>1. IsFiniteSet(gone) /\ D \cap gone = gone
    BY <1>1, <1>3, FS_Subset
  <2>2. IsFiniteSet(D \ gone) /\ Cardinality(D \ gone) = Cardinality(D) - Cardinality(D \cap gone)
    BY <1>1, FS_Difference
  <2>. QED
    BY <1>1, <2>1, <2>2, FS_CardinalityType
<1>5. Cardinality(D \ gone) + 1 <= MaxEntries
  BY <1>1, <1>2, <1>3, <1>4
<1>6. /\ IsFiniteSet((D \ gone) \cup {a})
      /\ \/ Cardinality((D \ gone) \cup {a}) = Cardinality(D \ gone)
         \/ Cardinality((D \ gone) \cup {a}) = Cardinality(D \ gone) + 1
  BY <1>4, FS_AddElement
<1>7. Cardinality((D \ gone) \cup {a}) <= MaxEntries
  BY <1>1, <1>4, <1>5, <1>6
<1>. QED
  BY <1>6, <1>7 DEF D

LEMMA PutCached ==
  ASSUME Lookups, Cached, NEW r \in Request, Put(r), UNCHANGED now
  PROVE  Cached'
<1> DEFINE a == lookup[r].addr
           entry == [info |-> lookup[r].info, expires |-> now + CacheTTL]
<1>1. PICK gone \in Evicted :
        cache' = [x \in (DOMAIN cache \ gone) \cup {a} |-> IF x = a THEN entry ELSE cache[x]]
  BY DEF Put
<1>2. /\ a \in Public /\ lookup[r].info = [of |-> a, at |-> lookup[r].since]
      /\ now - lookup[r].since <= Delay
      /\ lookup[r].since \in Int /\ now \in Nat
  BY DEF Put, Lookups, LookupSound, Putting, Lookup1
<1>3. CacheTTL \in Nat /\ Delay \in Nat
  BY IpInfoAssumption
<1>4. EntrySound(a, entry)
  BY <1>2, <1>3 DEF EntrySound
<1> HIDE DEF a, entry
<1>5. DOMAIN cache' = (DOMAIN cache \ gone) \cup {a}
  BY <1>1
<1>6. ASSUME NEW x \in DOMAIN cache' PROVE EntrySound(x, cache'[x])
  <2>1. CASE x = a
    BY <1>1, <1>4, <1>5, <2>1
  <2>2. CASE x # a
    <3>1. cache'[x] = cache[x] /\ x \in DOMAIN cache
      BY <1>1, <1>5, <2>2
    <3>. QED
      BY <3>1 DEF Cached
  <2>. QED
    BY <2>1, <2>2
<1>7. DOMAIN cache' \subseteq Public
  BY <1>2, <1>5 DEF Cached
<1>8. IsFiniteSet(DOMAIN cache') /\ CacheBounded'
  BY <1>5, RoomForOne DEF CacheBounded
<1>9. \A x \in DOMAIN cache' : EntrySound(x, cache[x])'
  BY <1>6 DEF EntrySound
<1>. QED
  BY <1>7, <1>8, <1>9 DEF Cached

(***************************************************************************)
(* The inductive invariant: `Lookups` bounds how old what a request knows  *)
(* is, which is what makes a saved row younger than the retention and a    *)
(* stored entry younger than its expiry says.                              *)
(***************************************************************************)
Inv == Lookups /\ Cached /\ Kept /\ LinksResolve

LEMMA Sizes ==
  /\ CacheTTL \in Nat /\ Timeout \in Nat /\ Delay \in Nat /\ MaxRun \in Nat
  /\ Retention \in Nat /\ Period \in Nat /\ Hosts \in Nat \ {0}
  /\ MaxRun + Timeout + 2 * Delay <= Retention
  /\ Addr \subseteq Nat /\ Invalid \in Addr /\ Down \subseteq Nat
BY IpInfoAssumption, RecordsAssumption DEF Addr

LEMMA UnaskedSound ==
  ASSUME now \in Nat
  PROVE  LookupSound(Unasked, None, now)
BY DEF LookupSound, Unasked, Lookup1, PC, Info, Idle, Fetching, Putting, Answered

LEMMA InitInv == Init => Inv
<1> SUFFICES ASSUME Init PROVE Inv
  OBVIOUS
<1>1. now = 0 /\ now \in Nat
  BY DEF Init
<1>2. LookupSound(Unasked, None, now)
  BY <1>1, UnaskedSound
<1>3. Lookups
  BY <1>1, <1>2 DEF Lookups, Init, InitInfo, LookupSound
<1>4. DOMAIN cache = {}
  BY DEF Init, InitInfo
<1>5. Cached
  BY <1>4, FS_EmptySet, IpInfoAssumption DEF Cached, CacheBounded
<1>6. Kept /\ LinksResolve
  BY <1>1, Sizes DEF Init, Kept, LinksResolve
<1>. QED
  BY <1>3, <1>5, <1>6 DEF Inv

(***************************************************************************)
(* A saved row is younger than the retention, and sound.                   *)
(***************************************************************************)
LEMMA SaveKept ==
  ASSUME Inv, NEW r \in Request, Save(r)
  PROVE  Kept' /\ LinksResolve'
<1>1. PICK id \in Id :
        /\ rows' = rows \cup {Row(r, id)}
        /\ answered' = answered \cup {Row(r, id)}
  BY DEF Save
<1> DEFINE row == Row(r, id)
<1>2. /\ now \in Nat /\ closing[r] \in Nat /\ lookup[r].addr \in Addr
      /\ lookup[r].since \in Int
      /\ now - lookup[r].since <= Delay
      /\ lookup[r].since - closing[r] <= MaxRun + Timeout + Delay
  BY DEF Inv, Lookups, LookupSound, Answered, Save, Lookup1
<1>3. now - closing[r] <= Retention
  BY <1>2, Sizes
<1>4. row.created = closing[r] /\ row.real = lookup[r].addr
      /\ row.clientIP = (IF setting.recordIP THEN Stored(lookup[r].addr) ELSE None)
  BY DEF Row
<1>5. RowSound(row)
  BY <1>2, <1>4 DEF RowSound, Stored
<1> HIDE DEF row
<1>6. Kept'
  <2>1. due - Period <= now /\ due \in Int /\ Period \in Nat
    BY Sizes DEF Inv, Kept
  <2>2. due - Period - row.created <= Retention
    BY <1>2, <1>3, <1>4, <2>1, Sizes
  <2>3. /\ \A x \in rows' : RowSound(x)
        /\ \A x \in answered' : x.created \in Nat
    BY <1>1, <1>2, <1>4, <1>5 DEF Inv, Kept, row
  <2>4. now < due /\ pruned => \A x \in rows' : due - Period - x.created <= Retention
    BY <1>1, <2>2 DEF Inv, Kept, row
  <2>5. UNCHANGED <<now, due, pruned>>
    BY DEF Save
  <2>. QED
    BY <2>1, <2>3, <2>4, <2>5 DEF Kept, RowSound, Network
<1>7. LinksResolve'
  BY <1>1 DEF Inv, LinksResolve, Save
<1>. QED
  BY <1>6, <1>7

LEMMA PruneKept ==
  ASSUME Inv, NEW ok \in BOOLEAN, Prune(ok)
  PROVE  Kept' /\ LinksResolve'
<1>1. /\ now \in Nat /\ Period \in Nat /\ Retention \in Nat
      /\ \A row \in rows : RowSound(row) /\ row.created \in Nat
      /\ \A row \in answered : row.created \in Nat
  BY Sizes DEF Inv, Lookups, Kept, RowSound
<1>2. /\ rows' = (IF ok THEN {row \in rows : row.created >= now - Retention} ELSE rows)
      /\ pruned' = ok /\ due' = now + Period /\ UNCHANGED <<now, answered>>
  BY DEF Prune
<1>3. ok => \A row \in rows' : due' - Period - row.created <= Retention
  BY <1>1, <1>2
<1>4. \A row \in rows' : row \in rows
  BY <1>2
<1>5. Kept'
  BY <1>1, <1>2, <1>3, <1>4 DEF Kept, RowSound, Network
<1>6. ASSUME NEW row \in answered
      PROVE  row \in rows' \/ row.created < now - Retention
  <2>1. row \in rows \/ row.created < now - Retention
    BY DEF Inv, LinksResolve
  <2>. QED
    BY <1>1, <1>2, <2>1
<1>7. LinksResolve'
  BY <1>2, <1>6 DEF LinksResolve
<1>. QED
  BY <1>5, <1>7

(***************************************************************************)
(* Time passes: nothing a request knows passes its age, and no row becomes *)
(* older than the coming prune expects.                                    *)
(***************************************************************************)
LEMMA TickInv ==
  ASSUME Inv, Tick
  PROVE  Inv'
<1>1. /\ now \in Nat /\ now' = now + 1 /\ now' \in Nat /\ now < due
      /\ due \in Int /\ due - Period <= now
  BY DEF Inv, Lookups, Kept, Tick
<1>2. UNCHANGED <<info, setting, rows, answered, closing, due, pruned, restarts, cache, lookup>>
  BY DEF Tick, info
<1>3. ASSUME NEW q \in Request PROVE LookupSound(lookup[q], closing[q], now')
  <2>1. LookupSound(lookup[q], closing[q], now) /\ lookup[q].since \in Int
    BY DEF Inv, Lookups, Lookup1
  <2>2. /\ lookup[q].pc = "fetching" => now - lookup[q].since < Timeout
        /\ lookup[q].pc = "putting" => now - lookup[q].since < Delay
        /\ lookup[q].pc = "answered" => now - lookup[q].since < Delay
    BY DEF Tick, InTime
  <2>3. Fetching(lookup[q], closing[q], now')
    BY <1>1, <2>1, <2>2, Sizes DEF LookupSound, Fetching
  <2>4. Putting(lookup[q], closing[q], now')
    BY <1>1, <2>1, <2>2, Sizes DEF LookupSound, Putting
  <2>5. Answered(lookup[q], closing[q], now')
    BY <1>1, <2>1, <2>2, Sizes DEF LookupSound, Answered
  <2>. QED
    BY <1>1, <2>1, <2>3, <2>4, <2>5 DEF LookupSound
<1>4. Lookups'
  BY <1>1, <1>2, <1>3 DEF Inv, Lookups
<1>5. Cached'
  BY <1>2 DEF Inv, Cached, CacheBounded, EntrySound
<1>6. Kept'
  BY <1>1, <1>2, Sizes DEF Inv, Kept, RowSound, Network
<1>7. ASSUME NEW row \in answered
      PROVE  row \in rows \/ row.created < now' - Retention
  <2>1. row \in rows \/ row.created < now - Retention
    BY DEF Inv, LinksResolve
  <2>2. row.created \in Nat
    BY DEF Inv, Kept
  <2>. QED
    BY <1>1, <2>1, <2>2, Sizes
<1>8. LinksResolve'
  BY <1>2, <1>7 DEF LinksResolve
<1>. QED
  BY <1>4, <1>5, <1>6, <1>8 DEF Inv

LEMMA RestartInv ==
  ASSUME Inv, NEW down \in Down, Restart(down)
  PROVE  Inv'
<1>1. /\ now \in Nat /\ down \in Nat /\ now' = now + down /\ now' \in Nat /\ now <= now'
      /\ due' = now' /\ UNCHANGED <<rows, answered>>
  BY Sizes DEF Inv, Lookups, Restart
<1>2. LookupSound(Unasked, None, now')
  BY <1>1 DEF LookupSound, Unasked, Lookup1, PC, Info, Idle, Fetching, Putting, Answered
<1>3. /\ lookup' = [r \in Request |-> Unasked]
      /\ closing' = [r \in Request |-> None]
  BY DEF Restart
<1>4. Lookups'
  BY <1>1, <1>2, <1>3 DEF Lookups, LookupSound
<1>5. DOMAIN cache' = {}
  BY DEF Restart
<1>6. Cached'
  BY <1>5, FS_EmptySet, IpInfoAssumption DEF Cached, CacheBounded
<1>7. Kept'
  BY <1>1, Sizes DEF Inv, Kept, RowSound, Network
<1>8. ASSUME NEW row \in answered
      PROVE  row \in rows \/ row.created < now' - Retention
  <2>1. row \in rows \/ row.created < now - Retention
    BY DEF Inv, LinksResolve
  <2>2. row.created \in Nat
    BY DEF Inv, Kept
  <2>. QED
    BY <1>1, <2>1, <2>2, Sizes
<1>9. LinksResolve'
  BY <1>1, <1>8 DEF LinksResolve
<1>. QED
  BY <1>4, <1>6, <1>7, <1>9 DEF Inv

LEMMA StepInv == Inv /\ [Next]_vars => Inv'
<1> SUFFICES ASSUME Inv, [Next]_vars PROVE Inv'
  OBVIOUS
<1> USE DEF Inv
<1>1. ASSUME UNCHANGED rows, UNCHANGED answered, UNCHANGED <<now, due, pruned>>
      PROVE  Kept' /\ LinksResolve'
  BY <1>1 DEF Kept, LinksResolve, RowSound, Network
<1>2. ASSUME UNCHANGED cache PROVE Cached'
  BY <1>2 DEF Cached, CacheBounded, EntrySound
<1>3. ASSUME NEW r \in Request, NEW a \in Addr, AskIP(r, a) PROVE Inv'
  <2>1. /\ Do(r, a) /\ UNCHANGED cache
        /\ UNCHANGED <<now, setting, rows, answered, closing, due, pruned, restarts>>
    BY <1>3 DEF AskIP, Do
  <2>2. closing[r] = None /\ closing' = [closing EXCEPT ![r] = None]
    BY <2>1 DEF Do, Lookups, LookupSound, Idle
  <2>3. Lookups'
    <3>1. CASE None \in Nat
      <4>1. PICK l : LookupSound(l, None, now) /\ lookup' = [lookup EXCEPT ![r] = l]
        BY <2>1, <2>2, DoSound DEF Lookups
      <4>. QED
        BY <2>1, <2>2, <4>1, OneLookup
    <3>2. CASE None \notin Nat
      <4>1. PICK l : LookupSound(l, None, now) /\ lookup' = [lookup EXCEPT ![r] = l]
        BY <2>1, DoSound
      <4>. QED
        BY <2>1, <2>2, <4>1, OneLookup
    <3>. QED
      BY <3>1, <3>2
  <2>. QED
    BY <1>1, <1>2, <2>1, <2>3
<1>4. ASSUME NEW r \in Request, NEW a \in Addr, NEW started \in 0..now, CloseRun(r, a, started)
      PROVE  Inv'
  <2>1. /\ Do(r, a) /\ UNCHANGED cache /\ now - started <= MaxRun /\ started \in Nat
        /\ closing' = [closing EXCEPT ![r] = started]
        /\ UNCHANGED <<now, setting, rows, answered, due, pruned, restarts>>
    BY <1>4 DEF CloseRun, Do, Lookups
  <2>2. PICK l : LookupSound(l, started, now) /\ lookup' = [lookup EXCEPT ![r] = l]
    BY <2>1, DoSound
  <2>3. Lookups'
    BY <2>1, <2>2, OneLookup
  <2>. QED
    BY <1>1, <1>2, <2>1, <2>3
<1>5. ASSUME NEW r \in Request, UNCHANGED now,
             lookup' = [lookup EXCEPT ![r] = Unasked],
             closing' = [closing EXCEPT ![r] = None]
      PROVE  Lookups'
  BY <1>5, UnaskedSound, OneLookup DEF Lookups
<1>6. ASSUME NEW r \in Request, Answer(r) PROVE Inv'
  <2>1. closing' = [closing EXCEPT ![r] = None]
    BY <1>6 DEF Answer, Lookups
  <2>. QED
    BY <1>1, <1>2, <1>5, <1>6, <2>1 DEF Answer
<1>7. ASSUME NEW r \in Request, Save(r) PROVE Inv'
  BY <1>2, <1>5, <1>7, SaveKept DEF Save
<1>8. ASSUME NEW r \in Request, SaveFails(r) PROVE Inv'
  BY <1>1, <1>2, <1>5, <1>8 DEF SaveFails
<1>9. CASE Lookup
  <2>1. LookupStep /\ UNCHANGED <<now, setting, rows, answered, closing, due, pruned, restarts>>
    BY <1>9 DEF Lookup
  <2>2. Lookups'
    BY <2>1, LookupsStep
  <2>3. Cached'
    <3>1. ASSUME NEW r \in Request, Fetched(r) \/ FetchFails(r) PROVE Cached'
      BY <1>2, <3>1 DEF Fetched, FetchFails
    <3>2. ASSUME NEW r \in Request, Put(r) PROVE Cached'
      BY <2>1, <3>2, PutCached
    <3>. QED
      BY <2>1, <3>1, <3>2 DEF LookupStep
  <2>. QED
    BY <1>1, <2>1, <2>2, <2>3
<1>10. ASSUME NEW ok \in BOOLEAN, Prune(ok) PROVE Inv'
  <2>1. UNCHANGED <<now, cache, lookup, closing>>
    BY <1>10 DEF Prune, info
  <2>2. Lookups'
    BY <2>1 DEF Lookups
  <2>. QED
    BY <1>2, <1>10, <2>1, <2>2, PruneKept
<1>11. CASE Tick
  BY <1>11, TickInv
<1>12. ASSUME NEW down \in Down, Restart(down) PROVE Inv'
  BY <1>12, RestartInv
<1>13. CASE UNCHANGED vars
  <2>1. UNCHANGED <<now, cache, lookup, rows, answered, closing, due, pruned>>
    BY <1>13 DEF vars, info
  <2>2. Lookups'
    BY <2>1 DEF Lookups
  <2>. QED
    BY <1>1, <1>2, <2>1, <2>2
<1>. QED
  BY <1>3, <1>4, <1>6, <1>7, <1>8, <1>9, <1>10, <1>11, <1>12, <1>13 DEF Next

LEMMA AlwaysInv == Spec => []Inv
BY InitInv, StepInv, PTL DEF Spec

-----------------------------------------------------------------------------
(***************************************************************************)
(* The cache of network information never passes its size, for any size,   *)
(* of which a quarter is dropped when it is eight or more.                 *)
(***************************************************************************)
THEOREM CacheStaysBounded == Spec => []CacheBounded
<1>1. Inv => CacheBounded
  BY DEF Inv, Cached
<1>. QED
  BY <1>1, AlwaysInv, PTL

(***************************************************************************)
(* What the server says of an address is about that address, and no older  *)
(* than the cache allows, however the lookups of it interleave.            *)
(***************************************************************************)
THEOREM AnswersStayFresh == Spec => []AnswersFresh
<1>1. ASSUME Inv PROVE AnswersFresh
  <2>1. ASSUME NEW a \in DOMAIN cache PROVE cache[a].info # None
    BY <1>1, IpInfoAssumption DEF Inv, Cached, EntrySound
  <2>2. ASSUME NEW r \in Request, lookup[r].pc = "answered", lookup[r].info # None
        PROVE  /\ lookup[r].info.of = lookup[r].addr
               /\ lookup[r].since - lookup[r].info.at <= CacheTTL + Delay
    BY <1>1, <2>2 DEF Inv, Lookups, LookupSound, Answered
  <2>. QED
    BY <2>1, <2>2 DEF AnswersFresh
<1>. QED
  BY <1>1, AlwaysInv, PTL

(***************************************************************************)
(* A link that was handed out resolves until its result is older than the  *)
(* retention, across prunes and restarts.                                  *)
(***************************************************************************)
THEOREM LinksKeepResolving == Spec => []LinksResolve
<1>1. Inv => LinksResolve
  BY DEF Inv
<1>. QED
  BY <1>1, AlwaysInv, PTL

(***************************************************************************)
(* After a prune that succeeded, and until the next, no row is older than  *)
(* the retention and a period.                                             *)
(***************************************************************************)
THEOREM RetentionIsKept == Spec => []RetentionKept
<1>1. ASSUME Inv, now < due, pruned, NEW row \in rows
      PROVE  now - row.created <= Retention + Period
  <2>1. due - Period - row.created <= Retention /\ row.created \in Nat
    BY <1>1 DEF Inv, Kept, RowSound
  <2>2. now \in Nat /\ due \in Int
    BY <1>1 DEF Inv, Lookups, Kept
  <2>. QED
    BY <1>1, <2>1, <2>2, Sizes
<1>2. Inv => RetentionKept
  BY <1>1 DEF RetentionKept
<1>. QED
  BY <1>2, AlwaysInv, PTL

(***************************************************************************)
(* The network of a network is itself.                                     *)
(***************************************************************************)
LEMMA NetworkOfNetwork ==
  ASSUME NEW a \in Nat
  PROVE  Network(Network(a)) = Network(a)
<1>1. Hosts \in Nat \ {0}
  BY Sizes
<1>. QED
  BY <1>1 DEF Network

(***************************************************************************)
(* No row of another network is shown to a caller as theirs, whatever the  *)
(* settings were when it was saved.                                        *)
(***************************************************************************)
THEOREM ShownAsMine == Spec => []MineIsMine
<1>1. ASSUME Inv, setting.recordIP, NEW a \in Addr, NEW row \in Mine(a)
      PROVE  a # Invalid /\ Network(row.real) = Network(a)
  <2>1. row \in rows /\ Stored(a) # None /\ row.clientIP = Stored(a)
    BY <1>1 DEF Mine
  <2>2. a # Invalid /\ Stored(a) \in {a, Network(a)} /\ a \in Nat
    BY <2>1, Sizes DEF Stored
  <2>3. row.clientIP \in {row.real, Network(row.real)} /\ row.real \in Nat
    BY <1>1, <2>1, Sizes DEF Inv, Kept, RowSound
  <2>. QED
    BY <2>1, <2>2, <2>3, NetworkOfNetwork
<1>2. Inv => MineIsMine
  BY <1>1 DEF MineIsMine, List, Page
<1>. QED
  BY <1>2, AlwaysInv, PTL
=============================================================================
