------------------------------- MODULE IpInfo -------------------------------
(***************************************************************************)
(* The network information lookup of internal/ipinfo/ipinfo.go: a bounded  *)
(* cache with expiry, filled by requests that ask an outside provider      *)
(* concurrently and hold the lock only to look and to store.               *)
(*                                                                         *)
(* What the provider said is abstracted to whom it was about and when it   *)
(* was said, which is what makes an answer right or stale.                 *)
(***************************************************************************)
EXTENDS Integers, FiniteSets

CONSTANTS Public,     \* addresses the provider is asked about
          Local,      \* invalid and private addresses
          Request,    \* concurrent requests that look an address up
          None,       \* what is known without the provider
          Enabled,    \* Options.Enabled
          CacheTTL,   \* Options.CacheTTL
          Timeout,    \* Options.Timeout
          Delay,      \* longest delay between an answer and its store
          MaxEntries, \* maxCacheEntries
          MaxTime     \* bound on the clock

ASSUME IpInfoAssumption ==
    /\ Public \cap Local = {}
    /\ Enabled \in BOOLEAN
    /\ CacheTTL \in Nat
    /\ Timeout \in Nat
    /\ Delay \in Nat
    /\ MaxEntries \in Nat \ {0}
    /\ MaxTime \in Nat
    /\ None \notin [of : Public, at : Int]

VARIABLES now,   \* the clock
          cache, \* Lookup.cache: its domain is the keys of the map
          lookup \* where each request is with its lookup

info == <<cache, lookup>>

Addr == Public \cup Local
Info == [of : Public, at : Int] \cup {None}

(***************************************************************************)
(* "fetching": the provider was asked; "putting": it answered, and the     *)
(* lock is not held yet; "answered": Do returned `info`.  `since` is when  *)
(* the request got there.                                                  *)
(***************************************************************************)
PC == {"idle", "fetching", "putting", "answered"}

Unasked == [pc |-> "idle", addr |-> None, since |-> 0, info |-> None]

InitInfo ==
    /\ cache = [a \in {} |-> None]
    /\ lookup = [r \in Request |-> Unasked]

-----------------------------------------------------------------------------
Known(a) == a \in DOMAIN cache /\ now <= cache[a].expires

\* What Do does up to its first wait: the local answer, a hit, or a miss.
Do(r, a) ==
    /\ lookup[r].pc = "idle"
    /\ lookup' = [lookup EXCEPT ![r] =
          [pc    |-> IF a \in Public /\ Enabled /\ ~Known(a) THEN "fetching" ELSE "answered",
           addr  |-> a,
           since |-> now,
           info  |-> IF a \in Public /\ Enabled /\ Known(a) THEN cache[a].info ELSE None]]
    /\ UNCHANGED cache

\* A successful, parsable answer.
Fetched(r) ==
    /\ lookup[r].pc = "fetching"
    /\ lookup' = [lookup EXCEPT ![r].pc = "putting", ![r].since = now,
                                ![r].info = [of |-> lookup[r].addr, at |-> now]]
    /\ UNCHANGED cache

FetchFailsPutting(r) == \* mutant: an answer without information is stored as one
    /\ lookup[r].pc = "fetching"
    /\ lookup' = [lookup EXCEPT ![r].pc = "putting", ![r].since = now]
    /\ UNCHANGED cache

\* Out of time, refused, not understood, or the visitor has left.
FetchFails(r) ==
    /\ lookup[r].pc = "fetching"
    /\ lookup' = [lookup EXCEPT ![r].pc = "answered", ![r].since = now]
    /\ UNCHANGED cache

EvictedPastLimit == \* mutant: one entry too many
    IF Cardinality(DOMAIN cache) <= MaxEntries THEN {{}}
    ELSE {gone \in SUBSET DOMAIN cache : Cardinality(gone) = 1}

\* The entries a store may drop: arbitrary ones, when the cache is full,
\* also when the address already has one.
Evicted ==
    IF Cardinality(DOMAIN cache) < MaxEntries THEN {{}}
    ELSE {gone \in SUBSET DOMAIN cache :
             Cardinality(gone) = IF MaxEntries < 8 THEN 1 ELSE MaxEntries \div 4}

Put(r) ==
    LET a == lookup[r].addr
        entry == [info |-> lookup[r].info, expires |-> now + CacheTTL]
    IN  /\ lookup[r].pc = "putting"
        /\ \E gone \in Evicted :
              cache' = [x \in (DOMAIN cache \ gone) \cup {a} |-> IF x = a THEN entry ELSE cache[x]]
        /\ lookup' = [lookup EXCEPT ![r].pc = "answered", ![r].since = now]

\* Time passes no further than the provider's timeout and the delay allow.
InTime ==
    \A r \in Request :
        /\ lookup[r].pc = "fetching" => now - lookup[r].since < Timeout
        /\ lookup[r].pc = "putting" => now - lookup[r].since < Delay

LookupStep == \E r \in Request : Fetched(r) \/ FetchFails(r) \/ Put(r)

-----------------------------------------------------------------------------
InfoTypeOK ==
    /\ now \in Nat
    /\ DOMAIN cache \subseteq Public
    /\ cache \in [DOMAIN cache -> [info : Info, expires : Int]]
    /\ lookup \in [Request -> [pc : PC, addr : Addr \cup {None}, since : Int, info : Info]]

(***************************************************************************)
(* "A bounded cache" (ipinfo.go:119-132): whatever the visitors' addresses *)
(* and however their lookups interleave, it never passes maxCacheEntries.  *)
(***************************************************************************)
CacheBounded == Cardinality(DOMAIN cache) <= MaxEntries

(***************************************************************************)
(* An answer is about the address asked about and no older than CacheTTL   *)
(* after its store, also where lookups of one address overtake each other; *)
(* a failure is answered and forgotten, never stored ("caching successful  *)
(* responses", ipinfo.go:45, 97-107).                                      *)
(***************************************************************************)
AnswersFresh ==
    /\ \A a \in DOMAIN cache : cache[a].info # None
    /\ \A r \in Request :
          lookup[r].pc = "answered" /\ lookup[r].info # None =>
              /\ lookup[r].info.of = lookup[r].addr
              /\ lookup[r].since - lookup[r].info.at <= CacheTTL + Delay
=============================================================================
