------------------------------ MODULE Limiter ------------------------------
(***************************************************************************)
(* The concurrent-stream limiter of internal/speed/speed.go: one counter   *)
(* of all streams, a map of per-address counters that holds only addresses *)
(* with a stream, and a release function per stream guarded by sync.Once.  *)
(* Every operation runs under Limiter.mu, so each is one action.           *)
(***************************************************************************)
EXTENDS Integers, FiniteSets

CONSTANTS Addr,     \* valid client addresses
          Invalid,  \* the zero netip.Addr, for which IsValid() is false
          Stream,   \* the requests that ask for a slot
          PerIP,    \* Limiter.perIP: a non-positive value disables the bound
          Total     \* Limiter.total: a non-positive value disables the bound

ASSUME LimiterAssumption ==
    /\ Invalid \notin Addr
    /\ PerIP \in Int
    /\ Total \in Int

VARIABLES active,   \* Limiter.active
          counts,   \* Limiter.counts: its domain is the keys of the map
          phase,    \* where each request is with its slot
          addr      \* the address each request's release function captured

vars == <<active, counts, phase, addr>>

Client == Addr \cup {Invalid}

(***************************************************************************)
(* "idle": no request; "refused": Acquire returned false; "held": the slot *)
(* is taken; "released": the release function has run, and may run again.  *)
(***************************************************************************)
Phase == {"idle", "refused", "held", "released"}

Held == {s \in Stream : phase[s] = "held"}
HeldBy(a) == {s \in Held : addr[s] = a}

\* Reading a missing key of a Go map yields zero and adds nothing to it.
Count(a) == IF a \in DOMAIN counts THEN counts[a] ELSE 0

FullPastLimit(a) == \* mutant: one stream too many
    \/ Total > 0 /\ active > Total
    \/ PerIP > 0 /\ a # Invalid /\ Count(a) > PerIP

Full(a) ==
    \/ Total > 0 /\ active >= Total
    \/ PerIP > 0 /\ a # Invalid /\ Count(a) >= PerIP

\* counts[addr]++ when the address is valid.
Increment(a) ==
    IF a = Invalid THEN counts
    ELSE [x \in DOMAIN counts \cup {a} |-> IF x = a THEN Count(a) + 1 ELSE counts[x]]

\* delete at the last stream, counts[addr]-- before it.
Decrement(a) ==
    IF a = Invalid THEN counts
    ELSE IF Count(a) <= 1 THEN [x \in DOMAIN counts \ {a} |-> counts[x]]
    ELSE [counts EXCEPT ![a] = @ - 1]

Init ==
    /\ active = 0
    /\ counts = [a \in {} |-> 0]
    /\ phase = [s \in Stream |-> "idle"]
    /\ addr = [s \in Stream |-> Invalid]

Acquire(s, a) ==
    /\ phase[s] = "idle"
    /\ ~Full(a)
    /\ active' = active + 1
    /\ counts' = Increment(a)
    /\ phase' = [phase EXCEPT ![s] = "held"]
    /\ addr' = [addr EXCEPT ![s] = a]

Refuse(s, a) ==
    /\ phase[s] = "idle"
    /\ Full(a)
    /\ phase' = [phase EXCEPT ![s] = "refused"]
    /\ UNCHANGED <<active, counts, addr>>

\* mutant: released without the sync.Once
ReleaseAgain(s) ==
    /\ phase[s] \in {"held", "released"}
    /\ phase' = [phase EXCEPT ![s] = "released"]
    /\ active' = active - 1
    /\ counts' = Decrement(addr[s])
    /\ UNCHANGED addr

\* The function Acquire returned.  A second call finds the sync.Once spent.
Release(s) ==
    /\ phase[s] \in {"held", "released"}
    /\ phase' = [phase EXCEPT ![s] = "released"]
    /\ IF phase[s] = "held"
       THEN /\ active' = active - 1
            /\ counts' = Decrement(addr[s])
       ELSE UNCHANGED <<active, counts>>
    /\ UNCHANGED addr

\* The request is over; its identifier stands for a later one.
Forget(s) ==
    /\ phase[s] \in {"refused", "released"}
    /\ phase' = [phase EXCEPT ![s] = "idle"]
    /\ UNCHANGED <<active, counts, addr>>

Next ==
    \E s \in Stream :
        \/ \E a \in Client : Acquire(s, a) \/ Refuse(s, a)
        \/ Release(s)
        \/ Forget(s)

Spec == Init /\ [][Next]_vars
-----------------------------------------------------------------------------
TypeOK ==
    /\ active \in Nat
    /\ DOMAIN counts \subseteq Addr
    /\ counts \in [DOMAIN counts -> Nat \ {0}]
    /\ phase \in [Stream -> Phase]
    /\ addr \in [Stream -> Client]

(***************************************************************************)
(* The counters are the streams in flight: the total counts every held     *)
(* slot, each address counts its own, and an address with no stream has no *)
(* entry, so the map cannot grow with the addresses ever seen              *)
(* (speed.go:54-70).                                                       *)
(***************************************************************************)
Accounting ==
    /\ active = Cardinality(Held)
    /\ DOMAIN counts = {addr[s] : s \in Held} \ {Invalid}
    /\ \A a \in DOMAIN counts : counts[a] = Cardinality(HeldBy(a))

(***************************************************************************)
(* However requests and releases interleave, no more streams are in flight *)
(* than the configured bounds, in total and for each address; a client     *)
(* with no known address is bounded by the total alone (speed.go:48-53).   *)
(***************************************************************************)
WithinLimits ==
    /\ Total > 0 => Cardinality(Held) <= Total
    /\ PerIP > 0 => \A a \in Addr : Cardinality(HeldBy(a)) <= PerIP

(***************************************************************************)
(* The limiter implements Admission: it lets a request in exactly when the *)
(* set of streams in flight leaves room, and refuses it exactly when it    *)
(* does not; no slot leaks and none is freed twice (speed.go:45-73).       *)
(***************************************************************************)
Abstract == INSTANCE Admission WITH
    inflight <- Held,
    from <- addr,
    turnedAway <- {s \in Stream : phase[s] = "refused"}

Refinement == Abstract!ASpec
=============================================================================
