----------------------------- MODULE Admission -----------------------------
(***************************************************************************)
(* What the stream limiter promises its callers, without any counter: a    *)
(* request is let in exactly when the streams now in flight leave room     *)
(* for it, in total and for its own address, and it holds its place until  *)
(* it leaves.  Limiter.tla, which keeps counters instead of the set of     *)
(* streams, is shown to implement this.                                    *)
(***************************************************************************)
EXTENDS Integers, FiniteSets

CONSTANTS Addr,     \* valid client addresses
          Invalid,  \* the zero netip.Addr: a client whose address is unknown
          Stream,   \* requests to the download and upload endpoints
          PerIP,    \* streams allowed to one address; no bound unless positive
          Total     \* streams allowed altogether; no bound unless positive

VARIABLES inflight,  \* the streams that were let in and have not left
          from,      \* the address each of them came from
          turnedAway \* the streams whose last request was refused

avars == <<inflight, from, turnedAway>>

Of(a) == {s \in inflight : from[s] = a}

Room(a) ==
    /\ Total > 0 => Cardinality(inflight) < Total
    /\ PerIP > 0 /\ a # Invalid => Cardinality(Of(a)) < PerIP

AInit ==
    /\ inflight = {}
    /\ from = [s \in Stream |-> Invalid]
    /\ turnedAway = {}

\* A request is let in only when there is room.
Enter(s, a) ==
    /\ s \notin inflight \cup turnedAway
    /\ Room(a)
    /\ inflight' = inflight \cup {s}
    /\ from' = [from EXCEPT ![s] = a]
    /\ UNCHANGED turnedAway

\* A request is refused only when there is none.
TurnAway(s, a) ==
    /\ s \notin inflight \cup turnedAway
    /\ ~Room(a)
    /\ turnedAway' = turnedAway \cup {s}
    /\ UNCHANGED <<inflight, from>>

Leave(s) ==
    /\ s \in inflight
    /\ inflight' = inflight \ {s}
    /\ UNCHANGED <<from, turnedAway>>

GoAway(s) ==
    /\ s \in turnedAway
    /\ turnedAway' = turnedAway \ {s}
    /\ UNCHANGED <<inflight, from>>

ANext ==
    \E s \in Stream :
        \/ \E a \in Addr \cup {Invalid} : Enter(s, a) \/ TurnAway(s, a)
        \/ Leave(s)
        \/ GoAway(s)

ASpec == AInit /\ [][ANext]_avars
=============================================================================
