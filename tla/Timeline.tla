------------------------------ MODULE Timeline ------------------------------
(***************************************************************************)
(* The bounded history of engine/series.ts, as the times of its points.    *)
(* Rates are left out: only where on the session's timeline the points lie *)
(* is told apart.                                                          *)
(***************************************************************************)
EXTENDS Naturals, Sequences

\* Where the newest point lies; callers that may have none say so first.
Newest(points) == points[Len(points)]

CompactMidpoint(points) == \* mutant: a merged pair lies in its middle
    [i \in 1..(Len(points) + 1) \div 2 |->
        IF 2 * i > Len(points) THEN points[2 * i - 1]
        ELSE (points[2 * i - 1] + points[2 * i]) \div 2]

\* A pair is merged at its first point's time; an odd last point is carried over.
Compact(points) == [i \in 1..(Len(points) + 1) \div 2 |-> points[2 * i - 1]]

AddPoint(points, t, capacity) ==
    LET longer == Append(points, t)
    IN  IF Len(longer) > capacity THEN Compact(longer) ELSE longer

Ordered(points) == \A i, j \in DOMAIN points : i <= j => points[i] <= points[j]
=============================================================================
