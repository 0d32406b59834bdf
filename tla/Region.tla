------------------------------- MODULE Region -------------------------------
(***************************************************************************)
(* Class Region of the vendored spatial index (spatialindex/Region.cc): a  *)
(* box with the corners lo and hi, of integer coordinates.  A Point is the *)
(* box whose corners are the same.  The machine epsilon with which the     *)
(* code compares coordinates is less than any difference of two integers.  *)
(*                                                                         *)
(* A centre is the double of the one of the code and a distance the square *)
(* of the one of the code, which change no comparison and stay integers.   *)
(***************************************************************************)
EXTENDS Integers, Sequences, FiniteSetsExt

CONSTANTS
    Dimension,      \* number of dimensions
    Infinity        \* larger than any coordinate: numeric_limits<double>::max()

Dims == 1..Dimension

RECURSIVE SumTo(_, _), ProductTo(_, _)
SumTo(f, d) == IF d = 0 THEN 0 ELSE f[d] + SumTo(f, d - 1)
ProductTo(f, d) == IF d = 0 THEN 1 ELSE f[d] * ProductTo(f, d - 1)

larger(a, b)  == IF a > b THEN a ELSE b
smaller(a, b) == IF a < b THEN a ELSE b

\* The box of a point.
getMBR(p) == [lo |-> p, hi |-> p]

\* The empty box: it is the neutral element of getCombinedRegion.
makeInfinite == [lo |-> [d \in Dims |-> Infinity],
                 hi |-> [d \in Dims |-> -Infinity]]

getCombinedRegion(a, b) == [lo |-> [d \in Dims |-> smaller(a.lo[d], b.lo[d])],
                            hi |-> [d \in Dims |-> larger(a.hi[d], b.hi[d])]]

intersectsRegion(a, b) ==
    \A d \in Dims : a.lo[d] <= b.hi[d] /\ a.hi[d] >= b.lo[d]

containsRegion(a, b) ==
    \A d \in Dims : a.lo[d] <= b.lo[d] /\ a.hi[d] >= b.hi[d]

\* Each corner is to be at once above and below the other one: this is always
\* true, whatever the boxes.
touchesRegion(a, b) ==
    \A d \in Dims :
       /\ ~ (a.lo[d] > b.lo[d] /\ a.lo[d] < b.lo[d])
       /\ ~ (a.hi[d] > b.hi[d] /\ a.hi[d] < b.hi[d])

getIntersectingRegion(a, b) ==
    IF intersectsRegion(a, b)
    THEN [lo |-> [d \in Dims |-> larger(a.lo[d], b.lo[d])],
          hi |-> [d \in Dims |-> smaller(a.hi[d], b.hi[d])]]
    ELSE makeInfinite

Width(a) == [d \in Dims |-> a.hi[d] - a.lo[d]]

getArea(a) == ProductTo(Width(a), Dimension)

getIntersectingArea(a, b) ==
    IF intersectsRegion(a, b) THEN getArea(getIntersectingRegion(a, b)) ELSE 0

\* The sum of the edges.
getMargin(a) == 2 ^ (Dimension - 1) * SumTo(Width(a), Dimension)

\* Twice the centre.
getCenter(a) == [d \in Dims |-> a.lo[d] + a.hi[d]]

\* The square of the distance of two boxes.
getMinimumDistance(a, b) ==
    SumTo([d \in Dims |-> IF b.hi[d] < a.lo[d] THEN (a.lo[d] - b.hi[d]) ^ 2
                          ELSE IF a.hi[d] < b.lo[d] THEN (b.lo[d] - a.hi[d]) ^ 2
                          ELSE 0], Dimension)

=============================================================================
