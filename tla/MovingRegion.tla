---------------------------- MODULE MovingRegion ----------------------------
(***************************************************************************)
(* Class MovingRegion of the vendored spatial index                        *)
(* (spatialindex/MovingRegion.cc): a box whose corners lo and hi, as they  *)
(* are at the time start, move at the velocities vlo and vhi until end.    *)
(*                                                                         *)
(* Times and coordinates are integers, and so are the times at which two   *)
(* boundaries cross if the corners and the start are multiples of every    *)
(* difference of two velocities, as a client chooses them.  The areas are  *)
(* those of two dimensions.  The two machine epsilons by which the code    *)
(* widens a region are less than any difference of two integers.           *)
(***************************************************************************)
EXTENDS Region, SequencesExt

getExtrapolatedLow(a, d, t)  == a.lo[d] + a.vlo[d] * (t - a.start)
getExtrapolatedHigh(a, d, t) == a.hi[d] + a.vhi[d] * (t - a.start)

makeInfiniteMoving ==
    [lo |-> [d \in Dims |-> Infinity], hi |-> [d \in Dims |-> -Infinity],
     vlo |-> [d \in Dims |-> Infinity], vhi |-> [d \in Dims |-> -Infinity],
     start |-> -Infinity, end |-> Infinity]

\* The smallest box that contains a and r from the time t on.
combineRegionAfterTime(a, r, t) ==
    [lo |-> [d \in Dims |-> smaller(getExtrapolatedLow(a, d, t),
                                    getExtrapolatedLow(r, d, t))],
     hi |-> [d \in Dims |-> larger(getExtrapolatedHigh(a, d, t),
                                   getExtrapolatedHigh(r, d, t))],
     vlo |-> [d \in Dims |-> smaller(a.vlo[d], r.vlo[d])],
     vhi |-> [d \in Dims |-> larger(a.vhi[d], r.vhi[d])],
     start |-> t,
     end |-> IF t >= larger(a.end, r.end) THEN Infinity ELSE larger(a.end, r.end)]

-----------------------------------------------------------------------------
(* Intervals and crossings *)

Interval(from, to) == [from |-> from, to |-> to]

\* The time at which two boundaries meet that move at vx and vy and are at x and
\* y at the time 0.
Crossing(x, vx, y, vy) == (x - y) \div (vy - vx)

LowsCross(a, r, d) == Crossing(getExtrapolatedLow(a, d, 0), a.vlo[d],
                               getExtrapolatedLow(r, d, 0), r.vlo[d])
HighsCross(a, r, d) == Crossing(getExtrapolatedHigh(a, d, 0), a.vhi[d],
                                getExtrapolatedHigh(r, d, 0), r.vhi[d])

\* The upper boundary of a meets the lower one of r.
HighMeetsLow(a, r, d) == Crossing(getExtrapolatedHigh(a, d, 0), a.vhi[d],
                                  getExtrapolatedLow(r, d, 0), r.vlo[d])

-----------------------------------------------------------------------------
(* Containment and intersection in time *)

\* In the part of the period in which r exists, it stays inside a.
containsRegionInTime(a, period, r) ==
    LET tmin == larger(period.from, r.start)
        tmax == smaller(period.to, r.end)
        Inside(t) == tmin < t /\ t < tmax
    IN /\ tmin < tmax /\ tmin >= a.start /\ tmax <= a.end
       /\ \A d \in Dims :
             /\ getExtrapolatedHigh(r, d, tmin) <= getExtrapolatedHigh(a, d, tmin)
             /\ getExtrapolatedLow(r, d, tmin) >= getExtrapolatedLow(a, d, tmin)
             /\ r.vhi[d] # a.vhi[d] =>
                   /\ ~ Inside(HighsCross(a, r, d))
                   /\ ~ (HighsCross(a, r, d) = tmin /\ r.vhi[d] > a.vhi[d])
             /\ r.vlo[d] # a.vlo[d] =>
                   /\ ~ Inside(LowsCross(a, r, d))
                   /\ ~ (LowsCross(a, r, d) = tmin /\ r.vlo[d] < a.vlo[d])

containsRegionAfterTime(a, t, r) == containsRegionInTime(a, Interval(t, r.end), r)

\* The part of the interval in which a and r meet in the dimension d: a sequence
\* with at most one interval.
ClipTo(a, r, iv, d) ==
    LET above(t) == getExtrapolatedLow(r, d, t) > getExtrapolatedHigh(a, d, t)
        below(t) == getExtrapolatedHigh(r, d, t) < getExtrapolatedLow(a, d, t)
        apart == \/ /\ above(iv.from)
                    /\ getExtrapolatedLow(r, d, iv.to) >= getExtrapolatedHigh(a, d, iv.to)
                 \/ /\ below(iv.from)
                    /\ getExtrapolatedHigh(r, d, iv.to) <= getExtrapolatedLow(a, d, iv.to)
        At(t) == IF above(t) THEN HighMeetsLow(a, r, d)
                 ELSE IF below(t) THEN HighMeetsLow(r, a, d) ELSE t
    IN IF apart THEN <<>> ELSE <<Interval(At(iv.from), At(iv.to))>>

\* The interval of the period in which a and r intersect.
IntersectionInTime(a, period, r) ==
    LET tmin == larger(larger(a.start, r.start), period.from)
        tmax == smaller(smaller(a.end, r.end), period.to)
        Clipped[d \in 0..Dimension] ==
            IF d = 0 THEN <<Interval(tmin, tmax)>>
            ELSE IF Clipped[d - 1] = <<>> THEN <<>>
            ELSE ClipTo(a, r, Clipped[d - 1][1], d)
    IN IF containsRegionInTime(a, period, r) \/ containsRegionInTime(r, period, a)
       THEN <<period>>
       ELSE IF tmax <= tmin THEN <<>> ELSE Clipped[Dimension]

intersectsRegionInTime(a, period, r) == IntersectionInTime(a, period, r) # <<>>

-----------------------------------------------------------------------------
(* Integrals over time, in two dimensions *)

Part(a, iv) == Interval(larger(iv.from, a.start), smaller(iv.to, a.end))
Edge(a, d, t) == getExtrapolatedHigh(a, d, t) - getExtrapolatedLow(a, d, t)
EdgeGrowth(a, d) == a.vhi[d] - a.vlo[d]

\* Twice the integral of the sum of the edges.
getProjectedSurfaceAreaInTime(a, iv) ==
    LET p == Part(a, iv)
        H == p.to - p.from
    IN 2 * H * (Edge(a, 1, p.from) + Edge(a, 2, p.from))
       + H * H * (EdgeGrowth(a, 1) + EdgeGrowth(a, 2))

\* Six times the integral of the area.
getAreaInTime(a, iv) ==
    LET p == Part(a, iv)
        H == p.to - p.from
        dx1 == Edge(a, 1, p.from)
        dx2 == Edge(a, 2, p.from)
    IN 6 * H * dx1 * dx2 + 3 * H * H * (dx1 * EdgeGrowth(a, 2) + EdgeGrowth(a, 1) * dx2)
       + 2 * H * H * H * EdgeGrowth(a, 1) * EdgeGrowth(a, 2)

\* Takes one boundary from the region b.
WithLow(x, b, d)  == [x EXCEPT !.lo[d] = b.lo[d], !.vlo[d] = b.vlo[d]]
WithHigh(x, b, d) == [x EXCEPT !.hi[d] = b.hi[d], !.vhi[d] = b.vhi[d]]

\* Six times the integral of the area of the intersection, piece by piece: at
\* each cross point a boundary of the piece is replaced.  A boundary of r is taken
\* as it is at the start of r, although the piece has the start of a.
PiecewiseArea(a, r, iv) ==
    LET low(b, d, t) == getExtrapolatedLow(b, d, t)
        high(b, d, t) == getExtrapolatedHigh(b, d, t)
        lowOf == [d \in Dims |-> low(a, d, iv.from) > low(r, d, iv.from)]
        highOf == [d \in Dims |-> high(a, d, iv.from) < high(r, d, iv.from)]
        First[d \in 0..Dimension] ==
            IF d = 0 THEN a
            ELSE WithHigh(WithLow(First[d - 1], IF lowOf[d] THEN a ELSE r, d),
                          IF highOf[d] THEN a ELSE r, d)
        points ==
            {[t |-> LowsCross(a, r, d), d |-> d, high |-> FALSE] :
               d \in {d \in Dims :
                  IF lowOf[d] THEN low(a, d, iv.to) < low(r, d, iv.to)
                  ELSE low(r, d, iv.to) < low(a, d, iv.to)}}
            \cup
            {[t |-> HighsCross(a, r, d), d |-> d, high |-> TRUE] :
               d \in {d \in Dims :
                  IF highOf[d] THEN high(a, d, iv.to) > high(r, d, iv.to)
                  ELSE high(r, d, iv.to) > high(a, d, iv.to)}}
        Turned(x, c) ==
            IF c.high THEN WithHigh(x, IF highOf[c.d] THEN r ELSE a, c.d)
            ELSE WithLow(x, IF lowOf[c.d] THEN r ELSE a, c.d)
        Piece(x, from, to) ==
            IF to > from THEN getAreaInTime(x, Interval(from, to)) ELSE 0
        Step(s, c) == [x |-> Turned(s.x, c), t |-> c.t,
                       area |-> s.area + Piece(s.x, s.t, c.t)]
        end == FoldLeft(Step, [x |-> First[Dimension], t |-> iv.from, area |-> 0],
                        SetToSortSeq(points, LAMBDA p, q : p.t < q.t))
    IN end.area + Piece(end.x, end.t, iv.to)

\* The same while a and r meet, in the interval iv.
AreaWhileMet(a, r, iv) ==
    IF containsRegionInTime(a, iv, r) THEN getAreaInTime(r, iv)
    ELSE IF containsRegionInTime(r, iv, a) THEN getAreaInTime(a, iv)
    ELSE PiecewiseArea(a, r, iv)

getIntersectingAreaInTime(a, period, r) ==
    LET p == Part(a, Part(r, period))
        met == IntersectionInTime(a, p, r)
    IN IF p.to <= p.from THEN 0
       ELSE IF met = <<>> THEN 0
       ELSE AreaWhileMet(a, r, met[1])

=============================================================================
