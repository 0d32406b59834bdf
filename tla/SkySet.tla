------------------------------- MODULE SkySet -------------------------------
(***************************************************************************)
(* Class SkySet of include/queries.hpp: the results set of the skyline     *)
(* query, as operators on the content s of its container TData.  A tuple t *)
(* has the coordinates t.d; the better of two coordinates is the smaller.  *)
(* Positions start from 1, and so do pos and endpoint.                     *)
(***************************************************************************)
EXTENDS Integers, Sequences, SequencesExt, FiniteSets

CONSTANT DIM            \* number of dimensions

\* What Tdom and domT hold: the dimensions in which t is better than u, each
\* one in which it is worse outweighing them all.  domT is counted twice in the
\* last dimension (domT[i] += domT[i] += ...); g++ yields twice the sum, which
\* has the same sign.
Score(t, u) ==
    Cardinality({i \in 1..DIM : t.d[i] < u.d[i]})
    - (DIM + 1) * Cardinality({i \in 1..DIM : t.d[i] > u.d[i]})

\* Mutant of Shifted: the tuple in position pos is left where it is.
Shifted_Lost(s, i, endpoint, pos) == [s EXCEPT ![i] = s[endpoint]]

\* The tuple in position i is dominated: that in endpoint takes its place, and
\* that in pos the place of the latter.
Shifted(s, i, endpoint, pos) ==
    [s EXCEPT ![i] = s[endpoint], ![endpoint] = s[pos]]

\* A turn of the loop of updateSkyline that shifts the tuples dominated by t to
\* the end, with r.i the next one; no turn is taken any more after the last one.
Turn(t, r) ==
    IF r.i > r.endpoint THEN r
    ELSE IF Score(t, r.s[r.i]) >= 1
    THEN [r EXCEPT !.s = Shifted(@, r.i, r.endpoint, r.pos),
                   !.endpoint = @ - 1, !.pos = @ - 1]
    ELSE [r EXCEPT !.i = @ + 1]

\* The loop: each turn brings i and endpoint closer by one.
Scan(t, c) ==
    LET turn(r, k) == Turn(t, r)
    IN FoldLeft(turn, [s |-> c.s, i |-> 1, endpoint |-> c.endpoint, pos |-> Len(c.s)],
                [k \in 1..c.endpoint |-> k])

\* updateSkyline and what its callers do of the result: the tuples dominated by
\* t go and t comes, unless it is dominated.  Only the first c.endpoint tuples
\* are compared with t.
updateSkyline(c, t) ==
    LET isDominated == \E i \in 1..c.endpoint : Score(c.s[i], t) >= 1
        r == Scan(t, c)
        kept == SubSeq(r.s, 1, r.pos)
    IN [s |-> IF isDominated THEN kept ELSE Append(kept, t),
        endpoint |-> r.endpoint]

addComputeTuple(s, t) == updateSkyline([s |-> s, endpoint |-> Len(s)], t).s

\* The tuples of B are not compared with each other: endpoint stays behind them.
addComputeSet(s, B) ==
    IF s = <<>> THEN B
    ELSE FoldLeft(updateSkyline, [s |-> s, endpoint |-> Len(s)], B).s

=============================================================================
