------------------------------- MODULE TopdSet -------------------------------
(***************************************************************************)
(* Class TopdSet of include/queries.hpp: the results set of the top-delta  *)
(* dominant skyline query, as operators on a record c of the content s of  *)
(* its container and the vector domFactors of their dominance factors.     *)
(* Positions start from 1.                                                 *)
(***************************************************************************)
EXTENDS Integers, Sequences, SequencesExt, FiniteSetsExt

CONSTANT DIM            \* number of dimensions

\* The number of dimensions in which t is equal to or better than u.
EqualOrBetter(t, u) == Cardinality({i \in 1..DIM : t.d[i] <= u.d[i]})

\* domT: the dimensions in which the stored tuple u is equal to or better than
\* t, if it is better in one; noBetterT is the conjunction over the dimensions.
domT(u, t) ==
    IF \E i \in 1..DIM : u.d[i] < t.d[i] THEN EqualOrBetter(u, t) ELSE 0

\* Mutant of Tdom: t need not be better in any dimension.
Tdom_Equal(t, u) == EqualOrBetter(t, u)

\* Tdom: the same for t against u, but TnoBetter is assigned anew for each
\* dimension, so that only the last one counts.
Tdom(t, u) == IF t.d[DIM] < u.d[DIM] THEN EqualOrBetter(t, u) ELSE 0

\* The last element of q takes the place of the one in position i.
Replaced(q, i) == [j \in 1..(Len(q) - 1) |-> q[IF j = i THEN Len(q) ELSE j]]

\* A turn of the loop of updateTopd, with r.i the next tuple: one that has the
\* factor DIM is replaced by the last one.
Turn(r) ==
    IF r.i > Len(r.s) THEN r
    ELSE IF r.domFactors[r.i] = DIM
    THEN [r EXCEPT !.s = Replaced(@, r.i), !.domFactors = Replaced(@, r.i)]
    ELSE [r EXCEPT !.i = @ + 1]

\* The loop over the tuples s with the factors domFactors: at each turn a tuple
\* goes, or stays and is passed.
Scan(s, domFactors) ==
    LET turn(r, k) == Turn(r)
    IN FoldLeft(turn, [s |-> s, domFactors |-> domFactors, i |-> 1],
                [k \in 1..Len(s) |-> k])

\* A tuple of factor dom is in the skyline and is stored (dom < DIM).
Stays(dom) == dom < DIM

\* updateTopd and what its callers do of the result: the factors of the stored
\* tuples grow, those that reach DIM go and t comes, unless its factor is DIM;
\* known is a factor that t already has.
updateTopd(c, t, known) ==
    LET n == Len(c.s)
        domFactor == Max({0} \cup {domT(c.s[i], t) : i \in 1..n})
        grown == [i \in 1..n |-> Max({c.domFactors[i], Tdom(t, c.s[i])})]
        kept == Scan(c.s, grown)
    IN IF Stays(domFactor)
       THEN [s |-> Append(kept.s, t),
             domFactors |-> Append(kept.domFactors, Max({domFactor, known}))]
       ELSE [s |-> kept.s, domFactors |-> kept.domFactors]

addComputeTuple(c, t) == updateTopd(c, t, 0)

addComputeSet(c, B) ==
    LET add(e, i) == updateTopd(e, B.s[i], B.domFactors[i])
    IN IF c.s = <<>> THEN B
       ELSE FoldLeft(add, c, [i \in 1..Len(B.s) |-> i])

=============================================================================
