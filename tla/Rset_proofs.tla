---------------------------- MODULE Rset_proofs ----------------------------
(***************************************************************************)
(* Proofs about the results sets of the preference queries, for any number *)
(* of dimensions, any coordinates, any partitions and any order of the     *)
(* merges: a SkySet is the skyline of the tuples it stands for, a TopdSet  *)
(* loses no tuple of the skyline and overestimates no factor.              *)
(***************************************************************************)
EXTENDS Rset, Sums_proofs

-----------------------------------------------------------------------------
(* Dominance                                                               *)

\* t is nowhere worse than u, and better in one dimension.
Beats(t, u) == /\ \A i \in 1..DIM : t.d[i] <= u.d[i]
               /\ \E i \in 1..DIM : t.d[i] < u.d[i]

\* The coordinates of a tuple are integers.
LEMMA Coordinates ==
    /\ DIM \in Nat /\ DIM >= 2
    /\ \A t \in Tuple : \A i \in 1..DIM : t.d[i] \in Int
<1>1. DIM \in Nat /\ DIM >= 2 /\ Coordinate \subseteq Int
  BY RsetAssumption
<1> QED
  BY <1>1 DEF Tuple

\* To beat is a strict order.
LEMMA BeatsOrder ==
    /\ \A t \in Tuple : ~Beats(t, t)
    /\ \A t, u, v \in Tuple : Beats(t, u) /\ Beats(u, v) => Beats(t, v)
<1>1. ASSUME NEW t \in Tuple PROVE ~Beats(t, t)
  BY Coordinates DEF Beats
<1>2. ASSUME NEW t \in Tuple, NEW u \in Tuple, NEW v \in Tuple, Beats(t, u), Beats(u, v)
      PROVE  Beats(t, v)
  <2>1. \A i \in 1..DIM : t.d[i] \in Int /\ u.d[i] \in Int /\ v.d[i] \in Int
    BY Coordinates
  <2>2. \A i \in 1..DIM : t.d[i] <= v.d[i]
    BY <1>2, <2>1 DEF Beats
  <2>3. PICK i \in 1..DIM : t.d[i] < u.d[i]
    BY <1>2 DEF Beats
  <2>4. t.d[i] < v.d[i]
    BY <1>2, <2>1, <2>3 DEF Beats
  <2> QED
    BY <2>2, <2>4 DEF Beats
<1> QED
  BY <1>1, <1>2

\* The number of dimensions of a kind.
LEMMA SomeDimensions ==
    ASSUME NEW S \in SUBSET (1..DIM)
    PROVE  /\ Cardinality(S) \in 0..DIM
           /\ Cardinality(S) = 0 <=> S = {}
           /\ Cardinality(S) = DIM <=> S = 1..DIM
<1>1. DIM \in Nat
  BY Coordinates
<1>2. IsFiniteSet(1..DIM) /\ Cardinality(1..DIM) = DIM
  BY <1>1, FS_Interval
<1>3. /\ IsFiniteSet(S) /\ Cardinality(S) <= DIM
      /\ Cardinality(S) = DIM => S = 1..DIM
  BY <1>2, FS_Subset
<1>4. Cardinality(S) \in Nat /\ (Cardinality(S) = 0 <=> S = {})
  BY <1>3, FS_CardinalityType, FS_EmptySet
<1> QED
  BY <1>1, <1>2, <1>3, <1>4

\* The modules SkySet and TopdSet count as this one does.
LEMMA CountsAlike ==
    \A S : Sky!Cardinality(S) = Cardinality(S) /\ Topd!Cardinality(S) = Cardinality(S)
  BY Zenon DEF Sky!Cardinality, Topd!Cardinality, Cardinality

\* What SkySet compares with 1.
LEMMA ScoreBeats ==
    ASSUME NEW t \in Tuple, NEW u \in Tuple
    PROVE  Sky!Score(t, u) >= 1 <=> Beats(t, u)
<1>1. PICK B : B = {i \in 1..DIM : t.d[i] < u.d[i]}
  OBVIOUS
<1>2. PICK W : W = {i \in 1..DIM : t.d[i] > u.d[i]}
  OBVIOUS
<1>3. PICK b, w : b = Cardinality(B) /\ w = Cardinality(W)
  OBVIOUS
<1>4. b \in 0..DIM /\ w \in 0..DIM /\ (b = 0 <=> B = {}) /\ (w = 0 <=> W = {})
  BY <1>1, <1>2, <1>3, SomeDimensions
<1>5. Sky!Score(t, u) = b - (DIM + 1) * w
  BY <1>1, <1>2, <1>3, CountsAlike DEF Sky!Score
<1>6. DIM \in Nat
  BY Coordinates
<1>7. b - (DIM + 1) * w >= 1 <=> b # 0 /\ w = 0
  <2>1. CASE w = 0
    BY ONLY <1>4, <1>6, <2>1
  <2>2. CASE w >= 1
    <3>1. (DIM + 1) * w >= DIM + 1
      BY ONLY <1>4, <1>6, <2>2
    <3>2. PICK x : x = (DIM + 1) * w
      OBVIOUS
    <3>3. x \in Int
      BY ONLY <1>4, <1>6, <3>2
    <3> QED
      BY ONLY <1>4, <1>6, <2>2, <3>1, <3>2, <3>3
  <2> QED
    BY ONLY <1>4, <2>1, <2>2
<1>8. Beats(t, u) <=> B # {} /\ W = {}
  <2>1. \A i \in 1..DIM : t.d[i] \in Int /\ u.d[i] \in Int
    BY Coordinates
  <2> QED
    BY <1>1, <1>2, <2>1 DEF Beats
<1> QED
  BY <1>4, <1>5, <1>7, <1>8

\* The definition of the queries, for all the dimensions.
LEMMA DominatesBeats ==
    ASSUME NEW t \in Tuple, NEW u \in Tuple
    PROVE  Dominates(t, u, DIM) <=> Beats(t, u)
<1>1. PICK E : E = {i \in 1..DIM : t.d[i] <= u.d[i]}
  OBVIOUS
<1>2. Cardinality(E) \in 0..DIM /\ (Cardinality(E) = DIM <=> E = 1..DIM)
  BY <1>1, SomeDimensions
<1>3. Cardinality(E) >= DIM <=> Cardinality(E) = DIM
  BY <1>2, Coordinates
<1> QED
  BY <1>1, <1>2, <1>3 DEF Dominates, Beats

\* A dominance factor is the greatest k for which some tuple k-dominates.
LEMMA FactorBounds ==
    ASSUME NEW T \in SUBSET Tuple, NEW u \in Tuple
    PROVE  /\ Factor(u, T) \in 0..DIM
           /\ \A k \in 1..DIM, t \in T : Dominates(t, u, k) => k <= Factor(u, T)
           /\ Factor(u, T) # 0 => \E t \in T : Dominates(t, u, Factor(u, T))
<1>1. PICK S : S = {0} \cup {k \in 1..DIM : \E t \in T : Dominates(t, u, k)}
  OBVIOUS
<1>2. DIM \in Nat /\ S \in SUBSET (0..DIM) /\ S # {}
  BY <1>1, Coordinates
<1>3. Max(S) \in S /\ \A k \in S : k <= Max(S)
  BY <1>2, GreatestElement
<1>4. Factor(u, T) = Max(S)
  BY <1>1 DEF Factor
<1> QED
  BY <1>1, <1>2, <1>3, <1>4

\* The skyline consists of the tuples that no tuple beats.
LEMMA SkylineUnbeaten ==
    ASSUME NEW T \in SUBSET Tuple
    PROVE  Skyline(T) = {u \in T : \A t \in T : ~Beats(t, u)}
<1>1. ASSUME NEW u \in T PROVE Factor(u, T) < DIM <=> \A t \in T : ~Beats(t, u)
  <2>1. PICK f : f = Factor(u, T)
    OBVIOUS
  <2>2. /\ f \in 0..DIM
        /\ \A t \in T : Dominates(t, u, DIM) => DIM <= f
        /\ f = DIM => \E t \in T : Dominates(t, u, DIM)
    <3>1. DIM \in 1..DIM /\ DIM # 0
      BY Coordinates
    <3> QED
      BY <2>1, <3>1, FactorBounds
  <2>3. \A t \in T : Dominates(t, u, DIM) <=> Beats(t, u)
    BY DominatesBeats
  <2>4. f < DIM <=> f # DIM
    BY <2>2, Coordinates
  <2> QED
    BY <2>1, <2>2, <2>3, <2>4, Coordinates
<1> QED
  BY <1>1 DEF Skyline

-----------------------------------------------------------------------------
(* What a SkySet stands for                                                *)

\* The tuples of the sequence q, and that none is there twice.
Image(q) == {q[j] : j \in 1..Len(q)}
Distinct(q) == \A i, j \in 1..Len(q) : q[i] = q[j] => i = j

\* The sequence q holds the skyline of T: each other tuple of T is beaten by one
\* that q holds.
Holds(q, T) ==
    /\ Distinct(q) /\ Image(q) \subseteq T
    /\ \A a, b \in Image(q) : ~Beats(a, b)
    /\ \A u \in T : u \in Image(q) \/ \E a \in Image(q) : Beats(a, u)

\* A sequence of distinct elements is as long as the set of them.
LEMMA DistinctLength ==
    ASSUME NEW S, NEW q \in Seq(S), Distinct(q)
    PROVE  Len(q) = Cardinality(Image(q))
<1>1. Len(q) \in Nat
  BY LenProperties
<1>2. PICK n : n = Len(q)
  OBVIOUS
<1>3. PICK f : f = [j \in 1..n |-> q[j]]
  OBVIOUS
<1>4. f \in Bijection(1..n, Image(q))
  <2>1. f \in [1..n -> Image(q)]
    BY <1>2, <1>3 DEF Image
  <2>2. \A i, j \in 1..n : f[i] = f[j] => i = j
    BY <1>2, <1>3 DEF Distinct
  <2>3. \A x \in Image(q) : \E j \in 1..n : f[j] = x
    BY <1>2, <1>3 DEF Image
  <2> QED
    BY <1>3, <2>1, <2>2, <2>3 DEF Bijection, Injection, Surjection, IsInjective
<1>5. ExistsBijection(1..n, Image(q))
  BY <1>4 DEF ExistsBijection
<1> QED
  BY <1>1, <1>2, <1>5, FS_CountingElements

\* What holds the skyline is the skyline.
LEMMA HoldsSkyline ==
    ASSUME NEW T \in SUBSET Tuple, NEW q \in Seq(Tuple), Holds(q, T)
    PROVE  Image(q) = Skyline(T) /\ Len(q) = Cardinality(Image(q))
<1>1. Len(q) = Cardinality(Image(q))
  BY DistinctLength DEF Holds
<1>2. Image(q) \subseteq T
  BY DEF Holds
<1>3. ASSUME NEW u \in Image(q), NEW a \in T PROVE ~Beats(a, u)
  <2>1. CASE a \in Image(q)
    BY <2>1 DEF Holds
  <2>2. CASE a \notin Image(q)
    <3>1. PICK b \in Image(q) : Beats(b, a)
      BY <2>2 DEF Holds
    <3>2. ~Beats(b, u)
      BY DEF Holds
    <3> QED
      BY <1>2, <3>1, <3>2, BeatsOrder
  <2> QED
    BY <2>1, <2>2
<1>4. ASSUME NEW u \in T, u \notin Image(q) PROVE \E a \in T : Beats(a, u)
  BY <1>2, <1>4 DEF Holds
<1> QED
  BY <1>1, <1>2, <1>3, <1>4, SkylineUnbeaten

-----------------------------------------------------------------------------
(* The loops                                                               *)

\* What holds before the first turn and is kept by each holds after each.
LEMMA TurnsInduction ==
    ASSUME NEW n \in Nat, NEW Q \in SUBSET (0..n), 0 \in Q,
           \A k \in 1..n : k - 1 \in Q => k \in Q
    PROVE  Q = 0..n
<1> DEFINE P == {k \in Nat : k <= n => k \in Q}
<1>1. 0 \in P
  OBVIOUS
<1>2. ASSUME NEW k \in P PROVE k + 1 \in P
  <2>1. CASE k + 1 <= n
    <3>1. k + 1 \in 1..n /\ (k + 1) - 1 = k /\ k \in Q
      BY <2>1
    <3> QED
      BY <3>1
  <2>2. CASE ~(k + 1 <= n)
    BY <2>2
  <2> QED
    BY <2>1, <2>2
<1>3. P = Nat
  <2>1. P \in SUBSET Nat
    OBVIOUS
  <2> HIDE DEF P
  <2> QED
    BY <1>1, <1>2, <2>1, SetOfAllNaturals
<1>4. ASSUME NEW k \in 0..n PROVE k \in Q
  <2>1. k \in P
    BY <1>3
  <2> QED
    BY <2>1
<1> QED
  BY <1>4

\* The loop of updateSkyline on the tuples q, the first e of which are compared.
ScanState(q, e) ==
    {r \in [s : Seq(Tuple), i : Nat, endpoint : Nat, pos : Nat] :
        /\ Len(r.s) = Len(q) /\ r.i \in 1..(e + 1) /\ r.endpoint \in 0..e
        /\ r.i <= r.endpoint + 1
        /\ r.pos = Len(q) - (e - r.endpoint)}

\* A tuple of another place takes the place of a tuple.
LEMMA PutElsewhere ==
    ASSUME NEW S, NEW q \in Seq(S), NEW i \in 1..Len(q), NEW a \in S
    PROVE  /\ [q EXCEPT ![i] = a] \in Seq(S)
           /\ Len([q EXCEPT ![i] = a]) = Len(q)
           /\ \A j \in 1..Len(q) : [q EXCEPT ![i] = a][j] = IF j = i THEN a ELSE q[j]
  BY ExceptSeq

\* What Shifted does.
LEMMA ShiftedPlaces ==
    ASSUME NEW q \in Seq(Tuple), NEW pos \in 1..Len(q), NEW endpoint \in 1..pos,
           NEW i \in 1..endpoint
    PROVE  LET s == Sky!Shifted(q, i, endpoint, pos)
           IN /\ s \in Seq(Tuple) /\ Len(s) = Len(q)
              /\ \A j \in 1..Len(q) : s[j] = IF j = endpoint THEN q[pos]
                                             ELSE IF j = i THEN q[endpoint] ELSE q[j]
<1>1. PICK n : n = Len(q)
  OBVIOUS
<1>2. n \in Nat /\ pos \in 1..n /\ endpoint \in 1..n /\ i \in 1..n
  BY <1>1, LenProperties
<1>3. \A j \in 1..n : q[j] \in Tuple
  BY <1>1
<1>4. PICK u : u = [q EXCEPT ![i] = q[endpoint]]
  OBVIOUS
<1>5. /\ u \in Seq(Tuple) /\ Len(u) = n
      /\ \A j \in 1..n : u[j] = IF j = i THEN q[endpoint] ELSE q[j]
  BY <1>1, <1>2, <1>3, <1>4, PutElsewhere
<1>6. PICK s : s = [u EXCEPT ![endpoint] = q[pos]]
  OBVIOUS
<1>7. /\ s \in Seq(Tuple) /\ Len(s) = n
      /\ \A j \in 1..n : s[j] = IF j = endpoint THEN q[pos] ELSE u[j]
  BY <1>2, <1>3, <1>5, <1>6, PutElsewhere
<1>8. Sky!Shifted(q, i, endpoint, pos) = s
  BY <1>4, <1>6 DEF Sky!Shifted
<1> QED
  BY <1>1, <1>5, <1>7, <1>8

\* A turn goes from a state of the loop to another one.
LEMMA TurnType ==
    ASSUME NEW t, NEW q \in Seq(Tuple), NEW e \in 0..Len(q), NEW r \in ScanState(q, e)
    PROVE  /\ Sky!Turn(t, r) \in ScanState(q, e)
           /\ r.i > r.endpoint => Sky!Turn(t, r) = r
           /\ r.i <= r.endpoint /\ Sky!Score(t, r.s[r.i]) >= 1 =>
                /\ Sky!Turn(t, r).s = Sky!Shifted(r.s, r.i, r.endpoint, r.pos)
                /\ Sky!Turn(t, r).i = r.i
                /\ Sky!Turn(t, r).endpoint = r.endpoint - 1
                /\ Sky!Turn(t, r).pos = r.pos - 1
           /\ r.i <= r.endpoint /\ ~(Sky!Score(t, r.s[r.i]) >= 1) =>
                /\ Sky!Turn(t, r).s = r.s
                /\ Sky!Turn(t, r).i = r.i + 1
                /\ Sky!Turn(t, r).endpoint = r.endpoint
                /\ Sky!Turn(t, r).pos = r.pos
<1>1. PICK n : n = Len(q)
  OBVIOUS
<1>2. n \in Nat /\ e \in 0..n
  BY <1>1, LenProperties
<1>3. PICK s, i, endpoint, pos : s = r.s /\ i = r.i /\ endpoint = r.endpoint /\ pos = r.pos
  OBVIOUS
<1>4. /\ s \in Seq(Tuple) /\ Len(s) = n /\ i \in 1..(e + 1) /\ endpoint \in 0..e
      /\ i <= endpoint + 1 /\ pos = n - (e - endpoint)
      /\ r = [s |-> s, i |-> i, endpoint |-> endpoint, pos |-> pos]
  BY <1>1, <1>3 DEF ScanState
<1>5. pos \in Nat /\ endpoint <= pos /\ pos <= n
  BY ONLY <1>2, <1>4
<1>6. CASE i > endpoint
  BY <1>3, <1>6, <1>4, <1>5 DEF Sky!Turn
<1>7. CASE i <= endpoint /\ Sky!Score(t, s[i]) >= 1
  <2>1. PICK d : d = Sky!Shifted(s, i, endpoint, pos)
    OBVIOUS
  <2>2. i \in 1..endpoint /\ endpoint \in 1..pos /\ pos \in 1..n
    BY ONLY <1>2, <1>4, <1>5, <1>7
  <2>3. d \in Seq(Tuple) /\ Len(d) = n
    BY <1>4, <2>1, <2>2, ShiftedPlaces
  <2>4. PICK u : u = [s |-> d, i |-> i, endpoint |-> endpoint - 1, pos |-> pos - 1]
    OBVIOUS
  <2>5. Sky!Turn(t, r) = u
    <3>1. ~(r.i > r.endpoint) /\ Sky!Score(t, r.s[r.i]) >= 1
      BY ONLY <1>2, <1>3, <1>4, <1>7
    <3>2. Sky!Turn(t, r) = [r EXCEPT !.s = Sky!Shifted(r.s, r.i, r.endpoint, r.pos),
                                     !.endpoint = r.endpoint - 1, !.pos = r.pos - 1]
      BY ONLY <3>1, Zenon DEF Sky!Turn
    <3>3. Sky!Turn(t, r) = [r EXCEPT !.s = d, !.endpoint = endpoint - 1, !.pos = pos - 1]
      BY ONLY <1>3, <2>1, <3>2
    <3> QED
      BY ONLY <1>4, <2>4, <3>3
  <2>6. u \in ScanState(q, e)
    <3>1. /\ i \in Nat /\ i \in 1..(e + 1) /\ endpoint - 1 \in 0..e
          /\ i <= (endpoint - 1) + 1 /\ pos - 1 \in Nat
          /\ pos - 1 = n - (e - (endpoint - 1)) /\ endpoint - 1 \in Nat
      BY ONLY <1>2, <1>4, <1>5, <2>2
    <3> QED
      BY <1>1, <2>3, <2>4, <3>1 DEF ScanState
  <2>7. /\ u.s = Sky!Shifted(r.s, r.i, r.endpoint, r.pos) /\ u.i = r.i
        /\ u.endpoint = r.endpoint - 1 /\ u.pos = r.pos - 1
    BY <1>3, <2>1, <2>4
  <2>8. ~(r.i > r.endpoint) /\ Sky!Score(t, r.s[r.i]) >= 1
    BY ONLY <1>2, <1>3, <1>4, <1>7
  <2> QED
    BY ONLY <2>5, <2>6, <2>7, <2>8
<1>8. CASE i <= endpoint /\ ~(Sky!Score(t, s[i]) >= 1)
  <2>1. PICK u : u = [s |-> s, i |-> i + 1, endpoint |-> endpoint, pos |-> pos]
    OBVIOUS
  <2>2. Sky!Turn(t, r) = u
    BY <1>4, <1>8, <2>1 DEF Sky!Turn
  <2>3. u \in ScanState(q, e)
    <3>1. /\ i + 1 \in Nat /\ i + 1 \in 1..(e + 1) /\ endpoint \in Nat
          /\ i + 1 <= endpoint + 1
      BY ONLY <1>2, <1>4, <1>5, <1>8
    <3> QED
      BY <1>1, <1>4, <1>5, <2>1, <3>1 DEF ScanState
  <2> QED
    BY <1>3, <1>4, <1>8, <2>1, <2>2, <2>3
<1>9. i > endpoint \/ i <= endpoint
  BY ONLY <1>2, <1>4
<1> QED
  BY <1>6, <1>7, <1>8, <1>9

\* The first state of the loop, and the states that its turns go through.
ScanStart(q, e) == [s |-> q, i |-> 1, endpoint |-> e, pos |-> Len(q)]
ScanTurns(t, q, e, v) ==
    /\ v \in [0..e -> ScanState(q, e)]
    /\ v[0] = ScanStart(q, e)
    /\ \A k \in 1..e : v[k] = Sky!Turn(t, v[k - 1])
    /\ Sky!Scan(t, [s |-> q, endpoint |-> e]) = v[e]

\* The loop goes through such states.
LEMMA ScanHasTurns ==
    ASSUME NEW t, NEW q \in Seq(Tuple), NEW e \in 0..Len(q)
    PROVE  \E v : ScanTurns(t, q, e, v)
<1> DEFINE Y == ScanState(q, e)
           F == [di \in Y \X (1..e) |-> Sky!Turn(t, di[1])]
<1>1. e \in Nat /\ Len(q) \in Nat
  BY LenProperties
<1>2. PICK b : b = ScanStart(q, e)
  OBVIOUS
<1>3. b \in Y
  BY <1>1, <1>2 DEF ScanState, ScanStart
<1>4. ASSUME NEW d \in Y PROVE Sky!Turn(t, d) \in Y
  BY TurnType
<1> HIDE DEF Y
<1>5. F \in [Y \X (1..e) -> Y]
  BY <1>4
<1> HIDE DEF F
<1>6. PICK h \in [SUBSET (1..e) -> Y] : FoldValues(h, F, b, e)
  BY <1>1, <1>3, <1>5, FoldExists
<1>7. h = [w \in SUBSET (1..e) |->
             IF w = {} THEN b ELSE Sky!Turn(t, h[w \ {Max(w)}])]
  <2>1. ASSUME NEW w \in SUBSET (1..e), w # {}
        PROVE  F[<<h[w \ {Max(w)}], Max(w)>>] = Sky!Turn(t, h[w \ {Max(w)}])
    <3>1. w \in SUBSET (0..e)
      OBVIOUS
    <3>2. Max(w) \in 1..e
      BY <1>1, <2>1, <3>1, GreatestElement
    <3>3. PICK a : a = Max(w)
      OBVIOUS
    <3>4. PICK d : d = h[w \ {a}]
      OBVIOUS
    <3>5. d \in Y /\ a \in 1..e
      BY <3>2, <3>3, <3>4
    <3>6. F[<<d, a>>] = Sky!Turn(t, d)
      BY <3>5 DEF F
    <3> QED
      BY <3>3, <3>4, <3>6
  <2> QED
    BY <1>6, <2>1 DEF FoldValues
<1>8. PICK g : g = CHOOSE f : f = [w \in SUBSET (1..e) |->
                  IF w = {} THEN b ELSE Sky!Turn(t, f[w \ {Max(w)}])]
  OBVIOUS
<1>9. g = [w \in SUBSET (1..e) |->
             IF w = {} THEN b ELSE Sky!Turn(t, g[w \ {Max(w)}])]
  BY <1>7, <1>8
<1>10. Sky!Scan(t, [s |-> q, endpoint |-> e]) = g[1..e]
  BY <1>2, <1>8 DEF Sky!Scan, ScanStart, Sky!FoldLeft, Sky!MapThenFoldSet, Sky!Max, Max, Sky!Len
<1>11. /\ g[{}] = b /\ 1..0 = {}
       /\ \A k \in 1..e : g[1..k] = Sky!Turn(t, g[1..(k - 1)])
  <2>1. 1..0 = {} /\ g[{}] = b
    BY <1>1, <1>9, Segments
  <2>2. ASSUME NEW k \in 1..e PROVE g[1..k] = Sky!Turn(t, g[1..(k - 1)])
    <3>1. 1..k \in SUBSET (1..e) /\ 1..k # {} /\ Max(1..k) = k /\ (1..k) \ {k} = 1..(k - 1)
      BY <1>1, Segments
    <3> QED
      BY <1>9, <3>1
  <2> QED
    BY <2>1, <2>2
<1> DEFINE v == [k \in 0..e |-> g[1..k]]
<1>12. v[0] = b /\ \A k \in 1..e : v[k] = Sky!Turn(t, v[k - 1])
  <2>1. ASSUME NEW k \in 1..e PROVE k \in 0..e /\ k - 1 \in 0..e
    BY <1>1
  <2> QED
    BY <1>1, <1>11, <2>1
<1>13. v[e] = g[1..e]
  BY <1>1
<1>14. DOMAIN v = 0..e /\ v = [k \in 0..e |-> v[k]]
  OBVIOUS
<1> HIDE DEF v
<1>15. ASSUME NEW k \in 0..e PROVE v[k] \in Y
  <2> DEFINE Q == {j \in 0..e : v[j] \in Y}
  <2>1. 0 \in Q
    BY <1>1, <1>3, <1>12
  <2>2. ASSUME NEW j \in 1..e, j - 1 \in Q PROVE j \in Q
    BY <1>4, <1>12, <2>2
  <2>3. Q \in SUBSET (0..e)
    OBVIOUS
  <2> HIDE DEF Q
  <2>4. Q = 0..e
    BY <1>1, <2>1, <2>2, <2>3, TurnsInduction
  <2> QED
    BY <2>4 DEF Q
<1>16. v \in [0..e -> Y]
  BY <1>14, <1>15
<1> QED
  BY <1>2, <1>10, <1>12, <1>13, <1>16 DEF ScanTurns, Y

\* How far the loop has come: the tuples q were given, the first e to be compared
\* with t.  Behind endpoint are those not to be compared, before i those that t
\* does not beat.
Scanned(t, q, e, r) ==
    /\ \A i, j \in 1..r.pos : r.s[i] = r.s[j] => i = j
    /\ \A j \in 1..(r.i - 1) : ~Beats(t, r.s[j])
    /\ \A j \in (r.endpoint + 1)..r.pos : \E h \in (e + 1)..Len(q) : r.s[j] = q[h]
    /\ \A h \in (e + 1)..Len(q) : \E j \in (r.endpoint + 1)..r.pos : r.s[j] = q[h]
    /\ \A j \in 1..r.endpoint : \E h \in 1..e : r.s[j] = q[h]
    /\ \A h \in 1..e : Beats(t, q[h]) \/ \E j \in 1..r.endpoint : r.s[j] = q[h]

\* A turn that shifts a tuple keeps this.
LEMMA ShiftScanned ==
    ASSUME NEW t \in Tuple, NEW q \in Seq(Tuple), NEW e \in 0..Len(q),
           NEW r \in ScanState(q, e), Scanned(t, q, e, r),
           r.i <= r.endpoint, Beats(t, r.s[r.i]),
           NEW u \in ScanState(q, e), u.s = Sky!Shifted(r.s, r.i, r.endpoint, r.pos),
           u.i = r.i, u.endpoint = r.endpoint - 1, u.pos = r.pos - 1
    PROVE  Scanned(t, q, e, u)
<1>1. PICK n : n = Len(q)
  OBVIOUS
<1>2. PICK s, i, endpoint, pos : s = r.s /\ i = r.i /\ endpoint = r.endpoint /\ pos = r.pos
  OBVIOUS
<1>3. PICK d : d = u.s
  OBVIOUS
<1>4. /\ n \in Nat /\ e \in 0..n /\ i \in 1..endpoint /\ endpoint \in 1..pos
      /\ pos \in 1..n /\ s \in Seq(Tuple) /\ Len(s) = n
      /\ endpoint <= e /\ pos = n - (e - endpoint)
  <2>1. /\ s \in Seq(Tuple) /\ Len(s) = n /\ i \in 1..(e + 1) /\ endpoint \in 0..e
        /\ i <= endpoint /\ pos = n - (e - endpoint)
    BY <1>1, <1>2 DEF ScanState
  <2>2. n \in Nat /\ e \in 0..n
    BY <1>1, LenProperties
  <2>3. i \in 1..endpoint /\ endpoint \in 1..pos /\ pos \in 1..n /\ endpoint <= e
    BY ONLY <2>1, <2>2
  <2> QED
    BY ONLY <2>1, <2>2, <2>3
<1>5. \A j \in 1..n : d[j] = IF j = endpoint THEN s[pos] ELSE IF j = i THEN s[endpoint] ELSE s[j]
  <2>1. d = Sky!Shifted(s, i, endpoint, pos) /\ Len(s) = n
    BY <1>2, <1>3, <1>4
  <2>2. LET z == Sky!Shifted(s, i, endpoint, pos)
        IN \A j \in 1..Len(s) : z[j] = IF j = endpoint THEN s[pos]
                                       ELSE IF j = i THEN s[endpoint] ELSE s[j]
    BY <1>4, ShiftedPlaces
  <2> QED
    BY ONLY <2>1, <2>2
<1>6. /\ \A k, j \in 1..pos : s[k] = s[j] => k = j
      /\ \A j \in 1..(i - 1) : ~Beats(t, s[j])
      /\ \A j \in (endpoint + 1)..pos : \E h \in (e + 1)..n : s[j] = q[h]
      /\ \A h \in (e + 1)..n : \E j \in (endpoint + 1)..pos : s[j] = q[h]
      /\ \A j \in 1..endpoint : \E h \in 1..e : s[j] = q[h]
      /\ \A h \in 1..e : Beats(t, q[h]) \/ \E j \in 1..endpoint : s[j] = q[h]
  BY <1>1, <1>2 DEF Scanned
<1>7. Beats(t, s[i])
  BY <1>2
\* The place from which the tuple of a place has come.
<1> DEFINE from == [j \in 1..n |-> IF j = endpoint THEN pos ELSE IF j = i THEN endpoint ELSE j]
<1>8. \A j \in 1..(pos - 1) : d[j] = s[from[j]] /\ from[j] \in 1..pos
  <2> SUFFICES ASSUME NEW j \in 1..(pos - 1)
               PROVE  d[j] = s[from[j]] /\ from[j] \in 1..pos
    OBVIOUS
  <2>1. j \in 1..n /\ from[j] = IF j = endpoint THEN pos ELSE IF j = i THEN endpoint ELSE j
    BY <1>4
  <2> HIDE DEF from
  <2>2. from[j] \in 1..pos
    <3>1. PICK f : f = from[j]
      OBVIOUS
    <3>2. f = IF j = endpoint THEN pos ELSE IF j = i THEN endpoint ELSE j
      BY <2>1, <3>1
    <3>3. f \in 1..pos
      BY ONLY <1>4, <3>2, j \in 1..(pos - 1)
    <3> QED
      BY <3>1, <3>3
  <2> QED
    BY <1>5, <2>1, <2>2
<1>9. \A k, j \in 1..(pos - 1) : from[k] = from[j] => k = j
  <2> SUFFICES ASSUME NEW k \in 1..(pos - 1), NEW j \in 1..(pos - 1), from[k] = from[j]
               PROVE  k = j
    OBVIOUS
  <2>1. /\ from[j] = IF j = endpoint THEN pos ELSE IF j = i THEN endpoint ELSE j
        /\ from[k] = IF k = endpoint THEN pos ELSE IF k = i THEN endpoint ELSE k
    BY <1>4
  <2> HIDE DEF from
  <2> QED
    BY <1>4, <2>1
<1> HIDE DEF from
<1>10. \A k, j \in 1..(pos - 1) : d[k] = d[j] => k = j
  <2> SUFFICES ASSUME NEW k \in 1..(pos - 1), NEW j \in 1..(pos - 1), d[k] = d[j]
               PROVE  k = j
    OBVIOUS
  <2>1. s[from[k]] = s[from[j]] /\ from[k] \in 1..pos /\ from[j] \in 1..pos
    BY <1>8
  <2>2. from[k] = from[j]
    BY <1>6, <2>1
  <2> QED
    BY <1>9, <2>2
<1>11. \A j \in 1..(i - 1) : ~Beats(t, d[j])
  <2> SUFFICES ASSUME NEW j \in 1..(i - 1) PROVE ~Beats(t, d[j])
    OBVIOUS
  <2>1. j \in 1..n /\ j # endpoint /\ j # i
    BY <1>4
  <2> QED
    BY <1>5, <1>6, <2>1
<1>12. \A j \in endpoint..(pos - 1) : \E h \in (e + 1)..n : d[j] = q[h]
  <2> SUFFICES ASSUME NEW j \in endpoint..(pos - 1)
               PROVE  \E k \in (endpoint + 1)..pos : d[j] = s[k]
    BY <1>6
  <2>1. CASE j = endpoint
    BY <1>4, <1>5, <2>1
  <2>2. CASE j # endpoint
    <3>1. j \in 1..n /\ j # i /\ j \in (endpoint + 1)..pos
      BY <1>4, <2>2
    <3> QED
      BY <1>5, <2>2, <3>1
  <2> QED
    BY <2>1, <2>2
<1>13. \A h \in (e + 1)..n : \E j \in endpoint..(pos - 1) : d[j] = q[h]
  <2> SUFFICES ASSUME NEW k \in (endpoint + 1)..pos
               PROVE  \E j \in endpoint..(pos - 1) : d[j] = s[k]
    BY <1>6
  <2>1. CASE k = pos
    <3>1. endpoint \in endpoint..(pos - 1) /\ endpoint \in 1..n
      BY <1>4, <2>1
    <3> QED
      BY <1>5, <2>1, <3>1
  <2>2. CASE k # pos
    <3>1. k \in endpoint..(pos - 1) /\ k \in 1..n /\ k # endpoint /\ k # i
      BY <1>4, <2>2
    <3> QED
      BY <1>5, <3>1
  <2> QED
    BY <2>1, <2>2
<1>14. \A j \in 1..(endpoint - 1) : \E h \in 1..e : d[j] = q[h]
  <2> SUFFICES ASSUME NEW j \in 1..(endpoint - 1)
               PROVE  \E k \in 1..endpoint : d[j] = s[k]
    BY <1>6
  <2>1. j \in 1..n /\ j # endpoint /\ j \in 1..endpoint /\ endpoint \in 1..endpoint
    BY <1>4
  <2> QED
    BY <1>5, <2>1
<1>15. \A h \in 1..e : Beats(t, q[h]) \/ \E j \in 1..(endpoint - 1) : d[j] = q[h]
  <2> SUFFICES ASSUME NEW h \in 1..e, ~Beats(t, q[h])
               PROVE  \E j \in 1..(endpoint - 1) : d[j] = q[h]
    OBVIOUS
  <2>1. PICK k \in 1..endpoint : s[k] = q[h]
    BY <1>6
  <2>2. k # i
    BY <1>7, <2>1
  <2>3. CASE k = endpoint
    <3>1. i \in 1..(endpoint - 1) /\ i \in 1..n /\ i # endpoint
      BY <1>4, <2>2, <2>3
    <3> QED
      BY <1>5, <2>1, <2>3, <3>1
  <2>4. CASE k # endpoint
    <3>1. k \in 1..(endpoint - 1) /\ k \in 1..n
      BY <1>4, <2>4
    <3> QED
      BY <1>5, <2>1, <2>2, <2>4, <3>1
  <2> QED
    BY <2>3, <2>4
<1>16. /\ u.s = d /\ u.i = i /\ u.endpoint = endpoint - 1 /\ u.pos = pos - 1
       /\ (endpoint - 1) + 1 = endpoint /\ Len(q) = n
  BY <1>1, <1>2, <1>3, <1>4
<1> QED
  BY ONLY <1>10, <1>11, <1>12, <1>13, <1>14, <1>15, <1>16 DEF Scanned

\* So does a turn that passes a tuple.
LEMMA PassScanned ==
    ASSUME NEW t \in Tuple, NEW q \in Seq(Tuple), NEW e \in 0..Len(q),
           NEW r \in ScanState(q, e), Scanned(t, q, e, r),
           r.i <= r.endpoint, ~Beats(t, r.s[r.i]),
           NEW u \in ScanState(q, e), u.s = r.s,
           u.i = r.i + 1, u.endpoint = r.endpoint, u.pos = r.pos
    PROVE  Scanned(t, q, e, u)
<1>1. r.i \in Nat
  BY DEF ScanState
<1>2. \A j \in 1..(u.i - 1) : j = r.i \/ j \in 1..(r.i - 1)
  BY <1>1
<1>3. \A j \in 1..(u.i - 1) : ~Beats(t, u.s[j])
  BY <1>2 DEF Scanned
<1> QED
  BY <1>3 DEF Scanned

\* The first e tuples of q that t does not beat, in the places up to endpoint, and
\* the others behind them.
Kept(t, q, e, s, endpoint) ==
    /\ s \in Seq(Tuple) /\ endpoint \in 0..Len(s) /\ Distinct(s)
    /\ {s[j] : j \in 1..endpoint} = {a \in {q[h] : h \in 1..e} : ~Beats(t, a)}
    /\ {s[j] : j \in (endpoint + 1)..Len(s)} = {q[h] : h \in (e + 1)..Len(q)}

\* That is what the loop returns.
LEMMA ScanKeeps ==
    ASSUME NEW t \in Tuple, NEW q \in Seq(Tuple), NEW e \in 0..Len(q), Distinct(q)
    PROVE  LET r == Sky!Scan(t, [s |-> q, endpoint |-> e])
           IN Kept(t, q, e, SubSeq(r.s, 1, r.pos), r.endpoint)
<1>1. PICK v : ScanTurns(t, q, e, v)
  BY ScanHasTurns
<1>2. PICK n : n = Len(q)
  OBVIOUS
<1>3. n \in Nat /\ e \in 0..n /\ e \in Nat
  BY <1>2, LenProperties
\* The tuples that the loop is through with.
<1> DEFINE Q == {k \in 0..e : /\ Scanned(t, q, e, v[k])
                             /\ \/ v[k].i > v[k].endpoint
                                \/ (v[k].i - 1) + (e - v[k].endpoint) = k}
<1>4. 0 \in Q
  <2>1. PICK b : b = v[0]
    OBVIOUS
  <2>2. b = [s |-> q, i |-> 1, endpoint |-> e, pos |-> n]
    BY <1>1, <1>2, <2>1 DEF ScanTurns, ScanStart
  <2>3. /\ \A i, j \in 1..n : q[i] = q[j] => i = j
        /\ \A j \in 1..(1 - 1) : FALSE
    BY <1>2 DEF Distinct
  <2>4. Scanned(t, q, e, b)
    BY ONLY <1>2, <1>3, <2>2, <2>3 DEF Scanned
  <2>5. (b.i - 1) + (e - b.endpoint) = 0
    BY <1>3, <2>2
  <2> QED
    BY <1>3, <2>1, <2>4, <2>5
<1>5. ASSUME NEW k \in 1..e, k - 1 \in Q PROVE k \in Q
  <2>1. PICK r : r = v[k - 1]
    OBVIOUS
  <2>2. PICK u : u = v[k]
    OBVIOUS
  <2>3. r \in ScanState(q, e) /\ u \in ScanState(q, e) /\ u = Sky!Turn(t, r)
    <3>1. k - 1 \in 0..e /\ k \in 0..e
      BY <1>3
    <3> QED
      BY <1>1, <2>1, <2>2, <3>1 DEF ScanTurns
  <2>4. /\ Scanned(t, q, e, r)
        /\ r.i > r.endpoint \/ (r.i - 1) + (e - r.endpoint) = k - 1
    BY <1>5, <2>1
  <2>5. r.s \in Seq(Tuple) /\ r.i \in Nat /\ r.endpoint \in Nat /\ r.endpoint <= Len(r.s) /\ r.i >= 1
    BY <2>3, <1>2, <1>3 DEF ScanState
  <2>6. CASE r.i > r.endpoint
    <3>1. u = r
      BY <2>3, <2>6, TurnType
    <3>2. k \in 0..e /\ Scanned(t, q, e, v[k]) /\ v[k].i > v[k].endpoint
      BY <1>3, <2>2, <2>4, <2>6, <3>1
    <3> QED
      BY <3>2
  <2>7. CASE r.i <= r.endpoint /\ Sky!Score(t, r.s[r.i]) >= 1
    <3>1. /\ u.s = Sky!Shifted(r.s, r.i, r.endpoint, r.pos)
          /\ u.i = r.i /\ u.endpoint = r.endpoint - 1 /\ u.pos = r.pos - 1
      BY <2>3, <2>7, TurnType
    <3>2. r.s[r.i] \in Tuple
      BY <2>5, <2>7
    <3>3. Beats(t, r.s[r.i])
      BY <2>7, <3>2, ScoreBeats
    <3>4. Scanned(t, q, e, u)
      BY <2>3, <2>4, <2>7, <3>1, <3>3, ShiftScanned
    <3>5. (u.i - 1) + (e - u.endpoint) = k
      <4>1. PICK i, f : i = r.i /\ f = r.endpoint
        OBVIOUS
      <4>2. i \in Nat /\ f \in Nat /\ i <= f /\ (i > f \/ (i - 1) + (e - f) = k - 1)
        BY <2>4, <2>5, <2>7, <4>1
      <4>3. (i - 1) + (e - (f - 1)) = k
        BY ONLY <1>3, k \in 1..e, <4>2
      <4> QED
        BY <3>1, <4>1, <4>3
    <3> QED
      BY <2>2, <3>4, <3>5
  <2>8. CASE r.i <= r.endpoint /\ ~(Sky!Score(t, r.s[r.i]) >= 1)
    <3>1. u.s = r.s /\ u.i = r.i + 1 /\ u.endpoint = r.endpoint /\ u.pos = r.pos
      BY <2>3, <2>8, TurnType
    <3>2. r.s[r.i] \in Tuple
      BY <2>5, <2>8
    <3>3. ~Beats(t, r.s[r.i])
      BY <2>8, <3>2, ScoreBeats
    <3>4. Scanned(t, q, e, u)
      BY <2>3, <2>4, <2>8, <3>1, <3>3, PassScanned
    <3>5. (u.i - 1) + (e - u.endpoint) = k
      <4>1. PICK i, f : i = r.i /\ f = r.endpoint
        OBVIOUS
      <4>2. i \in Nat /\ f \in Nat /\ i <= f /\ (i > f \/ (i - 1) + (e - f) = k - 1)
        BY <2>4, <2>5, <2>8, <4>1
      <4>3. ((i + 1) - 1) + (e - f) = k
        BY ONLY <1>3, k \in 1..e, <4>2
      <4> QED
        BY <3>1, <4>1, <4>3
    <3> QED
      BY <2>2, <3>4, <3>5
  <2> QED
    BY <2>5, <2>6, <2>7, <2>8
<1>6. e \in Q
  <2>1. Q \in SUBSET (0..e)
    OBVIOUS
  <2> HIDE DEF Q
  <2>2. Q = 0..e
    BY <1>3, <1>4, <1>5, <2>1, TurnsInduction
  <2> QED
    BY <1>3, <2>2
<1>7. PICK r : r = v[e]
  OBVIOUS
<1>8. r = Sky!Scan(t, [s |-> q, endpoint |-> e]) /\ r \in ScanState(q, e)
  BY <1>1, <1>3, <1>7 DEF ScanTurns
<1>9. Scanned(t, q, e, r) /\ (r.i > r.endpoint \/ (r.i - 1) + (e - r.endpoint) = e)
  BY <1>6, <1>7
<1> HIDE DEF Q
<1>10. PICK endpoint, pos : endpoint = r.endpoint /\ pos = r.pos
  OBVIOUS
<1>11. /\ endpoint \in 0..e /\ pos \in 0..n /\ endpoint <= pos /\ r.i = endpoint + 1
       /\ r.s \in Seq(Tuple) /\ Len(r.s) = n
  <2>1. /\ r.s \in Seq(Tuple) /\ Len(r.s) = n /\ r.i \in 1..(e + 1) /\ endpoint \in 0..e
        /\ r.i <= endpoint + 1 /\ pos = n - (e - endpoint)
    BY <1>2, <1>8, <1>10 DEF ScanState
  <2>2. r.i > endpoint \/ (r.i - 1) + (e - endpoint) = e
    BY <1>9, <1>10
  <2>3. PICK i : i = r.i
    OBVIOUS
  <2>4. /\ endpoint \in 0..e /\ pos \in 0..n /\ endpoint <= pos /\ i = endpoint + 1
    BY ONLY <1>3, <2>1, <2>2, <2>3
  <2> QED
    BY <2>1, <2>3, <2>4
<1>12. PICK s : s = SubSeq(r.s, 1, pos)
  OBVIOUS
<1>13. /\ s \in Seq(Tuple) /\ Len(s) = pos
       /\ \A j \in 1..pos : s[j] = r.s[j]
  <2>1. \A i \in 1..pos : r.s[i] \in Tuple
    BY <1>3, <1>11
  <2>2. /\ SubSeq(r.s, 1, pos) \in Seq(Tuple)
        /\ Len(SubSeq(r.s, 1, pos)) = IF 1 <= pos THEN pos - 1 + 1 ELSE 0
        /\ \A i \in 1..(pos - 1 + 1) : SubSeq(r.s, 1, pos)[i] = r.s[1 + i - 1]
    BY <2>1, <1>3, <1>11, SubSeqProperties
  <2> QED
    BY <2>2, <1>3, <1>11, <1>12
<1>14. Distinct(s)
  BY <1>9, <1>10, <1>13 DEF Distinct, Scanned
<1>15. {s[j] : j \in 1..endpoint} = {a \in {q[h] : h \in 1..e} : ~Beats(t, a)}
  <2>1. \A j \in 1..endpoint : s[j] = r.s[j]
    BY <1>3, <1>11, <1>13
  <2>2. r.i - 1 = endpoint
    BY <1>3, <1>11
  <2>3. \A j \in 1..endpoint : ~Beats(t, s[j]) /\ \E h \in 1..e : s[j] = q[h]
    BY <1>9, <1>10, <2>1, <2>2 DEF Scanned
  <2>4. \A h \in 1..e : ~Beats(t, q[h]) => \E j \in 1..endpoint : s[j] = q[h]
    BY <1>9, <1>10, <2>1 DEF Scanned
  <2>5. ASSUME NEW x
        PROVE  (\E j \in 1..endpoint : x = s[j]) <=>
                  (\E h \in 1..e : x = q[h]) /\ ~Beats(t, x)
    BY ONLY <2>3, <2>4
  <2> QED
    BY ONLY <2>5
<1>16. {s[j] : j \in (endpoint + 1)..pos} = {q[h] : h \in (e + 1)..n}
  <2>1. \A j \in (endpoint + 1)..pos : s[j] = r.s[j]
    BY <1>3, <1>11, <1>13
  <2>2. \A j \in (endpoint + 1)..pos : \E h \in (e + 1)..n : s[j] = q[h]
    BY <1>2, <1>9, <1>10, <2>1 DEF Scanned
  <2>3. \A h \in (e + 1)..n : \E j \in (endpoint + 1)..pos : s[j] = q[h]
    BY <1>2, <1>9, <1>10, <2>1 DEF Scanned
  <2>4. ASSUME NEW x
        PROVE  (\E j \in (endpoint + 1)..pos : x = s[j]) <=>
                  \E h \in (e + 1)..n : x = q[h]
    BY ONLY <2>2, <2>3
  <2> QED
    BY ONLY <2>4
<1>17. endpoint \in 0..pos
  BY <1>3, <1>11
<1>18. Kept(t, q, e, s, endpoint)
  BY ONLY <1>2, <1>13, <1>14, <1>15, <1>16, <1>17 DEF Kept
<1> QED
  BY <1>8, <1>10, <1>12, <1>18

-----------------------------------------------------------------------------
(* Tuples come                                                             *)

\* The tuples of q that are compared when the first e are, and the others.
First(q, e) == {q[j] : j \in 1..e}
Rest(q, e) == {q[j] : j \in (e + 1)..Len(q)}

\* What becomes of the first e tuples of q, and of the others, when t comes.
Updated(t, q, e, d) ==
    /\ d \in [s : Seq(Tuple), endpoint : Nat] /\ d.endpoint \in 0..Len(d.s)
    /\ Distinct(d.s)
    /\ First(d.s, d.endpoint) = {a \in First(q, e) : ~Beats(t, a)}
    /\ Rest(d.s, d.endpoint) =
          Rest(q, e) \cup {a \in {t} : \A b \in First(q, e) : ~Beats(b, t)}

\* A sequence that gets one tuple more.
LEMMA AppendPlaces ==
    ASSUME NEW q \in Seq(Tuple), NEW t \in Tuple, NEW e \in 0..Len(q), Distinct(q),
           t \notin Image(q)
    PROVE  /\ Append(q, t) \in Seq(Tuple) /\ Distinct(Append(q, t))
           /\ e \in 0..Len(Append(q, t))
           /\ First(Append(q, t), e) = First(q, e)
           /\ Rest(Append(q, t), e) = Rest(q, e) \cup {t}
<1>1. PICK n : n = Len(q)
  OBVIOUS
<1>2. PICK a : a = Append(q, t)
  OBVIOUS
<1>3. /\ n \in Nat /\ e \in 0..n /\ a \in Seq(Tuple) /\ Len(a) = n + 1
      /\ \A j \in 1..n : a[j] = q[j]
      /\ a[n + 1] = t
  BY <1>1, <1>2, LenProperties, AppendProperties
<1>4. \A i, j \in 1..(n + 1) : a[i] = a[j] => i = j
  <2> SUFFICES ASSUME NEW i \in 1..(n + 1), NEW j \in 1..(n + 1), a[i] = a[j]
               PROVE  i = j
    OBVIOUS
  <2>1. \A k \in 1..n : q[k] # t
    BY <1>1 DEF Image
  <2>2. \A k, l \in 1..n : q[k] = q[l] => k = l
    BY <1>1 DEF Distinct
  <2>3. (i \in 1..n \/ i = n + 1) /\ (j \in 1..n \/ j = n + 1)
    BY <1>3
  <2> QED
    BY <1>3, <2>1, <2>2, <2>3
<1>5. First(a, e) = First(q, e)
  <2>1. \A j \in 1..e : a[j] = q[j]
    BY <1>3
  <2> QED
    BY <2>1 DEF First
<1>6. Rest(a, e) = Rest(q, e) \cup {t}
  <2>1. ASSUME NEW x
        PROVE  (\E j \in (e + 1)..(n + 1) : x = a[j]) <=>
                  (\E j \in (e + 1)..n : x = q[j]) \/ x = t
    <3>1. \A j \in (e + 1)..(n + 1) : j = n + 1 \/ (j \in (e + 1)..n /\ j \in 1..n)
      BY <1>3
    <3>2. \A j \in (e + 1)..n : j \in (e + 1)..(n + 1) /\ j \in 1..n
      BY <1>3
    <3>3. n + 1 \in (e + 1)..(n + 1)
      BY <1>3
    <3> QED
      BY <1>3, <3>1, <3>2, <3>3
  <2> QED
    BY <1>1, <1>3, <2>1 DEF Rest
<1> QED
  BY <1>2, <1>3, <1>4, <1>5, <1>6 DEF Distinct

\* The first and the others are all.
LEMMA FirstAndRest ==
    ASSUME NEW S, NEW q \in Seq(S), NEW e \in 0..Len(q)
    PROVE  /\ Image(q) = First(q, e) \cup Rest(q, e)
           /\ First(q, Len(q)) = Image(q) /\ Rest(q, Len(q)) = {}
           /\ Distinct(q) => First(q, e) \cap Rest(q, e) = {}
<1>1. PICK n : n = Len(q)
  OBVIOUS
<1>2. n \in Nat /\ e \in 0..n
  BY <1>1, LenProperties
<1>3. 1..n = 1..e \cup (e + 1)..n /\ (n + 1)..n = {}
  BY ONLY <1>2
<1>4. Distinct(q) => First(q, e) \cap Rest(q, e) = {}
  <2> SUFFICES ASSUME Distinct(q), NEW i \in 1..e, NEW j \in (e + 1)..n, q[i] = q[j]
               PROVE  FALSE
    BY <1>1 DEF First, Rest
  <2>1. i \in 1..n /\ j \in 1..n /\ i # j
    BY <1>2
  <2> QED
    BY <1>1, <2>1 DEF Distinct
<1> QED
  BY <1>1, <1>3, <1>4 DEF Image, First, Rest

\* That is what updateSkyline does with a tuple that is new.
LEMMA UpdateSkyline ==
    ASSUME NEW t \in Tuple, NEW q \in Seq(Tuple), NEW e \in 0..Len(q), Distinct(q),
           t \notin Image(q)
    PROVE  Updated(t, q, e, Sky!updateSkyline([s |-> q, endpoint |-> e], t))
<1>1. PICK c : c = [s |-> q, endpoint |-> e]
  OBVIOUS
<1>2. PICK r : r = Sky!Scan(t, c)
  OBVIOUS
<1>3. PICK kept, f : kept = SubSeq(r.s, 1, r.pos) /\ f = r.endpoint
  OBVIOUS
<1>4. Kept(t, q, e, kept, f)
  <2>1. LET z == Sky!Scan(t, [s |-> q, endpoint |-> e])
        IN Kept(t, q, e, SubSeq(z.s, 1, z.pos), z.endpoint)
    BY ScanKeeps
  <2> QED
    BY ONLY <1>1, <1>2, <1>3, <2>1
<1>5. /\ kept \in Seq(Tuple) /\ f \in 0..Len(kept) /\ Distinct(kept)
      /\ First(kept, f) = {a \in First(q, e) : ~Beats(t, a)}
      /\ Rest(kept, f) = Rest(q, e)
  BY <1>4 DEF Kept, First, Rest
<1>6. Image(q) = First(q, e) \cup Rest(q, e) /\ Image(kept) = First(kept, f) \cup Rest(kept, f)
  BY <1>5, FirstAndRest
<1>7. t \notin Image(kept)
  BY <1>5, <1>6
<1>8. PICK beaten \in BOOLEAN : beaten = (\E i \in 1..e : Sky!Score(q[i], t) >= 1)
  OBVIOUS
<1>9. beaten <=> \E b \in First(q, e) : Beats(b, t)
  <2>1. \A i \in 1..e : q[i] \in Tuple
    <3>1. \A i \in 1..e : i \in 1..Len(q)
      BY LenProperties
    <3> QED
      BY <3>1
  <2>2. \A i \in 1..e : Sky!Score(q[i], t) >= 1 <=> Beats(q[i], t)
    BY <2>1, ScoreBeats
  <2> QED
    BY <1>8, <2>2 DEF First
<1>10. PICK d : d = [s |-> IF beaten THEN kept ELSE Append(kept, t), endpoint |-> f]
  OBVIOUS
<1>11. Sky!updateSkyline(c, t) = d
  <2>1. beaten <=> \E i \in 1..c.endpoint : Sky!Score(c.s[i], t) >= 1
    BY <1>1, <1>8
  <2> QED
    BY <1>2, <1>3, <1>10, <2>1 DEF Sky!updateSkyline
<1>12. f \in Nat
  BY <1>5, LenProperties
<1>13. CASE beaten
  <2>1. d = [s |-> kept, endpoint |-> f]
    BY <1>10, <1>13
  <2>2. {a \in {t} : \A b \in First(q, e) : ~Beats(b, t)} = {}
    BY <1>9, <1>13
  <2> QED
    BY <1>1, <1>5, <1>11, <1>12, <2>1, <2>2 DEF Updated
<1>14. CASE ~beaten
  <2>1. PICK p : p = Append(kept, t)
    OBVIOUS
  <2>2. {a \in {t} : \A b \in First(q, e) : ~Beats(b, t)} = {t}
    BY <1>9, <1>14
  <2>3. /\ p \in Seq(Tuple) /\ Distinct(p) /\ f \in 0..Len(p)
        /\ First(p, f) = First(kept, f)
        /\ Rest(p, f) = Rest(kept, f) \cup {t}
    BY <1>5, <1>7, <2>1, AppendPlaces
  <2>4. d = [s |-> p, endpoint |-> f]
    BY <1>10, <1>14, <2>1
  <2>5. d \in [s : Seq(Tuple), endpoint : Nat] /\ d.s = p /\ d.endpoint = f
    BY <1>12, <2>3, <2>4
  <2>6. Updated(t, q, e, d)
    BY ONLY <1>5, <2>2, <2>3, <2>5 DEF Updated
  <2> QED
    BY <1>1, <1>11, <2>6
<1> QED
  BY <1>13, <1>14

\* A SkySet that holds the skyline of T and gets a tuple more holds the skyline of
\* T and that tuple.
LEMMA TupleHeld ==
    ASSUME NEW T \in SUBSET Tuple, NEW q \in Seq(Tuple), Holds(q, T),
           NEW t \in Tuple, t \notin T
    PROVE  /\ Sky!addComputeTuple(q, t) \in Seq(Tuple)
           /\ Holds(Sky!addComputeTuple(q, t), T \cup {t})
<1>1. PICK e : e = Len(q)
  OBVIOUS
<1>2. e \in 0..Len(q)
  BY <1>1, LenProperties
<1>3. PICK d : d = Sky!updateSkyline([s |-> q, endpoint |-> e], t)
  OBVIOUS
<1>4. Sky!addComputeTuple(q, t) = d.s
  BY <1>1, <1>3 DEF Sky!addComputeTuple, Sky!Len
<1>5. Distinct(q) /\ t \notin Image(q)
  BY DEF Holds
<1>6. Updated(t, q, e, d)
  BY <1>2, <1>3, <1>5, UpdateSkyline
<1>7. d.s \in Seq(Tuple) /\ d.endpoint \in 0..Len(d.s) /\ Distinct(d.s)
  BY <1>6 DEF Updated
<1>8. Image(d.s) = {a \in Image(q) : ~Beats(t, a)}
                      \cup {a \in {t} : \A b \in Image(q) : ~Beats(b, t)}
  <2>1. Image(d.s) = First(d.s, d.endpoint) \cup Rest(d.s, d.endpoint)
    BY <1>7, FirstAndRest
  <2>2. First(q, e) = Image(q) /\ Rest(q, e) = {}
    BY <1>1, <1>2, FirstAndRest
  <2> QED
    BY <1>6, <2>1, <2>2 DEF Updated
<1>9. PICK A, D : A = Image(q) /\ D = Image(d.s)
  OBVIOUS
<1>10. /\ A \subseteq T /\ \A a, b \in A : ~Beats(a, b)
       /\ \A u \in T : u \in A \/ \E a \in A : Beats(a, u)
  BY <1>9 DEF Holds
<1>11. D = {a \in A : ~Beats(t, a)} \cup {a \in {t} : \A b \in A : ~Beats(b, t)}
  BY <1>8, <1>9
<1>12. \A a, b \in D : ~Beats(a, b)
  BY <1>10, <1>11, BeatsOrder
\* What was beaten by a tuple that went is beaten by t, which has come then: what
\* beats t would beat that tuple.
<1>13. (\E a \in A : Beats(t, a)) => t \in D
  BY <1>10, <1>11, BeatsOrder
<1>14. \A u \in T \cup {t} : u \in D \/ \E a \in D : Beats(a, u)
  <2> SUFFICES ASSUME NEW u \in T \cup {t}, u \notin D PROVE \E a \in D : Beats(a, u)
    OBVIOUS
  <2>1. CASE u = t
    <3>1. PICK b \in A : Beats(b, t)
      BY <1>11, <2>1
    <3>2. ~Beats(t, b)
      BY <1>10, <3>1, BeatsOrder
    <3> QED
      BY <1>11, <2>1, <3>1, <3>2
  <2>2. CASE u \in A
    <3>1. Beats(t, u)
      BY <1>11, <2>2
    <3> QED
      BY <1>13, <2>2, <3>1
  <2>3. CASE u \in T \ A
    <3>1. PICK a \in A : Beats(a, u)
      BY <1>10, <2>3
    <3>2. CASE Beats(t, a)
      <4>1. Beats(t, u)
        BY <1>10, <2>3, <3>1, <3>2, BeatsOrder
      <4> QED
        BY <1>13, <3>2, <4>1
    <3>3. CASE ~Beats(t, a)
      BY <1>11, <3>1, <3>3
    <3> QED
      BY <3>2, <3>3
  <2> QED
    BY <2>1, <2>2, <2>3
<1>15. D \subseteq T \cup {t}
  BY <1>10, <1>11
<1> QED
  BY <1>4, <1>7, <1>9, <1>12, <1>14, <1>15 DEF Holds

-----------------------------------------------------------------------------
(* Results sets come                                                       *)

\* A fold from the left has the values g on the segments of 1..n, of which those
\* in Y go on with F.
FoldsSegments(g, F, b, n, Y) ==
    /\ g[{}] = b
    /\ \A k \in 1..n : g[1..(k - 1)] \in Y => g[1..k] = F[<<g[1..(k - 1)], k>>]

\* The values that it takes on one after the other.
FoldSteps(v, F, b, n, last) ==
    v[0] = b /\ (\A k \in 1..n : v[k] = F[<<v[k - 1], k>>]) /\ v[n] = last

\* All of them are in Y.
LEMMA FoldedStates ==
    ASSUME NEW n \in Nat, NEW Y, NEW F \in [Y \X (1..n) -> Y], NEW b \in Y,
           NEW h, FoldsSegments(h, F, b, n, Y)
    PROVE  \E v \in [0..n -> Y] : FoldSteps(v, F, b, n, h[1..n])
<1> DEFINE v == [k \in 0..n |-> h[1..k]]
           Q == {k \in 0..n : v[k] \in Y}
<1>1. v[0] = b
  BY Segments DEF FoldsSegments
<1>2. ASSUME NEW k \in 1..n, k - 1 \in Q PROVE k \in Q /\ v[k] = F[<<v[k - 1], k>>]
  <2>1. k \in 0..n /\ k - 1 \in 0..n /\ v[k] = h[1..k] /\ v[k - 1] = h[1..(k - 1)]
    OBVIOUS
  <2>2. v[k - 1] \in Y
    BY <1>2
  <2> HIDE DEF v
  <2>3. v[k] = F[<<v[k - 1], k>>]
    BY <2>1, <2>2 DEF FoldsSegments
  <2> QED
    BY <2>1, <2>2, <2>3
<1>3. Q = 0..n
  <2>1. Q \in SUBSET (0..n) /\ 0 \in Q
    BY <1>1
  <2> HIDE DEF Q
  <2> QED
    BY <1>2, <2>1, TurnsInduction
<1>4. v \in [0..n -> Y] /\ v[n] = h[1..n]
  <2>1. \A k \in 0..n : v[k] \in Y
    BY <1>3
  <2> QED
    BY <2>1
<1>5. \A k \in 1..n : v[k] = F[<<v[k - 1], k>>]
  <2> HIDE DEF v, Q
  <2> QED
    BY <1>2, <1>3
<1> HIDE DEF v
<1> QED
  BY <1>1, <1>4, <1>5 DEF FoldSteps

\* The states of a SkySet while the tuples of another one come.
SkyState == {d \in [s : Seq(Tuple), endpoint : Nat] : d.endpoint \in 0..Len(d.s)}

\* updateSkyline goes from one of them to another.
LEMMA UpdateType ==
    ASSUME NEW t \in Tuple, NEW c \in SkyState
    PROVE  Sky!updateSkyline(c, t) \in SkyState
<1>1. PICK q, e : q = c.s /\ e = c.endpoint
  OBVIOUS
<1>2. q \in Seq(Tuple) /\ e \in 0..Len(q) /\ c = [s |-> q, endpoint |-> e]
  BY <1>1 DEF SkyState
<1>3. PICK v : ScanTurns(t, q, e, v)
  BY <1>2, ScanHasTurns
<1>4. PICK r : r = v[e]
  OBVIOUS
<1>5. e \in Nat /\ Len(q) \in Nat
  BY <1>2, LenProperties
<1>6. r = Sky!Scan(t, c) /\ r \in ScanState(q, e)
  BY <1>2, <1>3, <1>4, <1>5 DEF ScanTurns
<1>7. PICK pos, f : pos = r.pos /\ f = r.endpoint
  OBVIOUS
<1>8. /\ r.s \in Seq(Tuple) /\ Len(r.s) = Len(q) /\ f \in 0..e
      /\ pos = Len(q) - (e - f)
  BY <1>6, <1>7 DEF ScanState
<1>9. pos \in 0..Len(q) /\ f \in 0..pos /\ f \in Nat
  <2>1. PICK n : n = Len(q)
    OBVIOUS
  <2>2. n \in Nat /\ e \in 0..n /\ f \in 0..e /\ pos = n - (e - f)
    BY <1>2, <1>5, <1>8, <2>1
  <2>3. pos \in 0..n /\ f \in 0..pos /\ f \in Nat
    BY ONLY <2>2
  <2> QED
    BY <2>1, <2>3
<1>10. PICK s : s = SubSeq(r.s, 1, pos)
  OBVIOUS
<1>11. s \in Seq(Tuple) /\ Len(s) = pos
  <2>1. \A i \in 1..pos : r.s[i] \in Tuple
    BY <1>5, <1>8, <1>9
  <2>2. /\ SubSeq(r.s, 1, pos) \in Seq(Tuple)
        /\ Len(SubSeq(r.s, 1, pos)) = IF 1 <= pos THEN pos - 1 + 1 ELSE 0
    BY <2>1, <1>9, SubSeqProperties
  <2> QED
    BY <2>2, <1>9, <1>10
<1>12. PICK a : a = Append(s, t)
  OBVIOUS
<1>13. a \in Seq(Tuple) /\ Len(a) = pos + 1
  BY <1>11, <1>12, AppendProperties
<1>14. \/ Sky!updateSkyline(c, t) = [s |-> s, endpoint |-> f]
       \/ Sky!updateSkyline(c, t) = [s |-> a, endpoint |-> f]
  BY <1>6, <1>7, <1>10, <1>12 DEF Sky!updateSkyline
<1>15. ASSUME NEW p \in {s, a} PROVE [s |-> p, endpoint |-> f] \in SkyState
  BY <1>9, <1>11, <1>13 DEF SkyState
<1> QED
  BY <1>14, <1>15

\* The states that a SkySet q goes through while the tuples of B come.
SetTurns(q, B, v) ==
    /\ v \in [0..Len(B) -> SkyState]
    /\ v[0] = [s |-> q, endpoint |-> Len(q)]
    /\ \A k \in 1..Len(B) : v[k] = Sky!updateSkyline(v[k - 1], B[k])
    /\ Sky!addComputeSet(q, B) = v[Len(B)].s

\* There are such states.
LEMMA SetHasTurns ==
    ASSUME NEW q \in Seq(Tuple), NEW B \in Seq(Tuple), q # <<>>
    PROVE  \E v : SetTurns(q, B, v)
<1>1. PICK n : n = Len(B)
  OBVIOUS
<1>2. n \in Nat /\ Len(q) \in Nat /\ DOMAIN B = 1..n
  BY <1>1, LenProperties
<1> DEFINE Y == SkyState
           F == [di \in Y \X (1..n) |-> Sky!updateSkyline(di[1], B[di[2]])]
<1>3. PICK b : b = [s |-> q, endpoint |-> Len(q)]
  OBVIOUS
<1>4. b \in Y
  BY <1>2, <1>3 DEF SkyState
<1>5. ASSUME NEW d \in Y, NEW i \in 1..n PROVE Sky!updateSkyline(d, B[i]) \in Y
  BY <1>1, UpdateType
<1> HIDE DEF Y
<1>6. F \in [Y \X (1..n) -> Y]
  BY <1>5
<1>7. ASSUME NEW d \in Y, NEW i \in 1..n PROVE F[<<d, i>>] = Sky!updateSkyline(d, B[i])
  OBVIOUS
<1> HIDE DEF F
<1>8. PICK h \in [SUBSET (1..n) -> Y] : FoldValues(h, F, b, n)
  BY <1>2, <1>4, <1>6, FoldExists
<1>9. h = [w \in SUBSET (1..n) |->
             IF w = {} THEN b ELSE Sky!updateSkyline(h[w \ {Max(w)}], B[Max(w)])]
  <2>1. ASSUME NEW w \in SUBSET (1..n), w # {}
        PROVE  F[<<h[w \ {Max(w)}], Max(w)>>] =
                  Sky!updateSkyline(h[w \ {Max(w)}], B[Max(w)])
    <3>1. w \in SUBSET (0..n)
      OBVIOUS
    <3>2. Max(w) \in 1..n
      BY <1>2, <2>1, <3>1, GreatestElement
    <3>3. PICK a : a = Max(w)
      OBVIOUS
    <3>4. PICK d : d = h[w \ {a}]
      OBVIOUS
    <3>5. d \in Y /\ a \in 1..n
      BY <3>2, <3>3, <3>4
    <3> QED
      BY <1>7, <3>3, <3>4, <3>5
  <2> QED
    BY <1>8, <2>1 DEF FoldValues
<1>10. PICK g : g = CHOOSE f : f = [w \in SUBSET (1..n) |->
                  IF w = {} THEN b ELSE Sky!updateSkyline(f[w \ {Max(w)}], B[Max(w)])]
  OBVIOUS
<1>11. g = [w \in SUBSET (1..n) |->
             IF w = {} THEN b ELSE Sky!updateSkyline(g[w \ {Max(w)}], B[Max(w)])]
  BY <1>9, <1>10
<1>12. Sky!addComputeSet(q, B) = g[1..n].s
  BY <1>2, <1>3, <1>10
     DEF Sky!addComputeSet, Sky!FoldLeft, Sky!MapThenFoldSet, Sky!Max, Max, Sky!Len
<1>13. g[{}] = b
  BY <1>11
<1>14. ASSUME NEW k \in 1..n, g[1..(k - 1)] \in Y
       PROVE  g[1..k] = F[<<g[1..(k - 1)], k>>]
  <2>1. 1..k \in SUBSET (1..n) /\ 1..k # {} /\ Max(1..k) = k /\ (1..k) \ {k} = 1..(k - 1)
    BY <1>2, Segments
  <2>2. g[1..k] = Sky!updateSkyline(g[1..(k - 1)], B[k])
    BY <1>11, <2>1
  <2> QED
    BY <1>7, <1>14, <2>2
<1>15. PICK v \in [0..n -> Y] : FoldSteps(v, F, b, n, g[1..n])
  <2>1. FoldsSegments(g, F, b, n, Y)
    BY <1>13, <1>14 DEF FoldsSegments
  <2> QED
    BY ONLY <1>2, <1>4, <1>6, <2>1, FoldedStates
<1>16. \A k \in 1..n : v[k] = Sky!updateSkyline(v[k - 1], B[k])
  <2> SUFFICES ASSUME NEW k \in 1..n PROVE v[k] = Sky!updateSkyline(v[k - 1], B[k])
    OBVIOUS
  <2>1. k - 1 \in 0..n
    BY <1>2
  <2>2. v[k - 1] \in Y
    BY <1>15, <2>1
  <2> QED
    BY <1>7, <1>15, <2>2 DEF FoldSteps
<1>17. v \in [0..n -> SkyState] /\ v[0] = b /\ v[n] = g[1..n]
  BY <1>15 DEF FoldSteps, Y
<1> QED
  BY <1>1, <1>3, <1>12, <1>16, <1>17 DEF SetTurns

\* After k of the tuples of B: the tuples of q that none of them beats, and those of
\* them that no tuple of q beats.
Merged(q, B, k, d) ==
    /\ d \in SkyState /\ Distinct(d.s)
    /\ First(d.s, d.endpoint) = {a \in Image(q) : \A b \in First(B, k) : ~Beats(b, a)}
    /\ Rest(d.s, d.endpoint) = {b \in First(B, k) : \A a \in Image(q) : ~Beats(a, b)}

\* updateSkyline keeps this.  That t is beaten by a tuple of q is still seen when
\* that one has gone: what has beaten it would beat t too, but comes from B.
LEMMA MergedStep ==
    ASSUME NEW q \in Seq(Tuple), NEW B \in Seq(Tuple), NEW k \in 1..Len(B),
           Distinct(B), Image(q) \cap Image(B) = {},
           \A a, b \in Image(B) : ~Beats(a, b),
           NEW d, Merged(q, B, k - 1, d)
    PROVE  Merged(q, B, k, Sky!updateSkyline(d, B[k]))
<1>1. PICK t : t = B[k]
  OBVIOUS
<1>2. k \in Nat \ {0} /\ Len(B) \in Nat /\ t \in Tuple /\ t \in Image(B)
  BY <1>1, LenProperties DEF Image
<1>3. PICK s, e : s = d.s /\ e = d.endpoint
  OBVIOUS
<1>4. /\ s \in Seq(Tuple) /\ e \in 0..Len(s) /\ d = [s |-> s, endpoint |-> e]
      /\ Distinct(s)
  BY <1>3 DEF Merged, SkyState
<1>5. PICK A, C : A = Image(q) /\ C = First(B, k - 1)
  OBVIOUS
<1>6. /\ First(s, e) = {a \in A : \A b \in C : ~Beats(b, a)}
      /\ Rest(s, e) = {b \in C : \A a \in A : ~Beats(a, b)}
  BY <1>3, <1>5 DEF Merged
<1>7. /\ First(B, k) = C \cup {t} /\ t \notin C /\ C \subseteq Image(B)
      /\ A \in SUBSET Tuple /\ t \notin A
  <2>1. 1..k = 1..(k - 1) \cup {k} /\ 1..(k - 1) \subseteq 1..Len(B) /\ k \in 1..Len(B)
    BY <1>2
  <2>2. First(B, k) = C \cup {t} /\ C \subseteq Image(B)
    BY <1>1, <1>5, <2>1 DEF First, Image
  <2>3. \A j \in 1..(k - 1) : B[j] # B[k]
    BY <1>2, <2>1 DEF Distinct
  <2>4. t \notin C
    BY <1>1, <1>5, <2>3 DEF First
  <2>5. A \in SUBSET Tuple
    BY <1>5 DEF Image
  <2>6. t \notin A
    BY <1>2, <1>5
  <2> QED
    BY <2>2, <2>4, <2>5, <2>6
<1>8. t \notin Image(s)
  <2>1. Image(s) = First(s, e) \cup Rest(s, e)
    BY <1>4, FirstAndRest
  <2> QED
    BY <1>6, <1>7, <2>1
<1>9. PICK u : u = Sky!updateSkyline(d, t)
  OBVIOUS
<1>10. Updated(t, s, e, u)
  BY <1>2, <1>4, <1>8, <1>9, UpdateSkyline
<1>11. /\ u \in SkyState /\ Distinct(u.s)
       /\ First(u.s, u.endpoint) = {a \in First(s, e) : ~Beats(t, a)}
       /\ Rest(u.s, u.endpoint) =
             Rest(s, e) \cup {a \in {t} : \A b \in First(s, e) : ~Beats(b, t)}
  BY <1>10 DEF Updated, SkyState
<1>12. (\E b \in First(s, e) : Beats(b, t)) <=> \E a \in A : Beats(a, t)
  <2> SUFFICES ASSUME NEW a \in A, Beats(a, t), a \notin First(s, e) PROVE FALSE
    BY <1>6
  <2>1. PICK b \in C : Beats(b, a)
    BY <1>6
  <2>2. b \in Image(B) /\ b \in Tuple
    BY <1>7, <2>1 DEF Image
  <2>3. Beats(b, t)
    BY <1>2, <1>7, <2>1, <2>2, BeatsOrder
  <2> QED
    BY <1>2, <2>2, <2>3
<1>13. First(u.s, u.endpoint) = {a \in A : \A b \in First(B, k) : ~Beats(b, a)}
  BY <1>6, <1>7, <1>11
<1>14. Rest(u.s, u.endpoint) = {b \in First(B, k) : \A a \in A : ~Beats(a, b)}
  BY <1>6, <1>7, <1>11, <1>12
<1> QED
  BY <1>1, <1>5, <1>9, <1>11, <1>13, <1>14 DEF Merged

\* A SkySet of the skyline of TA that gets all that one of the skyline of TB holds
\* then holds the skyline of both.
LEMMA SetHeld ==
    ASSUME NEW TA \in SUBSET Tuple, NEW TB \in SUBSET Tuple, TA \cap TB = {},
           NEW q \in Seq(Tuple), Holds(q, TA), NEW B \in Seq(Tuple), Holds(B, TB)
    PROVE  /\ Sky!addComputeSet(q, B) \in Seq(Tuple)
           /\ Holds(Sky!addComputeSet(q, B), TA \cup TB)
<1>1. CASE q = <<>>
  <2>1. Image(q) = {}
    BY <1>1 DEF Image
  <2>2. TA \cup TB = TB
    BY <2>1 DEF Holds
  <2> QED
    BY <1>1, <2>2 DEF Sky!addComputeSet
<1>2. CASE q # <<>>
  <2>1. PICK v : SetTurns(q, B, v)
    BY <1>2, SetHasTurns
  <2>2. PICK n : n = Len(B)
    OBVIOUS
  <2>3. n \in Nat /\ Len(q) \in Nat
    BY <2>2, LenProperties
  <2>4. PICK A, I : A = Image(q) /\ I = Image(B)
    OBVIOUS
  <2>5. /\ A \subseteq TA /\ Distinct(q) /\ \A a, b \in A : ~Beats(a, b)
        /\ \A u \in TA : u \in A \/ \E a \in A : Beats(a, u)
    BY <2>4 DEF Holds
  <2>6. /\ I \subseteq TB /\ Distinct(B) /\ \A a, b \in I : ~Beats(a, b)
        /\ \A u \in TB : u \in I \/ \E a \in I : Beats(a, u)
    BY <2>4 DEF Holds
  <2> DEFINE Q == {k \in 0..n : Merged(q, B, k, v[k])}
  <2>7. 0 \in Q
    <3>1. PICK d : d = v[0]
      OBVIOUS
    <3>2. d = [s |-> q, endpoint |-> Len(q)] /\ d \in SkyState
      BY <2>1, <2>2, <2>3, <3>1 DEF SetTurns
    <3>3. First(B, 0) = {}
      BY DEF First
    <3>4. First(q, Len(q)) = A /\ Rest(q, Len(q)) = {}
      BY <2>3, <2>4, FirstAndRest
    <3>5. Merged(q, B, 0, d)
      BY <2>4, <2>5, <3>2, <3>3, <3>4 DEF Merged
    <3> QED
      BY <2>3, <3>1, <3>5
  <2>8. ASSUME NEW k \in 1..n, k - 1 \in Q PROVE k \in Q
    <3>1. v[k] = Sky!updateSkyline(v[k - 1], B[k])
      BY <2>1, <2>2 DEF SetTurns
    <3>2. Merged(q, B, k - 1, v[k - 1])
      BY <2>8
    <3>3. Image(q) \cap Image(B) = {} /\ \A a, b \in Image(B) : ~Beats(a, b)
      BY <2>4, <2>5, <2>6
    <3>4. Merged(q, B, k, v[k])
      BY ONLY <2>2, <2>6, <3>1, <3>2, <3>3, MergedStep, q \in Seq(Tuple), B \in Seq(Tuple), k \in 1..n
    <3>5. k \in 0..n
      BY <2>3
    <3> QED
      BY <3>4, <3>5
  <2>9. Merged(q, B, n, v[n])
    <3>1. Q \in SUBSET (0..n)
      OBVIOUS
    <3>2. n \in Q
      <4> HIDE DEF Q
      <4>1. Q = 0..n
        BY <2>3, <2>7, <2>8, <3>1, TurnsInduction
      <4> QED
        BY <2>3, <4>1
    <3> QED
      BY <3>2
  <2> HIDE DEF Q
  <2>10. PICK d : d = v[n]
    OBVIOUS
  <2>11. Sky!addComputeSet(q, B) = d.s
    BY <2>1, <2>2, <2>10 DEF SetTurns
  <2>12. d.s \in Seq(Tuple) /\ d.endpoint \in 0..Len(d.s) /\ Distinct(d.s)
    BY <2>9, <2>10 DEF Merged, SkyState
  <2>13. Image(d.s) = {a \in A : \A b \in I : ~Beats(b, a)}
                        \cup {b \in I : \A a \in A : ~Beats(a, b)}
    <3>1. Image(d.s) = First(d.s, d.endpoint) \cup Rest(d.s, d.endpoint)
      BY <2>12, FirstAndRest
    <3>2. First(B, n) = I
      BY <2>2, <2>4 DEF First, Image
    <3> QED
      BY <2>4, <2>9, <2>10, <3>1, <3>2 DEF Merged
  <2>14. PICK D : D = Image(d.s)
    OBVIOUS
  <2>15. /\ \A a \in A : a \in D \/ \E b \in I : Beats(b, a)
         /\ \A b \in I : b \in D \/ \E a \in A : Beats(a, b)
         /\ D \subseteq A \cup I
    BY <2>13, <2>14
  <2>16. \A a, b \in D : ~Beats(a, b)
    BY <2>5, <2>6, <2>13, <2>14
  \* What beats a tuple of the one set that is beaten is not beaten itself.
  <2>17. \A a \in A : \A b \in I : Beats(b, a) => b \in D
    BY <2>5, <2>6, <2>15, BeatsOrder
  <2>18. \A a \in A : \A b \in I : Beats(a, b) => a \in D
    BY <2>5, <2>6, <2>15, BeatsOrder
  <2>19. ASSUME NEW u \in TA PROVE u \in D \/ \E a \in D : Beats(a, u)
    <3>1. CASE u \in A
      BY <2>15, <2>17, <3>1
    <3>2. CASE u \notin A
      <4>1. PICK a \in A : Beats(a, u)
        BY <2>5, <3>2
      <4>2. CASE a \in D
        BY <4>1, <4>2
      <4>3. CASE a \notin D
        <5>1. PICK b \in I : Beats(b, a)
          BY <2>15, <4>3
        <5>2. b \in D /\ Beats(b, u)
          BY <2>5, <2>6, <2>17, <4>1, <5>1, BeatsOrder
        <5> QED
          BY <5>2
      <4> QED
        BY <4>2, <4>3
    <3> QED
      BY <3>1, <3>2
  <2>20. ASSUME NEW u \in TB PROVE u \in D \/ \E a \in D : Beats(a, u)
    <3>1. CASE u \in I
      BY <2>15, <2>18, <3>1
    <3>2. CASE u \notin I
      <4>1. PICK b \in I : Beats(b, u)
        BY <2>6, <3>2
      <4>2. CASE b \in D
        BY <4>1, <4>2
      <4>3. CASE b \notin D
        <5>1. PICK a \in A : Beats(a, b)
          BY <2>15, <4>3
        <5>2. a \in D /\ Beats(a, u)
          BY <2>5, <2>6, <2>18, <4>1, <5>1, BeatsOrder
        <5> QED
          BY <5>2
      <4> QED
        BY <4>2, <4>3
    <3> QED
      BY <3>1, <3>2
  <2>21. D \subseteq TA \cup TB
    BY <2>5, <2>6, <2>15
  <2> QED
    BY <2>11, <2>12, <2>14, <2>16, <2>19, <2>20, <2>21 DEF Holds
<1> QED
  BY <1>1, <1>2

-----------------------------------------------------------------------------
(* What a TopdSet stands for                                               *)

\* A stored tuple and its factor are in the same place of two sequences.
TopdState ==
    {c \in [s : Seq(Tuple), domFactors : Seq(0..DIM)] : Len(c.domFactors) = Len(c.s)}

\* The TopdSet c keeps tuples of U, with factors that none exceeds the one it has
\* in U, and all tuples of K that are in the skyline of U.
Keeps(c, U, K) ==
    /\ c \in TopdState /\ Distinct(c.s) /\ Image(c.s) \subseteq U
    /\ \A i \in 1..Len(c.s) : c.domFactors[i] <= Factor(c.s[i], U)
    /\ K \cap Skyline(U) \subseteq Image(c.s)

\* A tuple has no smaller factor among more tuples.
LEMMA FactorGrows ==
    ASSUME NEW T \in SUBSET Tuple, NEW U \in SUBSET Tuple, T \subseteq U, NEW u \in Tuple
    PROVE  Factor(u, T) <= Factor(u, U)
<1>1. PICK f, g : f = Factor(u, T) /\ g = Factor(u, U)
  OBVIOUS
<1>2. f \in 0..DIM /\ g \in 0..DIM /\ DIM \in Nat
  BY <1>1, FactorBounds, Coordinates
<1>3. f # 0 => f \in 1..DIM /\ \E t \in T : Dominates(t, u, f)
  BY <1>1, <1>2, FactorBounds
<1>4. f # 0 => f <= g
  BY <1>1, <1>3, FactorBounds
<1> QED
  BY <1>1, <1>2, <1>4

\* The more tuples, the fewer of them are in the skyline, and what a TopdSet keeps
\* it keeps among more tuples.
LEMMA KeepsMore ==
    ASSUME NEW T \in SUBSET Tuple, NEW U \in SUBSET Tuple, T \subseteq U
    PROVE  /\ T \cap Skyline(U) \subseteq Skyline(T)
           /\ \A c : Keeps(c, T, T) => Keeps(c, U, T)
<1>1. DIM \in Nat
  BY Coordinates
<1>2. ASSUME NEW u \in T PROVE Factor(u, T) \in 0..DIM /\ Factor(u, U) \in 0..DIM
                               /\ Factor(u, T) <= Factor(u, U)
  BY FactorBounds, FactorGrows
<1>3. T \cap Skyline(U) \subseteq Skyline(T)
  <2> SUFFICES ASSUME NEW u \in T, Factor(u, U) < DIM PROVE Factor(u, T) < DIM
    BY DEF Skyline
  <2> QED
    BY <1>1, <1>2
<1>4. ASSUME NEW c, Keeps(c, T, T) PROVE Keeps(c, U, T)
  <2>1. ASSUME NEW i \in 1..Len(c.s) PROVE c.domFactors[i] <= Factor(c.s[i], U)
    <3>1. c.s[i] \in T /\ c.domFactors[i] \in 0..DIM
      <4>1. Image(c.s) \subseteq T /\ c \in TopdState
        BY <1>4 DEF Keeps
      <4>2. c.s[i] \in Image(c.s)
        BY DEF Image
      <4>3. c.domFactors \in Seq(0..DIM) /\ Len(c.domFactors) = Len(c.s)
        BY <4>1 DEF TopdState
      <4>4. c.domFactors[i] \in 0..DIM
        BY <4>3, ElementOfSeq
      <4> QED
        BY <4>1, <4>2, <4>4
    <3>2. c.domFactors[i] <= Factor(c.s[i], T)
      BY <1>4 DEF Keeps
    <3> QED
      BY <1>1, <1>2, <3>1, <3>2
  <2> QED
    BY <1>3, <1>4, <2>1 DEF Keeps
<1> QED
  BY <1>3, <1>4

\* TopdSet takes the maximum as this module does.
LEMMA MaximaAlike == \A S : Topd!Max(S) = Max(S)
  BY Zenon DEF Topd!Max, Max

\* What the loops of updateTopd compute for two tuples is a factor: it exceeds the
\* one that u has among the tuples of U in no case.
LEMMA FactorsComputed ==
    ASSUME NEW U \in SUBSET Tuple, NEW t \in U, NEW u \in Tuple
    PROVE  /\ Topd!Tdom(t, u) \in 0..DIM /\ Topd!Tdom(t, u) <= Factor(u, U)
           /\ Topd!domT(t, u) \in 0..DIM /\ Topd!domT(t, u) <= Factor(u, U)
<1>1. PICK k : k = Topd!EqualOrBetter(t, u)
  OBVIOUS
<1>2. k = Cardinality({i \in 1..DIM : t.d[i] <= u.d[i]})
  BY <1>1, CountsAlike DEF Topd!EqualOrBetter
<1>3. k \in 0..DIM /\ DIM \in Nat /\ DIM \in 1..DIM
  BY <1>2, SomeDimensions, Coordinates
<1>4. Factor(u, U) \in 0..DIM
  BY FactorBounds
<1>5. (\E i \in 1..DIM : t.d[i] < u.d[i]) => k <= Factor(u, U)
  <2> SUFFICES ASSUME \E i \in 1..DIM : t.d[i] < u.d[i] PROVE k <= Factor(u, U)
    OBVIOUS
  <2>1. k >= k
    BY <1>3
  <2>2. Dominates(t, u, k)
    BY <1>2, <2>1 DEF Dominates
  <2>3. CASE k = 0
    BY <1>3, <1>4, <2>3
  <2>4. CASE k \in 1..DIM
    BY <2>2, <2>4, FactorBounds
  <2> QED
    BY <1>3, <2>3, <2>4
<1>6. Topd!Tdom(t, u) = IF t.d[DIM] < u.d[DIM] THEN k ELSE 0
  BY <1>1 DEF Topd!Tdom
<1>7. Topd!domT(t, u) = IF \E i \in 1..DIM : t.d[i] < u.d[i] THEN k ELSE 0
  BY <1>1 DEF Topd!domT
<1> QED
  BY <1>3, <1>4, <1>5, <1>6, <1>7

-----------------------------------------------------------------------------
(* The loop of updateTopd                                                  *)

\* One element of a sequence of n goes, the last one takes its place.
LosesPlace(S, q, n, i, p) ==
    /\ p \in Seq(S) /\ Len(p) = n - 1
    /\ \A j \in 1..(n - 1) : p[j] = q[IF j = i THEN n ELSE j]

LEMMA ReplacedPlaces ==
    ASSUME NEW S, NEW q \in Seq(S), NEW i \in 1..Len(q)
    PROVE  LosesPlace(S, q, Len(q), i, Topd!Replaced(q, i))
<1>1. PICK n : n = Len(q)
  OBVIOUS
<1>2. n \in Nat /\ i \in 1..n /\ n \in 1..n
  BY <1>1, LenProperties
<1>3. PICK p : p = [j \in 1..(n - 1) |-> q[IF j = i THEN n ELSE j]]
  OBVIOUS
<1>4. Topd!Replaced(q, i) = p
  BY <1>1, <1>3 DEF Topd!Replaced, Topd!Len
<1>5. \A j \in 1..(n - 1) : q[IF j = i THEN n ELSE j] \in S
  BY <1>1, <1>2
<1>6. p \in [1..(n - 1) -> S] /\ n - 1 \in Nat
  BY <1>2, <1>3, <1>5
<1>7. p \in Seq(S) /\ Len(p) = n - 1
  BY <1>6, LenProperties, SeqDef
<1> QED
  BY <1>1, <1>3, <1>4, <1>7 DEF LosesPlace

\* The states of the loop, and what each of them keeps of the tuples q and their
\* factors f: no tuple is there twice, each has its factor, and all are there whose
\* factor is not DIM.
TopdScanState ==
    {r \in [s : Seq(Tuple), domFactors : Seq(0..DIM), i : Nat \ {0}] :
        Len(r.domFactors) = Len(r.s)}
TopdScanned(q, f, r) ==
    /\ Distinct(r.s)
    /\ \A j \in 1..Len(r.s) : \E h \in 1..Len(q) : r.s[j] = q[h] /\ r.domFactors[j] = f[h]
    /\ \A h \in 1..Len(q) : f[h] # DIM =>
          \E j \in 1..Len(r.s) : r.s[j] = q[h] /\ r.domFactors[j] = f[h]

\* A turn keeps this.
LEMMA TopdTurn ==
    ASSUME NEW r \in TopdScanState
    PROVE  /\ Topd!Turn(r) \in TopdScanState
           /\ \A q, f : TopdScanned(q, f, r) => TopdScanned(q, f, Topd!Turn(r))
<1>1. PICK s, g, i : s = r.s /\ g = r.domFactors /\ i = r.i
  OBVIOUS
<1>2. PICK n : n = Len(s)
  OBVIOUS
<1>3. /\ s \in Seq(Tuple) /\ g \in Seq(0..DIM) /\ i \in Nat \ {0} /\ Len(g) = n
      /\ r = [s |-> s, domFactors |-> g, i |-> i] /\ n \in Nat
  BY <1>1, <1>2, LenProperties DEF TopdScanState
<1>4. CASE i > n
  BY <1>1, <1>2, <1>4 DEF Topd!Turn, Topd!Len
<1>5. CASE ~(i > n) /\ g[i] = DIM
  <2>1. i \in 1..Len(s) /\ i \in 1..Len(g) /\ i \in 1..n
    BY <1>2, <1>3, <1>5
  <2>2. PICK p, h : p = Topd!Replaced(s, i) /\ h = Topd!Replaced(g, i)
    OBVIOUS
  <2>3. /\ p \in Seq(Tuple) /\ Len(p) = n - 1
        /\ \A j \in 1..(n - 1) : p[j] = s[IF j = i THEN n ELSE j]
    <3>1. LosesPlace(Tuple, s, Len(s), i, Topd!Replaced(s, i))
      BY ONLY <1>3, <2>1, ReplacedPlaces
    <3> QED
      BY ONLY <1>2, <2>2, <3>1 DEF LosesPlace
  <2>4. /\ h \in Seq(0..DIM) /\ Len(h) = n - 1
        /\ \A j \in 1..(n - 1) : h[j] = g[IF j = i THEN n ELSE j]
    <3>1. LosesPlace(0..DIM, g, Len(g), i, Topd!Replaced(g, i))
      BY ONLY <1>3, <2>1, ReplacedPlaces
    <3> QED
      BY ONLY <1>3, <2>2, <3>1 DEF LosesPlace
  <2>5. PICK u : u = [s |-> p, domFactors |-> h, i |-> i]
    OBVIOUS
  <2>6. Topd!Turn(r) = u
    <3>1. ~(r.i > Topd!Len(r.s)) /\ r.domFactors[r.i] = DIM
      BY <1>1, <1>2, <1>5 DEF Topd!Len
    <3>2. Topd!Turn(r) = [r EXCEPT !.s = Topd!Replaced(r.s, r.i),
                                   !.domFactors = Topd!Replaced(r.domFactors, r.i)]
      BY ONLY <3>1, Zenon DEF Topd!Turn
    <3>3. Topd!Turn(r) = [r EXCEPT !.s = p, !.domFactors = h]
      BY ONLY <1>1, <2>2, <3>2
    <3> QED
      BY ONLY <1>3, <2>5, <3>3
  <2>7. u \in TopdScanState /\ u.s = p /\ u.domFactors = h
    BY <1>3, <2>3, <2>4, <2>5 DEF TopdScanState
  <2>8. ASSUME NEW q, NEW f, TopdScanned(q, f, r) PROVE TopdScanned(q, f, u)
    <3>1. Distinct(p)
      <4> SUFFICES ASSUME NEW j \in 1..(n - 1), NEW k \in 1..(n - 1), p[j] = p[k]
                   PROVE  j = k
        BY <2>3 DEF Distinct
      <4>1. PICK a, b : a = (IF j = i THEN n ELSE j) /\ b = (IF k = i THEN n ELSE k)
        OBVIOUS
      <4>2. a \in 1..n /\ b \in 1..n
        BY <1>3, <4>1
      <4>3. s[a] = s[b]
        BY <2>3, <4>1
      <4>4. a = b
        BY <1>1, <1>2, <2>8, <4>2, <4>3 DEF TopdScanned, Distinct
      <4> QED
        BY <1>3, <4>1, <4>4
    <3>2. ASSUME NEW j \in 1..(n - 1)
          PROVE  \E k \in 1..Len(q) : p[j] = q[k] /\ h[j] = f[k]
      <4>1. PICK a : a = (IF j = i THEN n ELSE j)
        OBVIOUS
      <4>2. a \in 1..n /\ p[j] = s[a] /\ h[j] = g[a]
        BY <1>3, <2>3, <2>4, <4>1
      <4> QED
        BY <1>1, <1>2, <2>8, <4>2 DEF TopdScanned
    <3>3. ASSUME NEW k \in 1..Len(q), f[k] # DIM
          PROVE  \E j \in 1..(n - 1) : p[j] = q[k] /\ h[j] = f[k]
      <4>1. PICK j \in 1..n : s[j] = q[k] /\ g[j] = f[k]
        BY <1>1, <1>2, <2>8, <3>3 DEF TopdScanned
      <4>2. j # i
        BY <1>5, <3>3, <4>1
      <4>3. CASE j = n
        <5>1. i \in 1..(n - 1)
          BY <1>3, <2>1, <4>2, <4>3
        <5> QED
          BY <2>3, <2>4, <4>1, <4>3, <5>1
      <4>4. CASE j # n
        <5>1. j \in 1..(n - 1)
          BY <1>3, <4>4
        <5> QED
          BY <2>3, <2>4, <4>1, <4>2, <5>1
      <4> QED
        BY <4>3, <4>4
    <3>4. Len(p) = n - 1
      BY <2>3
    <3> QED
      BY ONLY <2>7, <3>1, <3>2, <3>3, <3>4 DEF TopdScanned
  <2> QED
    BY <2>6, <2>7, <2>8
<1>6. CASE ~(i > n) /\ g[i] # DIM
  <2>1. PICK u : u = [s |-> s, domFactors |-> g, i |-> i + 1]
    OBVIOUS
  <2>2. Topd!Turn(r) = u
    <3>1. ~(r.i > Topd!Len(r.s)) /\ r.domFactors[r.i] # DIM
      BY <1>1, <1>2, <1>6 DEF Topd!Len
    <3>2. Topd!Turn(r) = [r EXCEPT !.i = r.i + 1]
      BY ONLY <3>1, Zenon DEF Topd!Turn
    <3> QED
      BY ONLY <1>1, <1>3, <2>1, <3>2
  <2>3. u \in TopdScanState /\ u.s = r.s /\ u.domFactors = r.domFactors
    BY <1>1, <1>2, <1>3, <2>1 DEF TopdScanState
  <2>4. ASSUME NEW q, NEW f, TopdScanned(q, f, r) PROVE TopdScanned(q, f, u)
    <3>1. /\ Distinct(s)
          /\ \A j \in 1..Len(s) : \E h \in 1..Len(q) : s[j] = q[h] /\ g[j] = f[h]
          /\ \A h \in 1..Len(q) : f[h] # DIM =>
                \E j \in 1..Len(s) : s[j] = q[h] /\ g[j] = f[h]
      BY ONLY <1>1, <2>4 DEF TopdScanned
    <3>2. u.s = s /\ u.domFactors = g
      BY <2>1
    <3> QED
      BY ONLY <3>1, <3>2 DEF TopdScanned
  <2> QED
    BY <2>2, <2>3, <2>4
<1> QED
  BY <1>4, <1>5, <1>6

\* What the loop returns, whatever it was given, is such a state.
LEMMA TopdScanKeeps ==
    ASSUME NEW c \in TopdState
    PROVE  LET r == Topd!Scan(c.s, c.domFactors)
           IN r \in TopdScanState /\ (Distinct(c.s) => TopdScanned(c.s, c.domFactors, r))
<1>1. PICK q, f, n : q = c.s /\ f = c.domFactors /\ n = Len(q)
  OBVIOUS
<1>2. n \in Nat /\ q \in Seq(Tuple) /\ f \in Seq(0..DIM) /\ Len(f) = n
  BY <1>1, LenProperties DEF TopdState
<1> DEFINE Y == TopdScanState
           F == [di \in Y \X (1..n) |-> Topd!Turn(di[1])]
<1>3. PICK b : b = [s |-> q, domFactors |-> f, i |-> 1]
  OBVIOUS
<1>4. b \in Y
  BY <1>1, <1>2, <1>3 DEF TopdScanState
<1>5. ASSUME NEW d \in Y PROVE Topd!Turn(d) \in Y
  BY TopdTurn
<1> HIDE DEF Y
<1>6. F \in [Y \X (1..n) -> Y]
  BY <1>5
<1>7. ASSUME NEW d \in Y, NEW i \in 1..n PROVE F[<<d, i>>] = Topd!Turn(d)
  OBVIOUS
<1> HIDE DEF F
<1>8. PICK h \in [SUBSET (1..n) -> Y] : FoldValues(h, F, b, n)
  BY <1>2, <1>4, <1>6, FoldExists
<1>9. h = [w \in SUBSET (1..n) |-> IF w = {} THEN b ELSE Topd!Turn(h[w \ {Max(w)}])]
  <2>1. ASSUME NEW w \in SUBSET (1..n), w # {}
        PROVE  F[<<h[w \ {Max(w)}], Max(w)>>] = Topd!Turn(h[w \ {Max(w)}])
    <3>1. w \in SUBSET (0..n)
      OBVIOUS
    <3>2. Max(w) \in 1..n
      BY <1>2, <2>1, <3>1, GreatestElement
    <3>3. PICK a : a = Max(w)
      OBVIOUS
    <3>4. PICK d : d = h[w \ {a}]
      OBVIOUS
    <3>5. d \in Y /\ a \in 1..n
      BY <3>2, <3>3, <3>4
    <3> QED
      BY <1>7, <3>3, <3>4, <3>5
  <2> QED
    BY <1>8, <2>1 DEF FoldValues
<1>10. PICK g : g = CHOOSE z : z = [w \in SUBSET (1..n) |->
                  IF w = {} THEN b ELSE Topd!Turn(z[w \ {Max(w)}])]
  OBVIOUS
<1>11. g = [w \in SUBSET (1..n) |-> IF w = {} THEN b ELSE Topd!Turn(g[w \ {Max(w)}])]
  BY <1>9, <1>10
<1>12. Topd!Scan(q, f) = g[1..n]
  BY <1>1, <1>3, <1>10
     DEF Topd!Scan, Topd!FoldLeft, Topd!MapThenFoldSet, Topd!Max, Max, Topd!Len
<1>13. FoldsSegments(g, F, b, n, Y)
  <2>1. g[{}] = b
    BY <1>11
  <2>2. ASSUME NEW k \in 1..n, g[1..(k - 1)] \in Y
        PROVE  g[1..k] = F[<<g[1..(k - 1)], k>>]
    <3>1. 1..k \in SUBSET (1..n) /\ 1..k # {} /\ Max(1..k) = k /\ (1..k) \ {k} = 1..(k - 1)
      BY <1>2, Segments
    <3>2. g[1..k] = Topd!Turn(g[1..(k - 1)])
      BY <1>11, <3>1
    <3> QED
      BY <1>7, <2>2, <3>2
  <2> QED
    BY <2>1, <2>2 DEF FoldsSegments
<1>14. PICK v \in [0..n -> Y] : FoldSteps(v, F, b, n, g[1..n])
  BY ONLY <1>2, <1>4, <1>6, <1>13, FoldedStates
<1>15. v[0] = b /\ v[n] = g[1..n] /\ \A k \in 1..n : v[k] = Topd!Turn(v[k - 1])
  <2>1. ASSUME NEW k \in 1..n PROVE v[k] = Topd!Turn(v[k - 1])
    <3>1. k - 1 \in 0..n
      BY <1>2
    <3>2. v[k - 1] \in Y
      BY <1>14, <3>1
    <3> QED
      BY <1>7, <1>14, <3>2 DEF FoldSteps
  <2> QED
    BY <1>14, <2>1 DEF FoldSteps
<1>16. ASSUME Distinct(q) PROVE TopdScanned(q, f, v[n])
  <2> DEFINE Q == {k \in 0..n : TopdScanned(q, f, v[k])}
  <2>1. 0 \in Q
    <3>1. TopdScanned(q, f, b)
      BY <1>3, <1>16 DEF TopdScanned
    <3> QED
      BY <1>2, <1>15, <3>1
  <2>2. ASSUME NEW k \in 1..n, k - 1 \in Q PROVE k \in Q
    <3>1. k - 1 \in 0..n /\ k \in 0..n
      BY <1>2
    <3>2. v[k - 1] \in TopdScanState /\ TopdScanned(q, f, v[k - 1])
      BY <1>14, <2>2, <3>1 DEF Y
    <3>3. TopdScanned(q, f, v[k])
      BY ONLY <1>15, <3>2, TopdTurn, k \in 1..n
    <3> QED
      BY <3>1, <3>3
  <2>3. n \in Q
    <3>1. Q \in SUBSET (0..n)
      OBVIOUS
    <3> HIDE DEF Q
    <3>2. Q = 0..n
      BY <1>2, <2>1, <2>2, <3>1, TurnsInduction
    <3> QED
      BY <1>2, <3>2
  <2> QED
    BY <2>3
<1>17. v[n] \in TopdScanState
  BY <1>2, <1>14 DEF Y
<1> QED
  BY <1>1, <1>12, <1>15, <1>16, <1>17

-----------------------------------------------------------------------------
(* Tuples come to a TopdSet                                                *)

\* The factors that the stored tuples have when t has come.
Grown(c, t) == [i \in 1..Len(c.s) |-> Topd!Max({c.domFactors[i], Topd!Tdom(t, c.s[i])})]

\* They are of the right kind, and exceed those in U in no case.
LEMMA GrownBounds ==
    ASSUME NEW t \in Tuple, NEW c \in TopdState
    PROVE  /\ Grown(c, t) \in Seq(0..DIM) /\ Len(Grown(c, t)) = Len(c.s)
           /\ \A U, K : U \in SUBSET Tuple /\ t \in U /\ Keeps(c, U, K) =>
                 \A i \in 1..Len(c.s) : Grown(c, t)[i] <= Factor(c.s[i], U)
<1>1. PICK s, f, n : s = c.s /\ f = c.domFactors /\ n = Len(s)
  OBVIOUS
<1>2. /\ s \in Seq(Tuple) /\ f \in Seq(0..DIM) /\ Len(f) = n /\ n \in Nat
      /\ DIM \in Nat
  BY <1>1, LenProperties, Coordinates DEF TopdState
<1>3. PICK g : g = Grown(c, t)
  OBVIOUS
<1>4. g = [i \in 1..n |-> Max({f[i], Topd!Tdom(t, s[i])})]
  BY <1>1, <1>3, MaximaAlike DEF Grown
<1>5. ASSUME NEW i \in 1..n
      PROVE  /\ s[i] \in Tuple /\ f[i] \in 0..DIM /\ g[i] \in {f[i], Topd!Tdom(t, s[i])}
             /\ Topd!Tdom(t, s[i]) \in 0..DIM
  <2>1. s[i] \in Tuple /\ f[i] \in 0..DIM
    BY <1>1, <1>2, ElementOfSeq
  <2>2. Topd!Tdom(t, s[i]) \in 0..DIM
    <3>1. t \in Tuple /\ Tuple \in SUBSET Tuple
      OBVIOUS
    <3> QED
      BY ONLY <2>1, <3>1, FactorsComputed
  <2>3. {f[i], Topd!Tdom(t, s[i])} \in SUBSET (0..DIM)
    BY <2>1, <2>2
  <2>4. Max({f[i], Topd!Tdom(t, s[i])}) \in {f[i], Topd!Tdom(t, s[i])}
    BY <1>2, <2>3, GreatestElement
  <2> QED
    BY <1>4, <2>1, <2>2, <2>4
<1>6. g \in Seq(0..DIM) /\ Len(g) = n
  <2>1. g \in [1..n -> 0..DIM]
    <3>1. \A i \in 1..n : g[i] \in 0..DIM
      BY <1>5
    <3>2. DOMAIN g = 1..n /\ g = [i \in 1..n |-> g[i]]
      BY <1>4
    <3> QED
      BY <3>1, <3>2
  <2> QED
    BY <1>2, <2>1, SeqDef, LenProperties
<1>7. ASSUME NEW U, NEW K, U \in SUBSET Tuple, t \in U, Keeps(c, U, K), NEW i \in 1..n
      PROVE  g[i] <= Factor(s[i], U)
  <2>1. f[i] <= Factor(s[i], U)
    BY <1>1, <1>7 DEF Keeps
  <2>2. Topd!Tdom(t, s[i]) <= Factor(s[i], U)
    <3>1. s[i] \in Tuple
      BY <1>5
    <3> QED
      BY ONLY <1>7, <3>1, FactorsComputed
  <2> QED
    BY <1>5, <2>1, <2>2
<1> QED
  BY <1>1, <1>3, <1>6, <1>7

\* The factor that t has among the stored tuples.
FactorAmong(c, t) == Topd!Max({0} \cup {Topd!domT(c.s[i], t) : i \in 1..Len(c.s)})

LEMMA FactorAmongBounds ==
    ASSUME NEW t \in Tuple, NEW c \in TopdState
    PROVE  /\ FactorAmong(c, t) \in 0..DIM
           /\ \A U, K : U \in SUBSET Tuple /\ t \in U /\ Keeps(c, U, K) =>
                 FactorAmong(c, t) <= Factor(t, U)
<1>1. PICK s, n : s = c.s /\ n = Len(s)
  OBVIOUS
<1>2. s \in Seq(Tuple) /\ n \in Nat /\ DIM \in Nat
  BY <1>1, LenProperties, Coordinates DEF TopdState
<1>3. \A i \in 1..n : s[i] \in Tuple
  BY <1>1, <1>2
<1>4. PICK W : W = {0} \cup {Topd!domT(s[i], t) : i \in 1..n}
  OBVIOUS
<1>5. FactorAmong(c, t) = Max(W)
  BY <1>1, <1>4, MaximaAlike DEF FactorAmong
<1>6. W \in SUBSET (0..DIM) /\ W # {}
  <2>1. ASSUME NEW i \in 1..n PROVE Topd!domT(s[i], t) \in 0..DIM
    <3>1. s[i] \in Tuple /\ Tuple \in SUBSET Tuple
      BY <1>3
    <3> QED
      BY ONLY <3>1, FactorsComputed, t \in Tuple
  <2> QED
    BY <1>2, <1>4, <2>1
<1>7. Max(W) \in W
  BY <1>2, <1>6, GreatestElement
<1>8. ASSUME NEW U, NEW K, U \in SUBSET Tuple, t \in U, Keeps(c, U, K)
      PROVE  Max(W) <= Factor(t, U)
  <2>1. Factor(t, U) \in 0..DIM
    BY <1>8, FactorBounds
  <2>2. CASE Max(W) = 0
    BY <1>2, <2>1, <2>2
  <2>3. CASE \E i \in 1..n : Max(W) = Topd!domT(s[i], t)
    <3>1. PICK i \in 1..n : Max(W) = Topd!domT(s[i], t)
      BY <2>3
    <3>2. s[i] \in U
      BY <1>1, <1>8 DEF Keeps, Image
    <3>3. Topd!domT(s[i], t) <= Factor(t, U)
      BY ONLY <1>8, <3>2, FactorsComputed, t \in Tuple
    <3> QED
      BY <3>1, <3>3
  <2> QED
    BY <1>4, <1>7, <2>2, <2>3
<1> QED
  BY <1>5, <1>6, <1>7, <1>8

\* updateTopd returns a TopdSet, which keeps t too if it is in the skyline, and
\* what c keeps.
LEMMA UpdateTopd ==
    ASSUME NEW t \in Tuple, NEW c \in TopdState, NEW known \in 0..DIM
    PROVE  /\ Topd!updateTopd(c, t, known) \in TopdState
           /\ \A U, K : /\ U \in SUBSET Tuple /\ t \in U /\ Keeps(c, U, K)
                        /\ t \notin Image(c.s) /\ known <= Factor(t, U)
                 => /\ Keeps(Topd!updateTopd(c, t, known), U, K \cup {t})
                    /\ Image(Topd!updateTopd(c, t, known).s) \subseteq Image(c.s) \cup {t}
<1>1. PICK q, n : q = c.s /\ n = Len(q)
  OBVIOUS
<1>2. PICK grown, dom : grown = Grown(c, t) /\ dom = FactorAmong(c, t)
  OBVIOUS
<1>3. PICK r : r = Topd!Scan(q, grown)
  OBVIOUS
<1>4. PICK p, g, m : p = r.s /\ g = r.domFactors /\ m = Len(p)
  OBVIOUS
<1>5. /\ q \in Seq(Tuple) /\ n \in Nat /\ grown \in Seq(0..DIM) /\ Len(grown) = n
      /\ dom \in 0..DIM /\ DIM \in Nat
  BY <1>1, <1>2, LenProperties, Coordinates, GrownBounds, FactorAmongBounds DEF TopdState
<1>6. /\ r \in TopdScanState
      /\ Distinct(q) => TopdScanned(q, grown, r)
  <2>1. PICK z : z = [s |-> q, domFactors |-> grown]
    OBVIOUS
  <2>2. z \in TopdState /\ z.s = q /\ z.domFactors = grown
    BY <1>1, <1>5, <2>1 DEF TopdState
  <2>3. LET y == Topd!Scan(z.s, z.domFactors)
        IN y \in TopdScanState /\ (Distinct(z.s) => TopdScanned(z.s, z.domFactors, y))
    BY ONLY <2>2, TopdScanKeeps
  <2> QED
    BY ONLY <1>3, <2>2, <2>3
<1>7. p \in Seq(Tuple) /\ g \in Seq(0..DIM) /\ Len(g) = m /\ m \in Nat
  BY <1>4, <1>6, LenProperties DEF TopdScanState
<1>8. PICK a : a = Max({dom, known})
  OBVIOUS
<1>9. a \in {dom, known} /\ a \in 0..DIM
  <2>1. {dom, known} \in SUBSET (0..DIM)
    BY <1>5
  <2> QED
    BY <1>5, <1>8, <2>1, GreatestElement
<1>10. PICK d : d = Topd!updateTopd(c, t, known)
  OBVIOUS
<1>11. d = IF dom < DIM
           THEN [s |-> Append(p, t), domFactors |-> Append(g, a)]
           ELSE [s |-> p, domFactors |-> g]
  <2>1. a = Topd!Max({dom, known})
    BY <1>8, MaximaAlike
  <2> QED
    BY ONLY <1>1, <1>2, <1>3, <1>4, <1>10, <2>1
       DEF Topd!updateTopd, Topd!Stays, Grown, FactorAmong, Topd!Len
<1>12. PICK pt, ga : pt = Append(p, t) /\ ga = Append(g, a)
  OBVIOUS
<1>13. /\ pt \in Seq(Tuple) /\ Len(pt) = m + 1 /\ pt[m + 1] = t
       /\ \A j \in 1..m : pt[j] = p[j]
  BY <1>4, <1>7, <1>12, AppendProperties
<1>14. /\ ga \in Seq(0..DIM) /\ Len(ga) = m + 1 /\ ga[m + 1] = a
       /\ \A j \in 1..m : ga[j] = g[j]
  BY <1>7, <1>9, <1>12, AppendProperties
<1>15. \/ dom < DIM /\ d = [s |-> pt, domFactors |-> ga]
       \/ dom = DIM /\ d = [s |-> p, domFactors |-> g]
  BY <1>5, <1>11, <1>12
<1>16. d \in TopdState
  BY <1>4, <1>7, <1>13, <1>14, <1>15 DEF TopdState
<1>17. ASSUME NEW U, NEW K, U \in SUBSET Tuple, t \in U, Keeps(c, U, K),
              t \notin Image(q), known <= Factor(t, U)
       PROVE  Keeps(d, U, K \cup {t}) /\ Image(d.s) \subseteq Image(q) \cup {t}
  <2>1. /\ Distinct(q) /\ Image(q) \subseteq U
        /\ K \cap Skyline(U) \subseteq Image(q)
    BY <1>1, <1>17 DEF Keeps
  <2>2. \A i \in 1..n : grown[i] <= Factor(q[i], U)
    BY <1>1, <1>2, <1>17, GrownBounds
  <2>3. dom <= Factor(t, U) /\ Factor(t, U) \in 0..DIM
    BY <1>2, <1>17, FactorAmongBounds, FactorBounds
  <2>4. /\ Distinct(p)
        /\ \A j \in 1..m : \E h \in 1..n : p[j] = q[h] /\ g[j] = grown[h]
        /\ \A h \in 1..n : grown[h] # DIM => \E j \in 1..m : p[j] = q[h]
    BY <1>1, <1>4, <1>6, <2>1 DEF TopdScanned
  <2>5. Image(p) \subseteq Image(q)
    BY <1>1, <1>4, <2>4 DEF Image
  <2>6. \A j \in 1..m : g[j] <= Factor(p[j], U)
    BY <2>2, <2>4
  \* A tuple that goes has the factor DIM.
  <2>7. Image(q) \cap Skyline(U) \subseteq Image(p)
    <3> SUFFICES ASSUME NEW h \in 1..n, q[h] \in Skyline(U) PROVE q[h] \in Image(p)
      BY <1>1 DEF Image
    <3>1. Factor(q[h], U) < DIM
      BY DEF Skyline
    <3>2. grown[h] \in 0..DIM /\ grown[h] <= Factor(q[h], U)
      BY <1>5, <2>2, ElementOfSeq
    <3>3. q[h] \in Tuple
      BY <1>1, <1>5, ElementOfSeq
    <3>4. Factor(q[h], U) \in 0..DIM
      BY <1>17, <3>3, FactorBounds
    <3>5. grown[h] # DIM
      BY <1>5, <3>1, <3>2, <3>4
    <3> QED
      BY <1>4, <2>4, <3>5 DEF Image
  <2>8. CASE dom < DIM /\ d = [s |-> pt, domFactors |-> ga]
    <3>1. \A j \in 1..(m + 1) : j \in 1..m \/ j = m + 1
      BY <1>7
    <3>2. Image(pt) = Image(p) \cup {t}
      <4>1. m + 1 \in 1..(m + 1) /\ \A j \in 1..m : j \in 1..(m + 1)
        BY <1>7
      <4> QED
        BY <1>4, <1>13, <3>1, <4>1 DEF Image
    <3>3. Distinct(pt)
      <4>1. \A j \in 1..m : p[j] # t
        BY <1>4, <1>17, <2>5 DEF Image
      <4>2. \A j, k \in 1..m : p[j] = p[k] => j = k
        BY <1>4, <2>4 DEF Distinct
      <4>3. \A j, k \in 1..(m + 1) : pt[j] = pt[k] => j = k
        BY <1>13, <3>1, <4>1, <4>2
      <4> QED
        BY <1>13, <4>3 DEF Distinct
    <3>4. ASSUME NEW j \in 1..(m + 1) PROVE ga[j] <= Factor(pt[j], U)
      <4>1. CASE j = m + 1
        BY <1>9, <1>13, <1>14, <1>17, <2>3, <4>1
      <4>2. CASE j \in 1..m
        BY <1>13, <1>14, <2>6, <4>2
      <4> QED
        BY <3>1, <4>1, <4>2
    <3>5. (K \cup {t}) \cap Skyline(U) \subseteq Image(pt)
      BY <2>1, <2>7, <3>2
    <3>6. Image(pt) \subseteq U /\ Image(pt) \subseteq Image(q) \cup {t}
      BY <1>17, <2>1, <2>5, <3>2
    <3>7. d.s = pt /\ d.domFactors = ga
      BY <2>8
    <3> QED
      BY ONLY <1>13, <1>16, <3>3, <3>4, <3>5, <3>6, <3>7 DEF Keeps
  <2>9. CASE dom = DIM /\ d = [s |-> p, domFactors |-> g]
    <3>1. t \notin Skyline(U)
      BY <1>5, <2>3, <2>9 DEF Skyline
    <3>2. (K \cup {t}) \cap Skyline(U) \subseteq Image(p)
      BY <2>1, <2>7, <3>1
    <3>3. Image(p) \subseteq U /\ Image(p) \subseteq Image(q) \cup {t}
      BY <2>1, <2>5
    <3>4. d.s = p /\ d.domFactors = g
      BY <2>9
    <3> QED
      BY ONLY <1>4, <1>16, <2>4, <2>6, <3>2, <3>3, <3>4 DEF Keeps
  <2> QED
    BY <1>15, <2>8, <2>9
<1> QED
  BY <1>1, <1>10, <1>16, <1>17

\* A TopdSet that gets a tuple more keeps what it has to among all the tuples.
LEMMA TopdTuple ==
    ASSUME NEW T \in SUBSET Tuple, NEW c, Keeps(c, T, T), NEW t \in Tuple, t \notin T
    PROVE  /\ Topd!addComputeTuple(c, t) \in TopdState
           /\ Keeps(Topd!addComputeTuple(c, t), T \cup {t}, T \cup {t})
<1>1. PICK U : U = T \cup {t}
  OBVIOUS
<1>2. U \in SUBSET Tuple /\ T \subseteq U /\ t \in U
  BY <1>1
<1>3. Keeps(c, U, T)
  BY <1>2, KeepsMore
<1>4. c \in TopdState /\ t \notin Image(c.s)
  BY DEF Keeps
<1>5. 0 \in 0..DIM /\ 0 <= Factor(t, U)
  BY <1>2, FactorBounds, Coordinates
<1>6. PICK d : d = Topd!updateTopd(c, t, 0)
  OBVIOUS
<1>7. d \in TopdState /\ Keeps(d, U, T \cup {t})
  BY <1>2, <1>3, <1>4, <1>5, <1>6, UpdateTopd
<1>8. Topd!addComputeTuple(c, t) = d
  BY <1>6 DEF Topd!addComputeTuple
<1> QED
  BY <1>1, <1>7, <1>8

-----------------------------------------------------------------------------
(* TopdSets come to a TopdSet                                              *)

\* The states that a TopdSet c goes through while the tuples of B come.
TopdTurns(c, B, v) ==
    /\ v \in [0..Len(B.s) -> TopdState]
    /\ v[0] = c
    /\ \A k \in 1..Len(B.s) :
          v[k] = Topd!updateTopd(v[k - 1], B.s[k], B.domFactors[k])
    /\ Topd!addComputeSet(c, B) = v[Len(B.s)]

\* There are such states.
LEMMA TopdHasTurns ==
    ASSUME NEW c \in TopdState, NEW B \in TopdState, c.s # <<>>
    PROVE  \E v : TopdTurns(c, B, v)
<1>1. PICK q, f, n : q = B.s /\ f = B.domFactors /\ n = Len(q)
  OBVIOUS
<1>2. n \in Nat /\ q \in Seq(Tuple) /\ f \in Seq(0..DIM) /\ Len(f) = n
  BY <1>1, LenProperties DEF TopdState
<1> DEFINE Y == TopdState
           F == [di \in Y \X (1..n) |-> Topd!updateTopd(di[1], q[di[2]], f[di[2]])]
<1>3. c \in Y
  OBVIOUS
<1>4. ASSUME NEW d \in Y, NEW i \in 1..n PROVE Topd!updateTopd(d, q[i], f[i]) \in Y
  <2>1. q[i] \in Tuple /\ f[i] \in 0..DIM
    BY <1>1, <1>2, ElementOfSeq
  <2> QED
    BY <2>1, UpdateTopd
<1> HIDE DEF Y
<1>5. F \in [Y \X (1..n) -> Y]
  BY <1>4
<1>6. ASSUME NEW d \in Y, NEW i \in 1..n
      PROVE  F[<<d, i>>] = Topd!updateTopd(d, q[i], f[i])
  OBVIOUS
<1> HIDE DEF F
<1>7. PICK h \in [SUBSET (1..n) -> Y] : FoldValues(h, F, c, n)
  BY <1>2, <1>3, <1>5, FoldExists
<1>8. h = [w \in SUBSET (1..n) |->
             IF w = {} THEN c
             ELSE Topd!updateTopd(h[w \ {Max(w)}], q[Max(w)], f[Max(w)])]
  <2>1. ASSUME NEW w \in SUBSET (1..n), w # {}
        PROVE  F[<<h[w \ {Max(w)}], Max(w)>>] =
                  Topd!updateTopd(h[w \ {Max(w)}], q[Max(w)], f[Max(w)])
    <3>1. w \in SUBSET (0..n)
      OBVIOUS
    <3>2. Max(w) \in 1..n
      BY <1>2, <2>1, <3>1, GreatestElement
    <3>3. PICK a : a = Max(w)
      OBVIOUS
    <3>4. PICK d : d = h[w \ {a}]
      OBVIOUS
    <3>5. d \in Y /\ a \in 1..n
      BY <3>2, <3>3, <3>4
    <3> QED
      BY <1>6, <3>3, <3>4, <3>5
  <2> QED
    BY <1>7, <2>1 DEF FoldValues
\* The fold takes the numbers of the places from a sequence of them.
<1>9. PICK places : places = [i \in 1..n |-> i]
  OBVIOUS
<1>10. DOMAIN places = 1..n /\ \A i \in 1..n : places[i] = i
  BY <1>9
<1>11. PICK g : g = CHOOSE z : z = [w \in SUBSET (1..n) |->
                  IF w = {} THEN c
                  ELSE Topd!updateTopd(z[w \ {Max(w)}], q[places[Max(w)]],
                                       f[places[Max(w)]])]
  OBVIOUS
<1>12. h = [w \in SUBSET (1..n) |->
              IF w = {} THEN c
              ELSE Topd!updateTopd(h[w \ {Max(w)}], q[places[Max(w)]],
                                   f[places[Max(w)]])]
  <2>1. ASSUME NEW w \in SUBSET (1..n), w # {} PROVE places[Max(w)] = Max(w)
    <3>1. w \in SUBSET (0..n)
      OBVIOUS
    <3>2. Max(w) \in 1..n
      BY <1>2, <2>1, <3>1, GreatestElement
    <3> QED
      BY <1>10, <3>2
  <2> QED
    BY <1>8, <2>1
<1>13. g = [w \in SUBSET (1..n) |->
              IF w = {} THEN c
              ELSE Topd!updateTopd(g[w \ {Max(w)}], q[places[Max(w)]],
                                   f[places[Max(w)]])]
  BY <1>11, <1>12
<1>14. Topd!addComputeSet(c, B) = g[1..n]
  BY <1>1, <1>9, <1>10, <1>11
     DEF Topd!addComputeSet, Topd!FoldLeft, Topd!MapThenFoldSet, Topd!Max, Max, Topd!Len
<1>15. FoldsSegments(g, F, c, n, Y)
  <2>1. g[{}] = c
    BY <1>13
  <2>2. ASSUME NEW k \in 1..n, g[1..(k - 1)] \in Y
        PROVE  g[1..k] = F[<<g[1..(k - 1)], k>>]
    <3>1. 1..k \in SUBSET (1..n) /\ 1..k # {} /\ Max(1..k) = k /\ (1..k) \ {k} = 1..(k - 1)
      BY <1>2, Segments
    <3>2. g[1..k] = Topd!updateTopd(g[1..(k - 1)], q[k], f[k])
      <4>1. PICK w : w = 1..k
        OBVIOUS
      <4>2. /\ w \in SUBSET (1..n) /\ w # {} /\ w \ {Max(w)} = 1..(k - 1)
            /\ places[Max(w)] = k
        BY <1>10, <3>1, <4>1
      <4>3. g[w] = Topd!updateTopd(g[w \ {Max(w)}], q[places[Max(w)]], f[places[Max(w)]])
        BY ONLY <1>13, <4>2
      <4> QED
        BY ONLY <4>1, <4>2, <4>3
    <3> QED
      BY <1>6, <2>2, <3>2
  <2> QED
    BY <2>1, <2>2 DEF FoldsSegments
<1>16. PICK v \in [0..n -> Y] : FoldSteps(v, F, c, n, g[1..n])
  BY ONLY <1>2, <1>3, <1>5, <1>15, FoldedStates
<1>17. /\ v[0] = c /\ v[n] = g[1..n]
       /\ \A k \in 1..n : v[k] = Topd!updateTopd(v[k - 1], q[k], f[k])
  <2>1. ASSUME NEW k \in 1..n PROVE v[k] = Topd!updateTopd(v[k - 1], q[k], f[k])
    <3>1. k - 1 \in 0..n
      BY <1>2
    <3>2. v[k - 1] \in Y
      BY <1>16, <3>1
    <3> QED
      BY <1>6, <1>16, <3>2 DEF FoldSteps
  <2> QED
    BY <1>16, <2>1 DEF FoldSteps
<1>18. v \in [0..n -> TopdState]
  BY <1>16 DEF Y
<1> QED
  BY <1>1, <1>14, <1>17, <1>18 DEF TopdTurns

\* A TopdSet that gets all that another one of other tuples holds keeps what it has
\* to among the tuples of both.
LEMMA TopdSetKept ==
    ASSUME NEW TA \in SUBSET Tuple, NEW TB \in SUBSET Tuple, TA \cap TB = {},
           NEW c, Keeps(c, TA, TA), NEW B, Keeps(B, TB, TB)
    PROVE  Keeps(Topd!addComputeSet(c, B), TA \cup TB, TA \cup TB)
<1>1. PICK U : U = TA \cup TB
  OBVIOUS
<1>2. U \in SUBSET Tuple /\ TA \subseteq U /\ TB \subseteq U
  BY <1>1
<1>3. /\ Keeps(c, U, TA) /\ Keeps(B, U, TB)
      /\ TB \cap Skyline(U) \subseteq Skyline(TB)
  BY <1>2, KeepsMore
<1>4. c \in TopdState /\ B \in TopdState
  BY DEF Keeps
<1>5. CASE c.s = <<>>
  <2>1. Image(c.s) = {}
    BY <1>5 DEF Image
  <2>2. U \cap Skyline(U) \subseteq Image(B.s)
    BY <1>1, <1>3, <2>1 DEF Keeps
  <2>3. Keeps(B, U, U)
    BY <1>3, <2>2 DEF Keeps
  <2> QED
    BY <1>1, <1>5, <2>3 DEF Topd!addComputeSet
<1>6. CASE c.s # <<>>
  <2>1. PICK v : TopdTurns(c, B, v)
    BY <1>4, <1>6, TopdHasTurns
  <2>2. PICK q, f, n : q = B.s /\ f = B.domFactors /\ n = Len(q)
    OBVIOUS
  <2>3. /\ n \in Nat /\ q \in Seq(Tuple) /\ f \in Seq(0..DIM) /\ Len(f) = n
    BY <1>4, <2>2, LenProperties DEF TopdState
  <2>4. /\ Distinct(q) /\ Image(q) \subseteq TB
        /\ \A i \in 1..n : f[i] <= Factor(q[i], U)
        /\ TB \cap Skyline(TB) \subseteq Image(q)
    BY <1>3, <2>2 DEF Keeps
  <2> DEFINE Q == {k \in 0..n : /\ Keeps(v[k], U, TA \cup First(q, k))
                                /\ Image(v[k].s) \subseteq TA \cup First(q, k)}
  <2>5. 0 \in Q
    <3>1. First(q, 0) = {}
      BY DEF First
    <3>2. v[0] = c
      BY <2>1 DEF TopdTurns
    <3>3. Image(c.s) \subseteq TA
      BY DEF Keeps
    <3>4. TA \cup First(q, 0) = TA /\ 0 \in 0..n
      BY <2>3, <3>1
    <3> QED
      BY ONLY <1>3, <3>2, <3>3, <3>4 DEF Q
  <2>6. ASSUME NEW k \in 1..n, k - 1 \in Q PROVE k \in Q
    <3>1. PICK e, t, known, d : e = v[k - 1] /\ t = q[k] /\ known = f[k] /\ d = v[k]
      OBVIOUS
    <3>2. PICK C : C = First(q, k - 1)
      OBVIOUS
    <3>3. Keeps(e, U, TA \cup C) /\ Image(e.s) \subseteq TA \cup C
      BY <2>6, <3>1, <3>2
    <3>4. d = Topd!updateTopd(e, t, known)
      BY <2>1, <2>2, <3>1 DEF TopdTurns
    <3>5. First(q, k) = C \cup {t} /\ t \notin C
      <4>1. 1..k = 1..(k - 1) \cup {k} /\ 1..(k - 1) \subseteq 1..n
        BY <2>3
      <4>2. \A j \in 1..(k - 1) : q[j] # q[k]
        BY <2>2, <2>3, <2>4, <4>1 DEF Distinct
      <4> QED
        BY <3>1, <3>2, <4>1, <4>2 DEF First
    <3>6. t \in TB /\ t \in U /\ t \in Tuple /\ known \in 0..DIM /\ known <= Factor(t, U)
      <4>1. t \in Image(q)
        BY <2>2, <3>1 DEF Image
      <4>2. known \in 0..DIM
        BY <2>3, <3>1, ElementOfSeq
      <4> QED
        BY <1>2, <2>4, <3>1, <4>1, <4>2
    <3>7. e \in TopdState /\ t \notin Image(e.s)
      BY <3>3, <3>5, <3>6 DEF Keeps
    <3>8. PICK K : K = TA \cup C
      OBVIOUS
    <3>9. /\ Keeps(d, U, K \cup {t}) /\ Image(d.s) \subseteq Image(e.s) \cup {t}
      BY ONLY <1>2, <3>3, <3>4, <3>6, <3>7, <3>8, UpdateTopd
    <3>10. K \cup {t} = TA \cup First(q, k)
      BY <3>5, <3>8
    <3>11. Image(d.s) \subseteq TA \cup First(q, k)
      BY <3>3, <3>5, <3>9
    <3>12. Keeps(d, U, TA \cup First(q, k))
      BY <3>9, <3>10
    <3>13. k \in 0..n
      BY <2>3
    <3> QED
      BY ONLY <3>1, <3>11, <3>12, <3>13 DEF Q
  <2>7. n \in Q
    <3>1. Q \in SUBSET (0..n)
      OBVIOUS
    <3> HIDE DEF Q
    <3>2. Q = 0..n
      BY <2>3, <2>5, <2>6, <3>1, TurnsInduction
    <3> QED
      BY <2>3, <3>2
  <2>8. First(q, n) = Image(q)
    BY <2>2 DEF First, Image
  <2>9. PICK d : d = v[n]
    OBVIOUS
  <2>10. Keeps(d, U, TA \cup Image(q))
    BY <2>7, <2>8, <2>9
  <2>11. U \cap Skyline(U) \subseteq (TA \cup Image(q)) \cap Skyline(U)
    BY <1>1, <1>3, <2>4
  <2>12. Keeps(d, U, U)
    BY <2>10, <2>11 DEF Keeps
  <2>13. Topd!addComputeSet(c, B) = d
    BY <2>1, <2>2, <2>9 DEF TopdTurns
  <2> QED
    BY <1>1, <2>12, <2>13
<1> QED
  BY <1>5, <1>6

-----------------------------------------------------------------------------
(* The invariant                                                           *)

\* The tuples that have come so far.
Filled == UNION {inputs[q] : q \in Partitions}

RTypeOK ==
    /\ query \in Queries
    /\ rset \in [AllSets -> [s : Seq(Tuple), domFactors : Seq(0..DIM)]]
    /\ inputs \in [AllSets -> SUBSET Tuple]

\* The next tuple is a new one: those that have come are numbered.
Numbered ==
    /\ IsFiniteSet(Filled)
    /\ \A t \in Filled : t.app_ts <= Cardinality(Filled)

\* A results set holds what it has to of the tuples it stands for.
HoldsAll ==
    \A r \in AllSets :
        /\ query = "skyline" => Holds(rset[r].s, inputs[r])
        /\ query = "topd" => Keeps(rset[r], inputs[r], inputs[r])

RInv == RTypeOK /\ Numbered /\ HoldsAll

\* No results set has a tuple at the start.
LEMMA RInvInit == Init => RInv
<1> SUFFICES ASSUME Init PROVE RInv
  OBVIOUS
<1>1. RTypeOK
  BY DEF Init, RTypeOK, Empty
<1>2. Filled = {}
  BY DEF Init, Filled, AllSets
<1>3. Numbered
  BY <1>2, FS_EmptySet DEF Numbered
<1>4. ASSUME NEW r \in AllSets
      PROVE  Holds(rset[r].s, inputs[r]) /\ Keeps(rset[r], inputs[r], inputs[r])
  <2>1. rset[r] = Empty /\ inputs[r] = {}
    BY DEF Init
  <2>2. PICK q \in Seq(Tuple) : q = <<>>
    BY EmptySeq
  <2>3. Len(q) = 0 /\ Distinct(q) /\ Image(q) = {}
    BY <2>2 DEF Distinct, Image
  <2>4. Empty = [s |-> q, domFactors |-> <<>>] /\ Empty.s = q
    BY <2>2 DEF Empty
  <2>5. Empty \in TopdState
    BY <2>2, <2>4 DEF TopdState
  <2>6. Holds(q, {})
    BY <2>3 DEF Holds
  <2>7. Keeps(Empty, {}, {})
    BY <2>3, <2>4, <2>5 DEF Keeps
  <2> QED
    BY <2>1, <2>4, <2>6, <2>7
<1>5. HoldsAll
  BY <1>4 DEF HoldsAll
<1> QED
  BY <1>1, <1>3, <1>5 DEF RInv

\* A tuple comes to a partition.
LEMMA RInvTuple ==
    ASSUME RInv, NEW r \in Partitions, NEW coordinates \in [1..DIM -> Coordinate],
           addComputeTuple(r, coordinates)
    PROVE  RInv'
<1>1. PICK n : n = Cardinality(Filled) + 1
  OBVIOUS
<1>2. PICK t : t = [d |-> coordinates, app_ts |-> n]
  OBVIOUS
<1>3. /\ n <= MaxTuples /\ query' = query
      /\ inputs' = [inputs EXCEPT ![r] = inputs[r] \cup {t}]
      /\ rset' = IF query = "skyline"
                 THEN [rset EXCEPT ![r].s = Sky!addComputeTuple(rset[r].s, t)]
                 ELSE [rset EXCEPT ![r] = Topd!addComputeTuple(rset[r], t)]
  BY <1>1, <1>2 DEF addComputeTuple, Filled
<1>4. /\ IsFiniteSet(Filled) /\ n - 1 = Cardinality(Filled) /\ n \in Nat \ {0}
      /\ \A u \in Filled : u.app_ts <= n - 1
  <2>1. Cardinality(Filled) \in Nat
    BY FS_CardinalityType DEF RInv, Numbered
  <2> QED
    BY <1>1, <2>1 DEF RInv, Numbered
<1>5. t \in Tuple /\ t.app_ts = n
  BY <1>2, <1>3, <1>4, RsetAssumption DEF Tuple
<1>6. t \notin Filled
  BY <1>4, <1>5
<1>7. r \in AllSets /\ inputs[r] \subseteq Filled /\ t \notin inputs[r]
  BY <1>6 DEF AllSets, Filled
<1>8. inputs' \in [AllSets -> SUBSET Tuple]
  BY <1>3, <1>5, <1>7 DEF RInv, RTypeOK
<1>9. Filled' = Filled \cup {t}
  <2>1. inputs'[r] = inputs[r] \cup {t}
    BY <1>3, <1>7 DEF RInv, RTypeOK
  <2>2. \A q \in Partitions : q # r => inputs'[q] = inputs[q]
    BY <1>3 DEF RInv, RTypeOK, AllSets
  <2> QED
    BY <2>1, <2>2 DEF Filled
<1>10. Numbered'
  <2>1. IsFiniteSet(Filled') /\ Cardinality(Filled') = n
    BY <1>4, <1>6, <1>9, FS_AddElement
  <2>2. ASSUME NEW u \in Filled' PROVE u.app_ts <= n
    <3>1. CASE u = t
      BY <1>4, <1>5, <3>1
    <3>2. CASE u \in Filled
      <4>1. u \in Tuple
        BY <3>2 DEF RInv, RTypeOK, Filled, AllSets
      <4>2. u.app_ts \in Int
        BY <4>1 DEF Tuple
      <4>3. u.app_ts <= n - 1
        BY <1>4, <3>2
      <4> QED
        BY <1>4, <4>2, <4>3
    <3> QED
      BY <1>9, <3>1, <3>2
  <2> QED
    BY <2>1, <2>2 DEF Numbered
<1>11. PICK c : c = rset[r]
  OBVIOUS
<1>12. /\ c \in [s : Seq(Tuple), domFactors : Seq(0..DIM)] /\ inputs[r] \in SUBSET Tuple
       /\ rset \in [AllSets -> [s : Seq(Tuple), domFactors : Seq(0..DIM)]]
  BY <1>7, <1>11 DEF RInv, RTypeOK
\* What becomes of the results set.
<1>13. PICK d : d = IF query = "skyline" THEN [c EXCEPT !.s = Sky!addComputeTuple(c.s, t)]
                    ELSE Topd!addComputeTuple(c, t)
  OBVIOUS
<1>14. rset' = [rset EXCEPT ![r] = d]
  <2>1. CASE query = "skyline"
    BY <1>3, <1>11, <1>13, <2>1
  <2>2. CASE query # "skyline"
    BY <1>3, <1>11, <1>13, <2>2
  <2> QED
    BY <2>1, <2>2
<1>15. /\ d \in [s : Seq(Tuple), domFactors : Seq(0..DIM)]
       /\ query = "skyline" => Holds(d.s, inputs[r] \cup {t})
       /\ query = "topd" => Keeps(d, inputs[r] \cup {t}, inputs[r] \cup {t})
  <2>1. CASE query = "skyline"
    <3>1. PICK q : q = Sky!addComputeTuple(c.s, t)
      OBVIOUS
    <3>2. Holds(c.s, inputs[r])
      BY <1>7, <1>11, <2>1 DEF RInv, HoldsAll
    <3>3. c.s \in Seq(Tuple)
      BY <1>12
    <3>4. q \in Seq(Tuple) /\ Holds(q, inputs[r] \cup {t})
      BY ONLY <1>5, <1>7, <1>12, <3>1, <3>2, <3>3, TupleHeld
    <3>5. d = [c EXCEPT !.s = q]
      BY <1>13, <2>1, <3>1
    <3>6. d.s = q /\ d \in [s : Seq(Tuple), domFactors : Seq(0..DIM)]
      BY <1>12, <3>4, <3>5
    <3> QED
      BY <2>1, <3>4, <3>6
  <2>2. CASE query # "skyline"
    <3>1. query = "topd"
      BY <2>2, RsetAssumption DEF RInv, RTypeOK
    <3>2. Keeps(c, inputs[r], inputs[r])
      BY <1>7, <1>11, <3>1 DEF RInv, HoldsAll
    <3>3. d = Topd!addComputeTuple(c, t)
      BY <1>13, <2>2
    <3>4. d \in TopdState /\ Keeps(d, inputs[r] \cup {t}, inputs[r] \cup {t})
      BY ONLY <1>5, <1>7, <1>12, <3>2, <3>3, TopdTuple
    <3> QED
      BY <2>2, <3>4 DEF TopdState
  <2> QED
    BY <2>1, <2>2
<1>16. rset' \in [AllSets -> [s : Seq(Tuple), domFactors : Seq(0..DIM)]]
  BY <1>12, <1>14, <1>15
<1>17. RTypeOK'
  BY <1>3, <1>8, <1>16 DEF RInv, RTypeOK, AllSets
<1>18. ASSUME NEW q \in AllSets
       PROVE  /\ query' = "skyline" => Holds(rset'[q].s, inputs'[q])
              /\ query' = "topd" => Keeps(rset'[q], inputs'[q], inputs'[q])
  <2>1. CASE q = r
    <3>1. rset'[r] = d /\ inputs'[r] = inputs[r] \cup {t}
      BY <1>3, <1>7, <1>12, <1>14 DEF RInv, RTypeOK
    <3> QED
      BY <1>3, <1>15, <2>1, <3>1
  <2>2. CASE q # r
    <3>1. rset'[q] = rset[q] /\ inputs'[q] = inputs[q]
      BY <1>3, <1>12, <1>14, <2>2 DEF RInv, RTypeOK
    <3> QED
      BY <1>3, <3>1 DEF RInv, HoldsAll
  <2> QED
    BY <2>1, <2>2
<1>19. HoldsAll'
  BY <1>18 DEF HoldsAll, AllSets
<1> QED
  BY <1>10, <1>17, <1>19 DEF RInv

\* A results set gets another one.
LEMMA RInvSet ==
    ASSUME RInv, NEW r \in Gathered, NEW B \in AllSets, addComputeSet(r, B)
    PROVE  RInv'
<1>1. /\ inputs[r] \cap inputs[B] = {} /\ query' = query
      /\ inputs' = [inputs EXCEPT ![r] = inputs[r] \cup inputs[B]]
      /\ rset' = IF query = "skyline"
                 THEN [rset EXCEPT ![r].s = Sky!addComputeSet(rset[r].s, rset[B].s)]
                 ELSE [rset EXCEPT ![r] = Topd!addComputeSet(rset[r], rset[B])]
  BY DEF addComputeSet
<1>2. r \in AllSets /\ r \notin Partitions
  BY RsetAssumption DEF AllSets
<1>3. inputs' \in [AllSets -> SUBSET Tuple]
  BY <1>1, <1>2 DEF RInv, RTypeOK
<1>4. Filled' = Filled
  <2>1. \A q \in Partitions : inputs'[q] = inputs[q]
    BY <1>1, <1>2 DEF RInv, RTypeOK, AllSets
  <2> QED
    BY <2>1 DEF Filled
<1>5. Numbered'
  BY <1>4 DEF RInv, Numbered
<1>6. PICK c, b, TA, TB : c = rset[r] /\ b = rset[B] /\ TA = inputs[r] /\ TB = inputs[B]
  OBVIOUS
<1>7. /\ c \in [s : Seq(Tuple), domFactors : Seq(0..DIM)]
      /\ b \in [s : Seq(Tuple), domFactors : Seq(0..DIM)]
      /\ TA \in SUBSET Tuple /\ TB \in SUBSET Tuple /\ TA \cap TB = {}
      /\ rset \in [AllSets -> [s : Seq(Tuple), domFactors : Seq(0..DIM)]]
  BY <1>1, <1>2, <1>6 DEF RInv, RTypeOK
\* What becomes of the results set.
<1>8. PICK d : d = IF query = "skyline" THEN [c EXCEPT !.s = Sky!addComputeSet(c.s, b.s)]
                   ELSE Topd!addComputeSet(c, b)
  OBVIOUS
<1>9. rset' = [rset EXCEPT ![r] = d]
  <2>1. CASE query = "skyline"
    BY <1>1, <1>6, <1>8, <2>1
  <2>2. CASE query # "skyline"
    BY <1>1, <1>6, <1>8, <2>2
  <2> QED
    BY <2>1, <2>2
<1>10. /\ d \in [s : Seq(Tuple), domFactors : Seq(0..DIM)]
       /\ query = "skyline" => Holds(d.s, TA \cup TB)
       /\ query = "topd" => Keeps(d, TA \cup TB, TA \cup TB)
  <2>1. CASE query = "skyline"
    <3>1. PICK q : q = Sky!addComputeSet(c.s, b.s)
      OBVIOUS
    <3>2. Holds(c.s, TA) /\ Holds(b.s, TB)
      BY <1>2, <1>6, <2>1 DEF RInv, HoldsAll
    <3>3. c.s \in Seq(Tuple) /\ b.s \in Seq(Tuple)
      BY <1>7
    <3>4. q \in Seq(Tuple) /\ Holds(q, TA \cup TB)
      BY ONLY <1>7, <3>1, <3>2, <3>3, SetHeld
    <3>5. d = [c EXCEPT !.s = q]
      BY <1>8, <2>1, <3>1
    <3>6. d.s = q /\ d \in [s : Seq(Tuple), domFactors : Seq(0..DIM)]
      BY <1>7, <3>4, <3>5
    <3> QED
      BY <2>1, <3>4, <3>6
  <2>2. CASE query # "skyline"
    <3>1. query = "topd"
      BY <2>2, RsetAssumption DEF RInv, RTypeOK
    <3>2. Keeps(c, TA, TA) /\ Keeps(b, TB, TB)
      BY <1>2, <1>6, <3>1 DEF RInv, HoldsAll
    <3>3. d = Topd!addComputeSet(c, b)
      BY <1>8, <2>2
    <3>4. Keeps(d, TA \cup TB, TA \cup TB)
      BY ONLY <1>7, <3>2, <3>3, TopdSetKept
    <3>5. d \in TopdState
      BY <3>4 DEF Keeps
    <3> QED
      BY <2>2, <3>4, <3>5 DEF TopdState
  <2> QED
    BY <2>1, <2>2
<1>11. rset' \in [AllSets -> [s : Seq(Tuple), domFactors : Seq(0..DIM)]]
  BY <1>7, <1>9, <1>10
<1>12. RTypeOK'
  BY <1>1, <1>3, <1>11 DEF RInv, RTypeOK, AllSets
<1>13. ASSUME NEW q \in AllSets
       PROVE  /\ query' = "skyline" => Holds(rset'[q].s, inputs'[q])
              /\ query' = "topd" => Keeps(rset'[q], inputs'[q], inputs'[q])
  <2>1. CASE q = r
    <3>1. rset'[r] = d /\ inputs'[r] = TA \cup TB
      BY <1>1, <1>2, <1>6, <1>7, <1>9 DEF RInv, RTypeOK
    <3> QED
      BY <1>1, <1>10, <2>1, <3>1
  <2>2. CASE q # r
    <3>1. rset'[q] = rset[q] /\ inputs'[q] = inputs[q]
      BY <1>1, <1>7, <1>9, <2>2 DEF RInv, RTypeOK
    <3> QED
      BY <1>1, <3>1 DEF RInv, HoldsAll
  <2> QED
    BY <2>1, <2>2
<1>14. HoldsAll'
  BY <1>13 DEF HoldsAll, AllSets
<1> QED
  BY <1>5, <1>12, <1>14 DEF RInv

\* The invariant is inductive.
LEMMA RInvNext == RInv /\ [Next]_vars => RInv'
<1>1. ASSUME RInv, UNCHANGED vars PROVE RInv'
  BY <1>1 DEF RInv, RTypeOK, Numbered, Filled, HoldsAll, AllSets, vars
<1>2. ASSUME RInv, Next PROVE RInv'
  BY <1>2, RInvTuple, RInvSet DEF Next
<1> QED
  BY <1>1, <1>2

LEMMA RInvHolds == Spec => []RInv
  BY RInvInit, RInvNext, PTL DEF Spec

-----------------------------------------------------------------------------
(* The theorems                                                            *)

\* A results set of the skyline query is the skyline of all the tuples it stands
\* for, each once, however they were split and merged.
THEOREM SkylineCorrect == Spec => []SkylineExact
<1>1. RInv => SkylineExact
  <2> SUFFICES ASSUME RInv, query = "skyline", NEW r \in AllSets
               PROVE  /\ Stored(r) = Skyline(inputs[r])
                      /\ Len(rset[r].s) = Cardinality(Stored(r))
    BY DEF SkylineExact
  <2>1. PICK q, T : q = rset[r].s /\ T = inputs[r]
    OBVIOUS
  <2>2. q \in Seq(Tuple) /\ T \in SUBSET Tuple /\ Holds(q, T)
    BY <2>1 DEF RInv, RTypeOK, HoldsAll
  <2>3. Image(q) = Skyline(T) /\ Len(q) = Cardinality(Image(q))
    BY <2>2, HoldsSkyline
  <2>4. Stored(r) = Image(q)
    <3>1. DOMAIN q = 1..Len(q)
      BY <2>2, LenProperties
    <3> QED
      BY <2>1, <3>1 DEF Stored, Image
  <2> QED
    BY <2>1, <2>3, <2>4
<1> QED
  BY <1>1, RInvHolds, PTL

\* A results set of the top-delta dominant skyline query loses no tuple of the
\* skyline, stores none twice and overestimates no dominance factor.
THEOREM FactorsCorrect == Spec => []FactorsBounded
<1>1. RInv => FactorsBounded
  <2> SUFFICES ASSUME RInv, query = "topd", NEW r \in AllSets
               PROVE  LET c == rset[r] IN
                      /\ Skyline(inputs[r]) \subseteq Stored(r)
                      /\ Len(c.s) = Cardinality(Stored(r))
                      /\ Len(c.domFactors) = Len(c.s)
                      /\ \A i \in DOMAIN c.s : c.domFactors[i] <= Factor(c.s[i], inputs[r])
    BY DEF FactorsBounded
  <2>1. PICK c, T : c = rset[r] /\ T = inputs[r]
    OBVIOUS
  <2>2. Keeps(c, T, T)
    BY <2>1 DEF RInv, HoldsAll
  <2>3. c.s \in Seq(Tuple) /\ Len(c.domFactors) = Len(c.s)
    BY <2>2 DEF Keeps, TopdState
  <2>4. DOMAIN c.s = 1..Len(c.s)
    BY <2>3, LenProperties
  <2>5. Stored(r) = Image(c.s)
    BY <2>1, <2>4 DEF Stored, Image
  <2>6. Len(c.s) = Cardinality(Image(c.s))
    BY <2>2, <2>3, DistinctLength DEF Keeps
  <2>7. Skyline(T) \subseteq Image(c.s)
    BY <2>2 DEF Keeps, Skyline
  <2>8. \A i \in DOMAIN c.s : c.domFactors[i] <= Factor(c.s[i], T)
    BY <2>2, <2>4 DEF Keeps
  <2> QED
    BY <2>1, <2>3, <2>5, <2>6, <2>7, <2>8
<1> QED
  BY <1>1, RInvHolds, PTL

=============================================================================
