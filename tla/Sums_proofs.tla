---------------------------- MODULE Sums_proofs ----------------------------
(***************************************************************************)
(* Lemmas about the operators that the models share: induction and         *)
(* recursion with sets in the place of formulas, the sum of a function     *)
(* over a finite set, and the elements of a sequence of sets.              *)
(***************************************************************************)
EXTENDS Integers, Sequences, SequencesExt, FiniteSetTheorems,
        SequenceTheorems, NaturalsInduction, TLAPS

\* One pair for each unit that f counts on s.
Units(f, s) == {u \in s \X Nat : u[2] \in 1..f[u[1]]}

\* The sets of a sequence are not empty and have no element in common.
Separate(q) ==
    /\ \A i \in 1..Len(q) : q[i] # {}
    /\ \A i, j \in 1..Len(q) : i # j => q[i] \cap q[j] = {}

-----------------------------------------------------------------------------
(* Sums                                                                    *)

\* The units of a set with one more element.
LEMMA UnitsAdd ==
    ASSUME NEW S, NEW f \in [S -> Nat], NEW s \in SUBSET S, NEW x \in s,
           IsFiniteSet(Units(f, s \ {x}))
    PROVE  /\ IsFiniteSet(Units(f, s))
           /\ Cardinality(Units(f, s)) = f[x] + Cardinality(Units(f, s \ {x}))
<1> DEFINE A == {x} \X (1..f[x])
           B == Units(f, s \ {x})
<1>1. Units(f, s) = A \cup B /\ A \cap B = {}
  BY DEF Units
<1>2. IsFiniteSet(A) /\ Cardinality(A) = f[x]
  <2>1. IsFiniteSet(1..f[x]) /\ Cardinality(1..f[x]) = f[x]
    BY FS_Interval
  <2>2. IsFiniteSet({x}) /\ Cardinality({x}) = 1
    BY FS_Singleton
  <2>3. IsFiniteSet(A) /\ Cardinality(A) = 1 * f[x]
    BY <2>1, <2>2, FS_Product
  <2> QED
    BY <2>3
<1>3. Cardinality(A \cap B) = 0
  BY <1>1, FS_EmptySet
<1>4. /\ IsFiniteSet(A \cup B)
      /\ Cardinality(A \cup B) = Cardinality(A) + Cardinality(B) - Cardinality(A \cap B)
  BY <1>2, FS_Union
<1>5. Cardinality(B) \in Nat
  BY FS_CardinalityType
<1> QED
  BY <1>1, <1>2, <1>3, <1>4, <1>5

\* In a family of subsets of a finite set, one has no proper subset in it.
LEMMA MinimalSubset ==
    ASSUME NEW S, IsFiniteSet(S), NEW T \in SUBSET (SUBSET S), T # {}
    PROVE  \E s \in T : \A r \in T : r \subseteq s => r = s
<1>1. IsWellFoundedOn(StrictSubsetOrdering(S), FiniteSubsetsOf(S))
  BY FS_StrictSubsetOrderingWellFounded
<1>2. FiniteSubsetsOf(S) = SUBSET S
  BY FS_FiniteSubsetsOfFinite
<1>3. \E s \in T : \A r \in T : ~(<<r, s>> \in StrictSubsetOrdering(S))
  BY <1>1, <1>2, WFMin
<1> QED
  BY <1>3 DEF StrictSubsetOrdering

\* The units of a finite set are finitely many.
LEMMA UnitsFinite ==
    ASSUME NEW S, IsFiniteSet(S), NEW f \in [S -> Nat], NEW s \in SUBSET S
    PROVE  IsFiniteSet(Units(f, s))
<1> DEFINE bad == {r \in SUBSET S : ~IsFiniteSet(Units(f, r))}
<1> SUFFICES ASSUME bad # {} PROVE FALSE
  OBVIOUS
<1>1. PICK r \in bad : \A p \in bad : p \subseteq r => p = r
  <2> HIDE DEF bad
  <2>1. bad \in SUBSET (SUBSET S)
    BY DEF bad
  <2> QED
    BY <2>1, MinimalSubset
<1>2. CASE r = {}
  <2>1. Units(f, r) = {}
    BY <1>2 DEF Units
  <2> QED
    BY <2>1, FS_EmptySet
<1>3. CASE r # {}
  <2>1. PICK x \in r : TRUE
    BY <1>3
  <2>2. IsFiniteSet(Units(f, r \ {x}))
    BY <1>1, <2>1
  <2> QED
    BY <2>2, UnitsAdd
<1> QED
  BY <1>2, <1>3

\* The sum of a function on a finite set is the number of its units.
LEMMA SumIsCount ==
    ASSUME NEW S, IsFiniteSet(S), NEW f \in [S -> Nat]
    PROVE  /\ IsFiniteSet(Units(f, S))
           /\ SumFunction(f) = Cardinality(Units(f, S))
<1> DEFINE Rec(g) == g = [s \in SUBSET S |-> IF s = {} THEN 0
                            ELSE LET x == CHOOSE x \in s : TRUE
                                 IN f[x] + g[s \ {x}]]
           c == [s \in SUBSET S |-> Cardinality(Units(f, s))]
           h == CHOOSE g : Rec(g)
<1>1. SumFunction(f) = h[S]
  BY DEF SumFunction, SumFunctionOnSet, FoldFunctionOnSet, MapThenFoldSet
<1>2. Rec(c)
  <2> SUFFICES ASSUME NEW s \in SUBSET S
               PROVE  c[s] = IF s = {} THEN 0
                             ELSE LET x == CHOOSE x \in s : TRUE IN f[x] + c[s \ {x}]
    OBVIOUS
  <2>1. CASE s = {}
    <3>1. Units(f, s) = {}
      BY <2>1 DEF Units
    <3> QED
      BY <2>1, <3>1, FS_EmptySet
  <2>2. CASE s # {}
    <3> DEFINE x == CHOOSE x \in s : TRUE
    <3>1. x \in s
      BY <2>2
    <3>2. c[s] = f[x] + c[s \ {x}]
      <4> HIDE DEF x
      <4>1. IsFiniteSet(Units(f, s \ {x}))
        BY <3>1, UnitsFinite
      <4> QED
        BY <3>1, <4>1, UnitsAdd
    <3> QED
      BY <2>2, <3>2
  <2> QED
    BY <2>1, <2>2
<1>3. Rec(h)
  <2> HIDE DEF Rec, c
  <2> QED
    BY <1>2
<1>4. h[S] = c[S]
  <2> DEFINE bad == {s \in SUBSET S : h[s] # c[s]}
  <2> HIDE DEF c, h
  <2> SUFFICES ASSUME bad # {} PROVE FALSE
    OBVIOUS
  <2>1. PICK s \in bad : \A r \in bad : r \subseteq s => r = s
    <3> HIDE DEF bad
    <3>1. bad \in SUBSET (SUBSET S)
      BY DEF bad
    <3> QED
      BY <3>1, MinimalSubset
  <2>2. CASE s = {}
    BY <2>2, <2>1, <1>2, <1>3
  <2>3. CASE s # {}
    <3> DEFINE x == CHOOSE x \in s : TRUE
    <3>1. x \in s
      BY <2>3
    <3>2. h[s] = f[x] + h[s \ {x}] /\ c[s] = f[x] + c[s \ {x}]
      BY <2>3, <1>2, <1>3
    <3>3. h[s \ {x}] = c[s \ {x}]
      <4> HIDE DEF x
      <4> QED
        BY <3>1, <2>1
    <3> QED
      BY <3>2, <3>3, <2>1
  <2> QED
    BY <2>2, <2>3
<1> QED
  BY <1>1, <1>4, UnitsFinite

\* The sum when the value grows by one on a subset.
LEMMA SumOneMore ==
    ASSUME NEW S, IsFiniteSet(S), NEW f \in [S -> Nat], NEW g \in [S -> Nat],
           NEW T \in SUBSET S,
           \A x \in S : f[x] = IF x \in T THEN g[x] + 1 ELSE g[x]
    PROVE  /\ SumFunction(f) = SumFunction(g) + Cardinality(T)
           /\ SumFunction(f) \in Nat /\ SumFunction(g) \in Nat
<1> DEFINE A == {<<x, f[x]>> : x \in T}
           B == Units(g, S)
<1>1. Units(f, S) = A \cup B /\ A \cap B = {}
  BY DEF Units
<1>2. IsFiniteSet(T)
  BY FS_Subset
<1>3. IsFiniteSet(A) /\ Cardinality(A) = Cardinality(T)
  <2> DEFINE m == [x \in T |-> <<x, f[x]>>]
  <2>1. m \in Bijection(T, A)
    BY DEF Bijection, Injection, IsInjective, Surjection
  <2> QED
    BY <1>2, <2>1, FS_Bijection DEF ExistsBijection
<1>4. IsFiniteSet(B) /\ SumFunction(g) = Cardinality(B)
  BY SumIsCount
<1>5. SumFunction(f) = Cardinality(Units(f, S))
  BY SumIsCount
<1>6. Cardinality(A \cap B) = 0
  BY <1>1, FS_EmptySet
<1>7. Cardinality(A \cup B) = Cardinality(A) + Cardinality(B) - Cardinality(A \cap B)
  BY <1>3, <1>4, FS_Union
<1>8. Cardinality(A) \in Nat /\ Cardinality(B) \in Nat
  BY <1>3, <1>4, FS_CardinalityType
<1> QED
  BY <1>1, <1>3, <1>4, <1>5, <1>6, <1>7, <1>8

\* The sum when the value at one element grows.
LEMMA SumMore ==
    ASSUME NEW S, IsFiniteSet(S), NEW f \in [S -> Nat], NEW g \in [S -> Nat],
           NEW x \in S, NEW k \in Nat,
           f[x] = g[x] + k, \A y \in S \ {x} : f[y] = g[y]
    PROVE  /\ SumFunction(f) = SumFunction(g) + k
           /\ SumFunction(f) \in Nat /\ SumFunction(g) \in Nat
<1> DEFINE I == (g[x] + 1)..(g[x] + k)
           A == {x} \X I
           B == Units(g, S)
<1>1. Units(f, S) = A \cup B /\ A \cap B = {}
  BY DEF Units
<1>2. IsFiniteSet(I) /\ Cardinality(I) = k
  <2>1. PICK a : a = g[x] + 1
    OBVIOUS
  <2>2. PICK b : b = g[x] + k
    OBVIOUS
  <2>3. a \in Int /\ b \in Int /\ b - a + 1 = k /\ (a > b => k = 0)
    <3>1. PICK c : c = g[x]
      OBVIOUS
    <3>2. c \in Nat
      BY <3>1
    <3>3. a = c + 1 /\ b = c + k
      BY <2>1, <2>2, <3>1
    <3> QED
      BY ONLY <3>2, <3>3, k \in Nat
  <2>4. IsFiniteSet(a..b) /\ Cardinality(a..b) = IF a > b THEN 0 ELSE b - a + 1
    BY ONLY <2>3, FS_Interval
  <2> QED
    BY <2>1, <2>2, <2>3, <2>4
<1>3. IsFiniteSet(A) /\ Cardinality(A) = k
  <2> HIDE DEF I
  <2>1. IsFiniteSet({x}) /\ Cardinality({x}) = 1
    BY FS_Singleton
  <2>2. IsFiniteSet(A) /\ Cardinality(A) = 1 * k
    BY <1>2, <2>1, FS_Product
  <2> QED
    BY <2>2
<1>4. IsFiniteSet(B) /\ SumFunction(g) = Cardinality(B)
  BY SumIsCount
<1>5. SumFunction(f) = Cardinality(Units(f, S))
  BY SumIsCount
<1>6. Cardinality(A \cap B) = 0
  BY <1>1, FS_EmptySet
<1> HIDE DEF A, B
<1>7. Cardinality(A \cup B) = Cardinality(A) + Cardinality(B) - Cardinality(A \cap B)
  BY <1>3, <1>4, FS_Union
<1>8. Cardinality(B) \in Nat
  BY <1>4, FS_CardinalityType
<1> QED
  BY <1>1, <1>3, <1>4, <1>5, <1>6, <1>7, <1>8

\* A sum of zeros, and only such a sum, is zero.
LEMMA SumZero ==
    ASSUME NEW S, IsFiniteSet(S), NEW f \in [S -> Nat]
    PROVE  SumFunction(f) = 0 <=> \A x \in S : f[x] = 0
<1>1. IsFiniteSet(Units(f, S)) /\ SumFunction(f) = Cardinality(Units(f, S))
  BY SumIsCount
<1>2. SumFunction(f) = 0 <=> Units(f, S) = {}
  BY <1>1, FS_EmptySet
<1>3. Units(f, S) = {} <=> \A x \in S : f[x] = 0
  <2>1. ASSUME NEW x \in S, f[x] # 0 PROVE <<x, 1>> \in Units(f, S)
    BY <2>1 DEF Units
  <2>2. ASSUME NEW u \in Units(f, S) PROVE u[1] \in S /\ f[u[1]] # 0
    BY DEF Units
  <2> QED
    BY <2>1, <2>2
<1> QED
  BY <1>2, <1>3

-----------------------------------------------------------------------------
(* Sequences                                                               *)

\* A nonempty sequence is its front and its last element.
LEMMA AppendFront ==
    ASSUME NEW S, NEW q \in Seq(S), q # <<>>
    PROVE  /\ Front(q) \in Seq(S) /\ Last(q) \in S
           /\ q = Append(Front(q), Last(q))
           /\ Len(q) = Len(Front(q)) + 1
<1>1. Len(q) \in Nat \ {0}
  BY EmptySeq
<1>2. Front(q) = [i \in 1..(Len(q) - 1) |-> q[i]]
  BY DEF Front
<1>3. Front(q) \in Seq(S) /\ Last(q) \in S /\ Len(Front(q)) = Len(q) - 1
  BY <1>1, <1>2 DEF Last
<1> DEFINE f == Front(q)
           r == Append(f, Last(q))
<1>4. /\ r \in Seq(S) /\ Len(r) = Len(q)
      /\ \A i \in 1..Len(q) : r[i] = q[i]
  <2>1. /\ r \in Seq(S) /\ Len(r) = Len(f) + 1
        /\ \A i \in 1..Len(f) : r[i] = f[i]
        /\ r[Len(f) + 1] = Last(q)
    <3> HIDE DEF f
    <3> QED
      BY <1>3, AppendProperties DEF f
  <2>2. \A i \in 1..Len(f) : f[i] = q[i]
    BY <1>2, <1>3
  <2>3. Last(q) = q[Len(q)]
    BY DEF Last
  <2>4. Len(f) = Len(q) - 1 /\ Len(f) + 1 = Len(q)
    BY <1>1, <1>3
  <2> HIDE DEF f, r
  <2>5. Len(r) = Len(q) /\ r[Len(q)] = q[Len(q)]
    BY <1>1, <2>1, <2>3, <2>4
  <2>6. ASSUME NEW i \in 1..Len(q) PROVE r[i] = q[i]
    <3>1. i \in 1..Len(f) \/ i = Len(q)
      BY <1>1, <2>4
    <3> QED
      BY <3>1, <2>1, <2>2, <2>5
  <2> QED
    BY <2>1, <2>5, <2>6
<1>5. q = r
  <2> HIDE DEF r
  <2> QED
    BY <1>4, SeqEqual
<1> QED
  BY <1>1, <1>3, <1>5

\* The elements of a longer sequence.
LEMMA AppendToSet ==
    ASSUME NEW S, NEW q \in Seq(S), NEW x \in S
    PROVE  /\ Append(q, x) \in Seq(S) /\ Append(q, x) # <<>>
           /\ Len(Append(q, x)) = Len(q) + 1 /\ Len(q) \in Nat
           /\ ToSet(Append(q, x)) = ToSet(q) \cup {x}
           /\ UNION ToSet(Append(q, x)) = (UNION ToSet(q)) \cup x
<1>1. /\ Append(q, x) \in Seq(S) /\ Len(Append(q, x)) = Len(q) + 1
      /\ \A i \in 1..Len(q) : Append(q, x)[i] = q[i]
      /\ Append(q, x)[Len(q) + 1] = x
  BY AppendProperties
<1>2. DOMAIN q = 1..Len(q) /\ Len(q) \in Nat
  BY LenProperties
<1>3. DOMAIN Append(q, x) = 1..(Len(q) + 1)
  BY <1>1, LenProperties
<1>4. Append(q, x) # <<>>
  BY <1>1, <1>2, EmptySeq
<1>5. ToSet(Append(q, x)) = ToSet(q) \cup {x}
  BY <1>1, <1>2, <1>3 DEF ToSet
<1> QED
  BY <1>1, <1>2, <1>4, <1>5

\* An empty sequence has no elements, and only an empty one.
LEMMA EmptyToSet ==
    ASSUME NEW S, NEW q \in Seq(S)
    PROVE  /\ ToSet(q) = {} <=> q = <<>>
           /\ Len(q) \in Nat
           /\ Len(q) = 0 <=> q = <<>>
           /\ ToSet(q) \subseteq S
           /\ UNION ToSet(<<>>) = {} /\ ToSet(<<>>) = {} /\ Len(<<>>) = 0
<1>1. DOMAIN q = 1..Len(q) /\ Len(q) \in Nat /\ Len(q) = 0 <=> q = <<>>
  BY LenProperties, EmptySeq
<1>2. ToSet(<<>>) = {}
  BY DEF ToSet
<1>3. Len(q) # 0 => q[1] \in ToSet(q)
  BY <1>1 DEF ToSet
<1>4. ToSet(q) \subseteq S
  BY <1>1, ElementOfSeq DEF ToSet
<1> QED
  BY <1>1, <1>2, <1>3, <1>4, EmptySeq

\* One more set in a sequence of separate sets.
LEMMA SeparateAppend ==
    ASSUME NEW S, NEW q \in Seq(SUBSET S), NEW r \in SUBSET S
    PROVE  Separate(Append(q, r)) <=>
              Separate(q) /\ r # {} /\ r \cap UNION ToSet(q) = {}
<1> DEFINE a == Append(q, r)
           n == Len(q)
<1>1. /\ Len(a) = n + 1 /\ n \in Nat
      /\ \A i \in 1..n : a[i] = q[i]
      /\ a[n + 1] = r
  BY AppendProperties, LenProperties
<1>2. ToSet(q) = {q[i] : i \in 1..n}
  BY LenProperties DEF ToSet
<1>3. r \cap UNION ToSet(q) = {} <=> \A i \in 1..n : q[i] \cap r = {}
  BY <1>2
<1>4. 1..Len(a) = (1..n) \cup {n + 1}
  BY <1>1
<1>5. (\A i \in 1..Len(a) : a[i] # {}) <=> (\A i \in 1..n : q[i] # {}) /\ r # {}
  BY <1>1, <1>4
<1>6. ASSUME \A i, j \in 1..Len(a) : i # j => a[i] \cap a[j] = {}
      PROVE  /\ \A i, j \in 1..n : i # j => q[i] \cap q[j] = {}
             /\ \A i \in 1..n : q[i] \cap r = {}
  <2>1. ASSUME NEW i \in 1..n PROVE i # n + 1 /\ i \in 1..Len(a) /\ n + 1 \in 1..Len(a)
    BY <1>1
  <2> HIDE DEF a
  <2> QED
    BY <1>1, <1>6, <2>1
<1>7. ASSUME \A i, j \in 1..n : i # j => q[i] \cap q[j] = {},
             \A i \in 1..n : q[i] \cap r = {}
      PROVE  \A i, j \in 1..Len(a) : i # j => a[i] \cap a[j] = {}
  <2> SUFFICES ASSUME NEW i \in 1..Len(a), NEW j \in 1..Len(a), i # j
               PROVE  a[i] \cap a[j] = {}
    OBVIOUS
  <2>1. CASE i \in 1..n /\ j \in 1..n
    BY <2>1, <1>1, <1>7
  <2>2. CASE i \in 1..n /\ j = n + 1
    BY <2>2, <1>1, <1>7
  <2>3. CASE i = n + 1 /\ j \in 1..n
    BY <2>3, <1>1, <1>7
  <2> QED
    BY <2>1, <2>2, <2>3, <1>4
<1> QED
  BY <1>3, <1>5, <1>6, <1>7 DEF Separate

\* The last set of a nonempty sequence of separate sets.
LEMMA SeparateLast ==
    ASSUME NEW S, NEW q \in Seq(SUBSET S), q # <<>>, Separate(q)
    PROVE  /\ Front(q) \in Seq(SUBSET S) /\ Last(q) \in SUBSET S
           /\ Len(q) = Len(Front(q)) + 1
           /\ Separate(Front(q))
           /\ Last(q) # {} /\ Last(q) \cap (UNION ToSet(Front(q))) = {}
           /\ UNION ToSet(q) = (UNION ToSet(Front(q))) \cup Last(q)
<1>1. PICK f \in Seq(SUBSET S), r \in SUBSET S : f = Front(q) /\ r = Last(q)
  BY AppendFront
<1>2. q = Append(f, r) /\ Len(q) = Len(f) + 1
  BY <1>1, AppendFront
<1>3. Separate(Append(f, r))
  BY <1>2
<1>4. Separate(f) /\ r # {} /\ r \cap (UNION ToSet(f)) = {}
  BY <1>3, SeparateAppend
<1>5. UNION ToSet(Append(f, r)) = (UNION ToSet(f)) \cup r
  BY AppendToSet
<1> QED
  BY <1>1, <1>2, <1>4, <1>5

-----------------------------------------------------------------------------
(* Induction and recursion                                                 *)

\* A set that has 0 and the successor of each of its elements has them all.
LEMMA SetOfAllNaturals ==
    ASSUME NEW P \in SUBSET Nat, 0 \in P, \A n \in P : n + 1 \in P
    PROVE  P = Nat
<1> DEFINE T == Nat \ P
<1> SUFFICES ASSUME T # {} PROVE FALSE
  OBVIOUS
<1>1. IsWellFoundedOn(OpToRel(<, Nat), Nat)
  BY NatLessThanWellFounded
<1>2. \E x \in T : \A y \in T : ~(<<y, x>> \in OpToRel(<, Nat))
  <2> HIDE DEF T
  <2>1. T \subseteq Nat
    BY DEF T
  <2> QED
    BY <1>1, <2>1, WFMin
<1>3. PICK x \in T : \A y \in T : ~(y < x)
  BY <1>2 DEF OpToRel
<1>4. x - 1 \in P
  BY <1>3
<1> QED
  BY <1>3, <1>4

\* A set of numbers that is not empty has a least one.
LEMMA LeastElement ==
    ASSUME NEW S \in SUBSET Nat, S # {}
    PROVE  Min(S) \in S /\ \A x \in S : Min(S) <= x
<1>1. IsWellFoundedOn(OpToRel(<, Nat), Nat)
  BY NatLessThanWellFounded
<1>2. \E x \in S : \A y \in S : ~(<<y, x>> \in OpToRel(<, Nat))
  BY <1>1, WFMin
<1>3. PICK x \in S : \A y \in S : ~(y < x)
  BY <1>2 DEF OpToRel
<1>4. \A y \in S : x <= y
  BY <1>3
<1> QED
  BY <1>4 DEF Min

\* h has the values up to n that begin with base, and of which F makes each
\* from the previous one.
Iterates(h, F, base, n) == h[0] = base /\ \A k \in 1..n : h[k] = F[h[k - 1]]

\* Such a sequence of values exists.
LEMMA RecursionOnNaturals ==
    ASSUME NEW Y, NEW base \in Y, NEW F \in [Y -> Y], NEW n \in Nat
    PROVE  \E h \in [0..n -> Y] : Iterates(h, F, base, n)
<1> DEFINE P == {m \in Nat : \E h \in [0..m -> Y] :
                    h[0] = base /\ \A k \in 1..m : h[k] = F[h[k - 1]]}
<1>1. 0 \in P
  <2> DEFINE h == [k \in 0..0 |-> base]
  <2>1. h \in [0..0 -> Y] /\ h[0] = base
    OBVIOUS
  <2>2. \A k \in 1..0 : h[k] = F[h[k - 1]]
    OBVIOUS
  <2> HIDE DEF h
  <2> QED
    BY <2>1, <2>2
<1>2. ASSUME NEW m \in P PROVE m + 1 \in P
  <2>1. PICK h \in [0..m -> Y] : h[0] = base /\ \A k \in 1..m : h[k] = F[h[k - 1]]
    OBVIOUS
  <2> DEFINE g == [k \in 0..(m + 1) |-> IF k = m + 1 THEN F[h[m]] ELSE h[k]]
  <2>2. g \in [0..(m + 1) -> Y]
    OBVIOUS
  <2>3. g[0] = base /\ \A k \in 1..(m + 1) : g[k] = F[g[k - 1]]
    BY <2>1
  <2> HIDE DEF g
  <2> QED
    BY <2>2, <2>3
<1>3. P = Nat
  <2> HIDE DEF P
  <2>1. P \in SUBSET Nat
    BY DEF P
  <2> QED
    BY <1>1, <1>2, <2>1, SetOfAllNaturals
<1> QED
  BY <1>3 DEF Iterates

\* h has a value for each subset of S: base for the empty one, and what F makes
\* of the value without the chosen element, and that element, for the others.
IteratesOnSubsets(h, F, base, choice, S) ==
    \A s \in SUBSET S :
        h[s] = IF s = {} THEN base ELSE F[<<h[s \ {choice[s]}], choice[s]>>]

\* Such values exist for the subsets of a finite set.
LEMMA RecursionOnSubsets ==
    ASSUME NEW S, IsFiniteSet(S), NEW Y, NEW base \in Y, NEW F \in [Y \X S -> Y],
           NEW choice, \A s \in SUBSET S : s # {} => choice[s] \in s
    PROVE  \E h \in [SUBSET S -> Y] : IteratesOnSubsets(h, F, base, choice, S)
<1> DEFINE Small(m) == {s \in SUBSET S : Cardinality(s) <= m}
           Rec(h, s) == h[s] = IF s = {} THEN base
                               ELSE F[<<h[s \ {choice[s]}], choice[s]>>]
           P == {m \in Nat : \E h \in [Small(m) -> Y] : \A s \in Small(m) : Rec(h, s)}
<1>0. /\ \A s \in SUBSET S : /\ IsFiniteSet(s)
                             /\ Cardinality(s) \in Nat
                             /\ Cardinality(s) = 0 <=> s = {}
                             /\ Cardinality(s) <= Cardinality(S)
      /\ Cardinality(S) \in Nat
  BY FS_Subset, FS_CardinalityType, FS_EmptySet
<1>01. \A s \in SUBSET S : s # {} =>
          /\ s \ {choice[s]} \in SUBSET S
          /\ choice[s] \in S
          /\ Cardinality(s \ {choice[s]}) = Cardinality(s) - 1
  BY <1>0, FS_RemoveElement
<1>1. 0 \in P
  <2> DEFINE h == [s \in Small(0) |-> base]
  <2>1. \A s \in Small(0) : s = {}
    BY <1>0
  <2>2. h \in [Small(0) -> Y] /\ \A s \in Small(0) : Rec(h, s)
    BY <2>1
  <2> QED
    BY <2>2
<1>2. ASSUME NEW m \in P PROVE m + 1 \in P
  <2>1. PICK h \in [Small(m) -> Y] : \A s \in Small(m) : Rec(h, s)
    OBVIOUS
  <2> DEFINE g == [s \in Small(m + 1) |-> IF s \in Small(m) THEN h[s]
                                         ELSE F[<<h[s \ {choice[s]}], choice[s]>>]]
  <2>2. ASSUME NEW s \in Small(m + 1), s # {}
        PROVE  s \ {choice[s]} \in Small(m) /\ s \ {choice[s]} \in Small(m + 1)
    BY <1>0, <1>01, <2>2
  <2>3. {} \in Small(m) /\ \A s \in Small(m) : s \in Small(m + 1)
    BY <1>0
  <2>4. g \in [Small(m + 1) -> Y]
    <3> SUFFICES ASSUME NEW s \in Small(m + 1), s \notin Small(m)
                 PROVE  F[<<h[s \ {choice[s]}], choice[s]>>] \in Y
      <4> HIDE DEF Small, Rec
      <4> QED
        BY <2>1
    <3>1. s # {}
      BY <2>3
    <3>2. s \ {choice[s]} \in Small(m) /\ choice[s] \in S
      BY <3>1, <2>2, <1>01
    <3> QED
      BY <3>2, <2>1
  <2>5. ASSUME NEW s \in Small(m + 1) PROVE Rec(g, s)
    <3>1. CASE s = {}
      BY <3>1, <2>1, <2>3
    <3>2. CASE s # {}
      <4> DEFINE r == s \ {choice[s]}
      <4>1. r \in Small(m) /\ r \in Small(m + 1)
        BY <3>2, <2>2
      <4>2. g[r] = h[r]
        BY <4>1
      <4>3. g[s] = F[<<h[r], choice[s]>>]
        BY <2>1, <3>2
      <4> QED
        BY <4>2, <4>3, <3>2
    <3> QED
      BY <3>1, <3>2
  <2> HIDE DEF g, Small, Rec
  <2> QED
    BY <2>4, <2>5
<1>3. P = Nat
  <2> HIDE DEF P
  <2>1. P \in SUBSET Nat
    BY DEF P
  <2> QED
    BY <1>1, <1>2, <2>1, SetOfAllNaturals
<1>4. Small(Cardinality(S)) = SUBSET S
  BY <1>0
<1>5. PICK h \in [Small(Cardinality(S)) -> Y] : \A s \in Small(Cardinality(S)) : Rec(h, s)
  BY <1>3, <1>0
<1> QED
  BY <1>4, <1>5 DEF IteratesOnSubsets

\* A bounded set of numbers that is not empty has a greatest one.
LEMMA GreatestElement ==
    ASSUME NEW b \in Nat, NEW S \in SUBSET (0..b), S # {}
    PROVE  Max(S) \in S /\ \A x \in S : x <= Max(S)
<1> DEFINE T == {b - x : x \in S}
<1>1. T \in SUBSET Nat /\ T # {}
  <2>1. \A x \in S : b - x \in Nat
    OBVIOUS
  <2>2. PICK x : x \in S
    OBVIOUS
  <2> QED
    BY <2>1, <2>2
<1>2. PICK t : t \in T /\ \A y \in T : t <= y
  <2> HIDE DEF T
  <2> QED
    BY <1>1, LeastElement
<1>3. PICK x \in S : t = b - x
  BY <1>2
<1>4. \A y \in S : x >= y
  <2> SUFFICES ASSUME NEW y \in S PROVE x >= y
    OBVIOUS
  <2>1. b - x <= b - y
    BY <1>2, <1>3
  <2> QED
    BY <2>1
<1> HIDE DEF T
<1>5. \E z \in S : \A y \in S : z >= y
  BY <1>4
<1>6. Max(S) \in S /\ \A y \in S : Max(S) >= y
  BY <1>5 DEF Max
<1> QED
  BY <1>6

\* The initial segments of 1..n.
LEMMA Segments ==
    ASSUME NEW n \in Nat
    PROVE  /\ 1..0 = {}
           /\ \A k \in 1..n : /\ 1..k \in SUBSET (1..n) /\ 1..k # {}
                              /\ Max(1..k) = k /\ (1..k) \ {k} = 1..(k - 1)
<1> SUFFICES ASSUME NEW k \in 1..n
             PROVE  /\ 1..k \in SUBSET (1..n) /\ 1..k # {}
                    /\ Max(1..k) = k /\ (1..k) \ {k} = 1..(k - 1)
  OBVIOUS
<1>1. k \in 1..k /\ \A y \in 1..k : k >= y
  OBVIOUS
<1>2. \A x \in 1..k : (\A y \in 1..k : x >= y) => x = k
  BY <1>1
<1>3. Max(1..k) = k
  BY <1>1, <1>2 DEF Max
<1> QED
  BY <1>1, <1>3

\* h has the values that the fold of F over 1..n from base gives to its subsets.
FoldValues(h, F, base, n) ==
    \A t \in SUBSET (1..n) :
        h[t] = IF t = {} THEN base ELSE F[<<h[t \ {Max(t)}], Max(t)>>]

\* Such values exist.
LEMMA FoldExists ==
    ASSUME NEW n \in Nat, NEW Y, NEW base \in Y, NEW F \in [Y \X (1..n) -> Y]
    PROVE  \E h \in [SUBSET (1..n) -> Y] : FoldValues(h, F, base, n)
<1> DEFINE S == 1..n
           choice == [t \in SUBSET S |-> Max(t)]
<1>1. IsFiniteSet(S)
  BY FS_Interval
<1>2. \A t \in SUBSET S : t # {} => choice[t] \in t
  <2> SUFFICES ASSUME NEW t \in SUBSET S, t # {} PROVE Max(t) \in t
    OBVIOUS
  <2>1. t \in SUBSET (0..n)
    OBVIOUS
  <2> QED
    BY <2>1, GreatestElement
<1> HIDE DEF choice
<1>3. PICK h \in [SUBSET S -> Y] : IteratesOnSubsets(h, F, base, choice, S)
  <2> HIDE DEF S
  <2>1. F \in [Y \X S -> Y]
    BY DEF S
  <2> QED
    BY <1>1, <1>2, <2>1, RecursionOnSubsets
<1>4. \A t \in SUBSET S : h[t] = IF t = {} THEN base ELSE F[<<h[t \ {Max(t)}], Max(t)>>]
  BY <1>3 DEF IteratesOnSubsets, choice
<1> QED
  BY <1>4 DEF FoldValues

\* What holds along the initial segments holds in the end.
LEMMA SegmentsInduction ==
    ASSUME NEW n \in Nat, NEW h, NEW Z, h[{}] \in Z[0],
           \A k \in 1..n : h[1..(k - 1)] \in Z[k - 1] => h[1..k] \in Z[k]
    PROVE  h[1..n] \in Z[n]
<1> DEFINE P == {k \in Nat : k <= n => h[1..k] \in Z[k]}
<1>1. 0 \in P
  BY Segments
<1>2. ASSUME NEW k \in P PROVE k + 1 \in P
  <2>1. CASE k + 1 <= n
    <3>1. k + 1 \in 1..n /\ (k + 1) - 1 = k /\ h[1..k] \in Z[k]
      BY <2>1
    <3> QED
      BY <3>1
  <2>2. CASE ~(k + 1 <= n)
    BY <2>2
  <2> QED
    BY <2>1, <2>2
<1>3. P = Nat
  <2> HIDE DEF P
  <2>1. P \in SUBSET Nat
    BY DEF P
  <2> QED
    BY <1>1, <1>2, <2>1, SetOfAllNaturals
<1> QED
  BY <1>3

=============================================================================
