-------------------------- MODULE PLQPanes_proofs --------------------------
(***************************************************************************)
(* Proofs that the pane-level query stage delivers every pane whole, for   *)
(* any number of workers, any stream, any reconfigurations, both builds    *)
(* and the three scheduling strategies: the partitions and the tuples of a *)
(* pane that were delivered, are in the deques and are on the way to them  *)
(* are as many as the scheduler has counted, and the next stage is told    *)
(* the number of the partitions, and no other, by at least one of them.    *)
(***************************************************************************)
EXTENDS PLQStage_proofs

-----------------------------------------------------------------------------
(* A pane at one worker, with the results sets r and the input queue x     *)

\* The worker has a partition of pane p, or will have one.
Has(D, x, p) == p \in D \/ \E i \in DOMAIN x : Makes(x[i], p)

\* The messages of a type about pane p.
About(x, type, p) == {i \in DOMAIN x : x[i].type = type /\ x[i].pane_id = p}

\* The partitions of pane p that the worker is still to deliver.
PartsAt(r, x, p) ==
    (IF Has(DOMAIN r, x, p) THEN 1 ELSE 0) + Cardinality(About(x, "LULL", p))

\* The tuples of pane p that the worker is still to deliver.
TuplesAt(r, x, p) ==
    (IF p \in DOMAIN r THEN r[p].tuples ELSE 0) + Cardinality(About(x, "REGULAR", p))

\* The worker is told to flush its deque while pane p is open: the partition of
\* the pane will not tell how many there are.
Anonymous(x, p) ==
    \E i \in DOMAIN x :
        /\ x[i].type = "FLUSH"
        /\ IF iop THEN x[i].pane_id <= p
           ELSE \A j \in DOMAIN x : ~(x[j].type = "PUNCT" /\ x[j].pane_id > p)

\* No number of partitions of pane p follows message i.
Latest(x, i, p) ==
    \A j \in DOMAIN x : i < j => ~(x[j].type = "NEW_INST" /\ x[j].pane_id = p)

\* The partition of pane p will tell that there are n.
Tells(r, x, p, n) ==
    /\ p \in DOMAIN r /\ Latest(x, 0, p) => r[p].no_instances = n
    /\ \A i \in DOMAIN x :
          Names(x[i], p) /\ Latest(x, i, p) => x[i].no_instances = n

\* The worker will deliver a partition that tells their number.
WillTell(D, x, p) ==
    (Has(D, x, p) /\ ~Anonymous(x, p)) \/ About(x, "LULL", p) # {}

-----------------------------------------------------------------------------
(* The inductive invariant, for the emitter e                              *)

PartsToCome(e, p) == [w \in Worker |-> PartsAt(paneSet[w], e.q[w], p)]
TuplesToCome(e, p) == [w \in Worker |-> TuplesAt(paneSet[w], e.q[w], p)]

\* What is promised of pane p, which is closed or not.
Sound(e, p, closed) ==
    /\ ~(Adaptive /\ p \in openedEmpty)
    /\ closed => strategy = "PB_RR" \/ e.s.pane_size[p] > 0

\* Nothing of the pane is lost or counted twice.
Balanced(e, p) ==
    /\ results[p].parts + SumFunction(PartsToCome(e, p)) = e.s.p_instances[p]
    /\ results[p].tuples + SumFunction(TuplesToCome(e, p)) = e.s.pane_size[p]

\* The partitions to come tell their number, or none.
Agreed(e, p) ==
    \A w \in Worker : \/ Anonymous(e.q[w], p)
                      \/ Tells(paneSet[w], e.q[w], p, e.s.p_instances[p])

\* A number is only told when it is final, and then somebody tells it.
Announced(e, p, final) ==
    /\ results[p].counts \subseteq {e.s.p_instances[p]}
    /\ ~final => results[p].counts = {}
    /\ final /\ e.s.p_instances[p] > 0 /\ results[p].counts = {} =>
          \E w \in Worker : WillTell(DOMAIN paneSet[w], e.q[w], p)

\* The scheduler knows who has the partitions of an open pane.
Tracked(e, p) ==
    /\ e.s.holders[p] = {} => e.s.p_instances[p] = 0 /\ e.s.pane_size[p] = 0
    /\ strategy = "PB_RR" => /\ e.s.pane_size[p] = 0 => e.s.holders[p] = {}
                             /\ \A v, w \in e.s.holders[p] : v = w
    /\ \A w \in e.s.activated :
          Has(DOMAIN paneSet[w], e.q[w], p) => w \in e.s.holders[p]

\* An empty results set is only made of a closed pane.
LullsClosed(e, p, closed) ==
    \A w \in Worker : \A i \in About(e.q[w], "LULL", p) :
        closed /\ e.s.p_instances[p] = 1 /\ e.q[w][i].no_instances = 1

Account(e, p, closed, over) ==
    /\ Sound(e, p, closed) =>
          /\ Balanced(e, p) /\ Agreed(e, p) /\ Announced(e, p, closed \/ over)
          /\ closed => e.s.p_instances[p] > 0
    /\ ~closed /\ ~over => Tracked(e, p)
    /\ LullsClosed(e, p, closed)

\* A worker is told to flush with the first pane that is not closed, and in
\* order it has one pane at a time and none after that one.
Flushes(D, x, next) ==
    /\ \A i \in DOMAIN x : x[i].type = "FLUSH" =>
          /\ x[i].pane_id <= next
          /\ iop => \A j \in DOMAIN x : \A p \in Pane :
                       Names(x[j], p) => p <= x[i].pane_id
    /\ iop => \A p, q \in D : p = q

AccountsInv(e, over) ==
    /\ \A p \in Pane : Account(e, p, p < e.s.next_pane_id, over)
    /\ \A w \in Worker : Flushes(DOMAIN paneSet[w], e.q[w], e.s.next_pane_id)

\* The adaptive strategy opens a pane with its first tuple, or else it is known.
OpenedInv ==
    \A p \in Pane : sched.holders[p] # {} /\ sched.pane_size[p] = 0 => p \in openedEmpty

PanesInv == AccountsInv(Emitter, plqTerminated) /\ OpenedInv

-----------------------------------------------------------------------------
(* One message more, or one less                                           *)

\* The messages about a pane can be counted.
LEMMA AboutCount ==
    ASSUME NEW x \in Seq(Message), NEW type, NEW p
    PROVE  /\ IsFiniteSet(About(x, type, p))
           /\ Cardinality(About(x, type, p)) \in Nat
           /\ Cardinality(About(x, type, p)) = 0 <=> About(x, type, p) = {}
<1>1. DOMAIN x = 1..Len(x) /\ Len(x) \in Nat
  OBVIOUS
<1>2. IsFiniteSet(DOMAIN x)
  BY <1>1, FS_Interval
<1>3. About(x, type, p) \subseteq DOMAIN x
  BY DEF About
<1>4. IsFiniteSet(About(x, type, p))
  BY ONLY <1>2, <1>3, FS_Subset
<1> QED
  BY <1>4, FS_CardinalityType, FS_EmptySet

\* The worker is sent one message more about the pane, or not.
LEMMA AppendAbout ==
    ASSUME NEW x \in Seq(Message), NEW m \in Message, NEW type, NEW p
    PROVE  Cardinality(About(Append(x, m), type, p)) =
               Cardinality(About(x, type, p))
                   + IF m.type = type /\ m.pane_id = p THEN 1 ELSE 0
<1> DEFINE n == Len(x)
           A == About(x, type, p)
           B == About(Append(x, m), type, p)
<1>1. /\ n \in Nat /\ DOMAIN x = 1..n /\ DOMAIN Append(x, m) = 1..(n + 1)
      /\ \A i \in 1..n : Append(x, m)[i] = x[i]
      /\ Append(x, m)[n + 1] = m
  BY AppendQueue
<1>2. B = A \cup IF m.type = type /\ m.pane_id = p THEN {n + 1} ELSE {}
  <2> HIDE DEF n
  <2> QED
    BY <1>1 DEF About
<1>3. n + 1 \notin A
  BY <1>1 DEF About
<1>4. IsFiniteSet(A) /\ Cardinality(A) \in Nat
  BY AboutCount
<1> HIDE DEF n, A, B
<1>5. Cardinality(A \cup {n + 1}) = Cardinality(A) + 1
  BY ONLY <1>3, <1>4, FS_AddElement
<1>6. Cardinality(B) = Cardinality(A) + IF m.type = type /\ m.pane_id = p THEN 1 ELSE 0
  <2>1. CASE m.type = type /\ m.pane_id = p
    BY <1>2, <1>5, <2>1
  <2>2. CASE ~(m.type = type /\ m.pane_id = p)
    <3>1. B = A
      BY <1>2, <2>2
    <3> QED
      BY <1>4, <2>2, <3>1
  <2> QED
    BY <2>1, <2>2
<1> QED
  BY <1>6 DEF A, B

\* The worker takes the first message, about the pane or not.
LEMMA TailAbout ==
    ASSUME NEW x \in Seq(Message), x # <<>>, NEW type, NEW p
    PROVE  Cardinality(About(x, type, p)) =
               Cardinality(About(Tail(x), type, p))
                   + IF Head(x).type = type /\ Head(x).pane_id = p THEN 1 ELSE 0
<1> DEFINE n == Len(x)
           A == About(Tail(x), type, p)
           B == About(x, type, p)
           S == {i + 1 : i \in A}
           f == [i \in A |-> i + 1]
<1>1. /\ n \in Nat \ {0} /\ DOMAIN x = 1..n /\ DOMAIN Tail(x) = 1..(n - 1)
      /\ \A i \in 1..(n - 1) : Tail(x)[i] = x[i + 1]
      /\ Head(x) = x[1] /\ Tail(x) \in Seq(Message)
  BY TailQueue
<1>2. A \subseteq 1..(n - 1) /\ A \subseteq Nat
  BY <1>1 DEF About
<1>3. IsFiniteSet(A) /\ Cardinality(A) \in Nat
  BY <1>1, AboutCount
<1>4. f \in Bijection(A, S)
  <2> HIDE DEF A
  <2> QED
    BY <1>2 DEF Bijection, Injection, IsInjective, Surjection
<1>5. IsFiniteSet(S) /\ Cardinality(S) = Cardinality(A)
  <2> HIDE DEF A, S, f
  <2> QED
    BY <1>3, <1>4, FS_Bijection DEF ExistsBijection
<1>6. B = S \cup IF Head(x).type = type /\ Head(x).pane_id = p THEN {1} ELSE {}
  <2>1. ASSUME NEW i \in DOMAIN x, i # 1 PROVE i \in B <=> i \in S
    <3>1. i - 1 \in 1..(n - 1) /\ (i - 1) + 1 = i
      BY <1>1, <2>1
    <3>2. i \in S <=> i - 1 \in A
      <4> HIDE DEF A
      <4> QED
        BY <1>2, <3>1
    <3>3. i - 1 \in A <=> i \in B
      BY <1>1, <3>1 DEF About
    <3> QED
      BY <3>2, <3>3
  <2>2. 1 \notin S /\ S \subseteq DOMAIN x
    <3> HIDE DEF A
    <3> QED
      BY <1>1, <1>2
  <2>3. 1 \in B <=> Head(x).type = type /\ Head(x).pane_id = p
    BY <1>1 DEF About
  <2>4. B \subseteq DOMAIN x
    BY DEF About
  <2> HIDE DEF A, B, S
  <2> QED
    BY <1>1, <2>1, <2>2, <2>3, <2>4
<1>7. 1 \notin S
  <2> HIDE DEF A
  <2> QED
    BY <1>2
<1> HIDE DEF n, A, B, S, f
<1>8. Cardinality(S \cup {1}) = Cardinality(S) + 1
  BY ONLY <1>5, <1>7, FS_AddElement
<1>9. Cardinality(B) =
          Cardinality(A) + IF Head(x).type = type /\ Head(x).pane_id = p THEN 1 ELSE 0
  <2>1. CASE Head(x).type = type /\ Head(x).pane_id = p
    BY <1>5, <1>6, <1>8, <2>1
  <2>2. CASE ~(Head(x).type = type /\ Head(x).pane_id = p)
    <3>1. B = S
      BY <1>6, <2>2
    <3> QED
      BY <1>3, <1>5, <2>2, <3>1
  <2> QED
    BY <2>1, <2>2
<1> QED
  BY <1>9 DEF A, B

\* The worker is sent one message more.
LEMMA AppendHas ==
    ASSUME NEW x \in Seq(Message), NEW m \in Message, NEW D, NEW p
    PROVE  Has(D, Append(x, m), p) <=> Has(D, x, p) \/ Makes(m, p)
<1> DEFINE n == Len(x)
<1>1. /\ n \in Nat /\ DOMAIN x = 1..n /\ DOMAIN Append(x, m) = 1..(n + 1)
      /\ \A i \in 1..n : Append(x, m)[i] = x[i]
      /\ Append(x, m)[n + 1] = m
  BY AppendQueue
<1> HIDE DEF n
<1> QED
  BY <1>1 DEF Has

\* What a worker will tell is what it is told last.
LEMMA AppendTells ==
    ASSUME NEW x \in Seq(Message), NEW m \in Message, NEW r, NEW p, NEW n,
           Names(m, p) => m.no_instances = n,
           Tells(r, x, p, n) \/ (m.type = "NEW_INST" /\ m.pane_id = p)
    PROVE  Tells(r, Append(x, m), p, n)
<1> DEFINE k == Len(x)
<1>1. PICK y : y = Append(x, m)
  OBVIOUS
<1>2. /\ k \in Nat /\ DOMAIN x = 1..k /\ DOMAIN y = 1..(k + 1)
      /\ \A i \in 1..k : y[i] = x[i]
      /\ y[k + 1] = m
  BY <1>1, AppendQueue
<1> HIDE DEF k
<1>3. ASSUME NEW i \in 0..k, Latest(y, i, p)
      PROVE  Latest(x, i, p) /\ ~(m.type = "NEW_INST" /\ m.pane_id = p)
  <2>1. i < k + 1 /\ k + 1 \in DOMAIN y
    BY <1>2
  <2> QED
    BY <1>2, <1>3, <2>1 DEF Latest
<1>4. ASSUME p \in DOMAIN r, Latest(y, 0, p) PROVE r[p].no_instances = n
  BY <1>2, <1>3, <1>4 DEF Tells
<1>5. ASSUME NEW i \in DOMAIN y, Names(y[i], p), Latest(y, i, p) PROVE y[i].no_instances = n
  <2>1. CASE i = k + 1
    BY <1>2, <1>5, <2>1
  <2>2. CASE i # k + 1
    <3>1. i \in DOMAIN x /\ i \in 0..k /\ y[i] = x[i]
      BY <1>2, <2>2
    <3> QED
      BY <1>3, <1>5, <3>1 DEF Tells
  <2> QED
    BY <2>1, <2>2
<1> QED
  BY <1>1, <1>4, <1>5 DEF Tells

\* Only FLUSH makes the partitions of a worker anonymous, and only a punctuation
\* before it could prevent that.
LEMMA AppendAnonymous ==
    ASSUME NEW x \in Seq(Message), NEW m \in Message, NEW p, m.type # "FLUSH",
           m.type = "PUNCT" => \A i \in DOMAIN x : x[i].type # "FLUSH"
    PROVE  Anonymous(Append(x, m), p) <=> Anonymous(x, p)
<1> DEFINE n == Len(x)
<1>1. PICK y : y = Append(x, m)
  OBVIOUS
<1>2. /\ n \in Nat /\ DOMAIN x = 1..n /\ DOMAIN y = 1..(n + 1)
      /\ \A i \in 1..n : y[i] = x[i]
      /\ y[n + 1] = m
  BY <1>1, AppendQueue
<1> HIDE DEF n
<1>3. \A i \in DOMAIN y : y[i].type = "FLUSH" <=> i \in DOMAIN x /\ x[i].type = "FLUSH"
  BY <1>2
<1>4. CASE m.type = "PUNCT"
  BY <1>1, <1>3, <1>4 DEF Anonymous
<1>5. CASE m.type # "PUNCT"
  <2>1. ~(\E j \in DOMAIN y : y[j].type = "PUNCT" /\ y[j].pane_id > p)
            <=> ~(\E j \in DOMAIN x : x[j].type = "PUNCT" /\ x[j].pane_id > p)
    BY <1>2, <1>5
  <2>2. \A i \in DOMAIN x : i \in DOMAIN y /\ y[i] = x[i]
    BY <1>2
  <2> QED
    BY <1>1, <1>3, <2>1, <2>2 DEF Anonymous
<1> QED
  BY <1>4, <1>5

\* The worker takes the first message.
LEMMA TailHas ==
    ASSUME NEW x \in Seq(Message), x # <<>>, NEW D, NEW p
    PROVE  Has(D, x, p) <=> Has(D, Tail(x), p) \/ Makes(Head(x), p)
<1> DEFINE n == Len(x)
<1>1. PICK y : y = Tail(x)
  OBVIOUS
<1>2. /\ n \in Nat \ {0} /\ DOMAIN x = 1..n /\ DOMAIN y = 1..(n - 1)
      /\ \A i \in 1..(n - 1) : y[i] = x[i + 1]
      /\ Head(x) = x[1]
  BY <1>1, TailQueue
<1> HIDE DEF n
<1>3. ASSUME NEW i \in DOMAIN x PROVE i = 1 \/ (i - 1 \in DOMAIN y /\ y[i - 1] = x[i])
  BY <1>2
<1>4. ASSUME NEW i \in DOMAIN y PROVE i + 1 \in DOMAIN x /\ x[i + 1] = y[i]
  BY <1>2
<1>5. 1 \in DOMAIN x
  BY <1>2
<1> QED
  BY <1>1, <1>2, <1>3, <1>4, <1>5 DEF Has

\* The partitions are no less anonymous when the worker has taken a message.
LEMMA TailAnonymous ==
    ASSUME NEW x \in Seq(Message), x # <<>>, NEW p, Head(x).type # "FLUSH"
    PROVE  /\ Anonymous(x, p) => Anonymous(Tail(x), p)
           /\ ~(Head(x).type = "PUNCT" /\ Head(x).pane_id > p) =>
                 (Anonymous(Tail(x), p) => Anonymous(x, p))
<1> DEFINE n == Len(x)
<1>1. PICK y : y = Tail(x)
  OBVIOUS
<1>2. /\ n \in Nat \ {0} /\ DOMAIN x = 1..n /\ DOMAIN y = 1..(n - 1)
      /\ \A i \in 1..(n - 1) : y[i] = x[i + 1]
      /\ Head(x) = x[1]
  BY <1>1, TailQueue
<1> HIDE DEF n
<1>3. ASSUME NEW i \in DOMAIN x PROVE i = 1 \/ (i - 1 \in DOMAIN y /\ y[i - 1] = x[i])
  BY <1>2
<1>4. ASSUME NEW i \in DOMAIN y PROVE i + 1 \in DOMAIN x /\ x[i + 1] = y[i]
  BY <1>2
<1>5. ASSUME Anonymous(x, p) PROVE Anonymous(y, p)
  <2>1. PICK i \in DOMAIN x :
          /\ x[i].type = "FLUSH"
          /\ IF iop THEN x[i].pane_id <= p
             ELSE \A j \in DOMAIN x : ~(x[j].type = "PUNCT" /\ x[j].pane_id > p)
    BY <1>5 DEF Anonymous
  <2>2. PICK k \in DOMAIN y : y[k] = x[i]
    BY <1>2, <1>3, <2>1
  <2> QED
    BY <1>4, <2>1, <2>2 DEF Anonymous
<1>6. ASSUME ~(Head(x).type = "PUNCT" /\ Head(x).pane_id > p), Anonymous(y, p)
      PROVE  Anonymous(x, p)
  <2>1. PICK i \in DOMAIN y :
          /\ y[i].type = "FLUSH"
          /\ IF iop THEN y[i].pane_id <= p
             ELSE \A j \in DOMAIN y : ~(y[j].type = "PUNCT" /\ y[j].pane_id > p)
    BY <1>6 DEF Anonymous
  <2>2. PICK k \in DOMAIN x : x[k] = y[i]
    BY <1>4
  <2>3. ASSUME ~iop, NEW j \in DOMAIN x PROVE ~(x[j].type = "PUNCT" /\ x[j].pane_id > p)
    BY <1>2, <1>3, <1>6, <2>1, <2>3
  <2> QED
    BY <2>1, <2>2, <2>3 DEF Anonymous
<1> QED
  BY <1>1, <1>5, <1>6

\* What a worker will tell is kept by what it takes.
LEMMA TailTells ==
    ASSUME NEW x \in Seq(Message), x # <<>>, NEW r, NEW t, NEW p, NEW n,
           Tells(r, x, p, n),
           p \in DOMAIN t =>
               \/ Names(Head(x), p) /\ t[p].no_instances = Head(x).no_instances
               \/ /\ ~(Head(x).type = "NEW_INST" /\ Head(x).pane_id = p)
                  /\ p \in DOMAIN r /\ t[p].no_instances = r[p].no_instances
    PROVE  Tells(t, Tail(x), p, n)
<1> DEFINE k == Len(x)
<1>1. PICK y : y = Tail(x)
  OBVIOUS
<1>2. /\ k \in Nat \ {0} /\ DOMAIN x = 1..k /\ DOMAIN y = 1..(k - 1)
      /\ \A i \in 1..(k - 1) : y[i] = x[i + 1]
      /\ Head(x) = x[1]
  BY <1>1, TailQueue
<1> HIDE DEF k
<1>3. ASSUME NEW j \in DOMAIN x PROVE j = 1 \/ (j - 1 \in DOMAIN y /\ y[j - 1] = x[j])
  BY <1>2
<1>4. ASSUME NEW i \in 0..(k - 1), Latest(y, i, p) PROVE Latest(x, i + 1, p)
  <2> SUFFICES ASSUME NEW j \in DOMAIN x, i + 1 < j
               PROVE  ~(x[j].type = "NEW_INST" /\ x[j].pane_id = p)
    BY DEF Latest
  <2>1. j - 1 \in DOMAIN y /\ y[j - 1] = x[j] /\ i < j - 1
    BY <1>2, <1>3
  <2> QED
    BY <1>4, <2>1 DEF Latest
<1>5. ASSUME p \in DOMAIN t, Latest(y, 0, p) PROVE t[p].no_instances = n
  <2>1. Latest(x, 1, p) /\ 1 \in DOMAIN x
    <3>1. 0 \in 0..(k - 1) /\ 0 + 1 = 1
      BY <1>2
    <3> QED
      BY <1>2, <1>4, <1>5, <3>1
  <2>2. CASE Names(Head(x), p) /\ t[p].no_instances = Head(x).no_instances
    BY <1>2, <2>1, <2>2 DEF Tells
  <2>3. CASE /\ ~(Head(x).type = "NEW_INST" /\ Head(x).pane_id = p)
             /\ p \in DOMAIN r /\ t[p].no_instances = r[p].no_instances
    <3>1. Latest(x, 0, p)
      <4>1. \A j \in DOMAIN x : j = 1 \/ 1 < j
        BY <1>2
      <4> QED
        BY <1>2, <2>1, <2>3, <4>1 DEF Latest
    <3> QED
      BY <2>3, <3>1 DEF Tells
  <2> QED
    BY <1>5, <2>2, <2>3
<1>6. ASSUME NEW i \in DOMAIN y, Names(y[i], p), Latest(y, i, p) PROVE y[i].no_instances = n
  <2>1. i \in 0..(k - 1) /\ i + 1 \in DOMAIN x /\ x[i + 1] = y[i]
    BY <1>2
  <2>2. Latest(x, i + 1, p)
    BY <1>4, <1>6, <2>1
  <2> QED
    BY <1>6, <2>1, <2>2 DEF Tells
<1> QED
  BY <1>1, <1>5, <1>6 DEF Tells

\* A worker that has nothing of a pane, and is not told of it, tells nothing.
LEMMA NothingToTell ==
    ASSUME NEW x, NEW r, NEW p, NEW n, p \notin DOMAIN r,
           \A i \in DOMAIN x : ~Names(x[i], p)
    PROVE  Tells(r, x, p, n)
  BY DEF Tells

-----------------------------------------------------------------------------
(* What a worker takes and what it delivers                                *)

\* A worker takes the first message of the queue x: its deque r becomes t, and it
\* delivers the results sets rs.  Of pane p nothing is lost, and the partition
\* that is delivered tells n if it is to tell the number, which is final then.
Settles(r, x, t, rs, p, n, final) ==
    /\ PartsAt(r, x, p) = PartsAt(t, Tail(x), p) + IF p \in DOMAIN rs THEN 1 ELSE 0
    /\ TuplesAt(r, x, p) =
          TuplesAt(t, Tail(x), p) + IF p \in DOMAIN rs THEN rs[p].tuples ELSE 0
    /\ Anonymous(x, p) \/ Tells(r, x, p, n) =>
          /\ Anonymous(Tail(x), p) \/ Tells(t, Tail(x), p, n)
          /\ p \in DOMAIN rs => rs[p].no_instances \in {0, n}
          /\ WillTell(DOMAIN r, x, p) =>
                \/ WillTell(DOMAIN t, Tail(x), p)
                \/ p \in DOMAIN rs /\ rs[p].no_instances = n
    /\ p \in DOMAIN rs /\ rs[p].no_instances # 0 => final
    /\ Has(DOMAIN t, Tail(x), p) => Has(DOMAIN r, x, p)

\* The message is not about the pane, whose partition stays where it is.
LEMMA SettlesOthers ==
    ASSUME NEW x \in Seq(Message), x # <<>>, NEW r, NEW t, NEW rs, NEW p, NEW n, NEW final,
           Head(x).type # "FLUSH",
           ~(Head(x).type = "PUNCT" /\ Head(x).pane_id > p),
           ~Names(Head(x), p), ~(Head(x).type = "LULL" /\ Head(x).pane_id = p),
           p \in DOMAIN t <=> p \in DOMAIN r, p \in DOMAIN r => t[p] = r[p],
           p \notin DOMAIN rs,
           r \in Deque, t \in Deque
    PROVE  Settles(r, x, t, rs, p, n, final)
<1>1. PICK y : y = Tail(x)
  OBVIOUS
<1>2. ~Makes(Head(x), p) /\ ~(Head(x).type = "REGULAR" /\ Head(x).pane_id = p)
      /\ ~(Head(x).type = "NEW_INST" /\ Head(x).pane_id = p)
  BY DEF Makes, Names, Making, Naming
<1>3. Has(DOMAIN r, x, p) <=> Has(DOMAIN t, y, p)
  <2>1. Has(DOMAIN r, x, p) <=> Has(DOMAIN r, y, p)
    BY <1>1, <1>2, TailHas
  <2> QED
    BY <2>1 DEF Has
<1>4. /\ Cardinality(About(x, "LULL", p)) = Cardinality(About(y, "LULL", p))
      /\ Cardinality(About(x, "REGULAR", p)) = Cardinality(About(y, "REGULAR", p))
      /\ About(x, "LULL", p) = {} <=> About(y, "LULL", p) = {}
  <2>1. y \in Seq(Message)
    BY <1>1, TailQueue
  <2>2. /\ Cardinality(About(y, "LULL", p)) \in Nat
        /\ Cardinality(About(y, "REGULAR", p)) \in Nat
        /\ About(y, "LULL", p) = {} <=> Cardinality(About(y, "LULL", p)) = 0
        /\ About(x, "LULL", p) = {} <=> Cardinality(About(x, "LULL", p)) = 0
    BY <2>1, AboutCount
  <2>3. /\ Cardinality(About(x, "LULL", p)) = Cardinality(About(y, "LULL", p)) + 0
        /\ Cardinality(About(x, "REGULAR", p)) = Cardinality(About(y, "REGULAR", p)) + 0
    BY <1>1, <1>2, TailAbout
  <2> QED
    BY <2>2, <2>3
<1>5. Anonymous(y, p) <=> Anonymous(x, p)
  BY <1>1, TailAnonymous
<1>6. Tells(r, x, p, n) => Tells(t, y, p, n)
  BY <1>1, <1>2, TailTells
<1>7. /\ PartsAt(t, y, p) \in Nat /\ PartsAt(r, x, p) = PartsAt(t, y, p)
      /\ TuplesAt(t, y, p) \in Nat /\ TuplesAt(r, x, p) = TuplesAt(t, y, p)
  <2>1. y \in Seq(Message)
    BY <1>1, TailQueue
  <2>2. /\ Cardinality(About(y, "LULL", p)) \in Nat
        /\ Cardinality(About(y, "REGULAR", p)) \in Nat
    BY <2>1, AboutCount
  <2>3. p \in DOMAIN t => t[p].tuples \in Nat
    BY DEF Deque, ResultsSet
  <2> QED
    BY <1>3, <1>4, <2>2, <2>3 DEF PartsAt, TuplesAt
<1> QED
  BY <1>1, <1>3, <1>4, <1>5, <1>6, <1>7 DEF Settles, WillTell

\* Nothing more comes of the pane, and it has no partition.
LEMMA SettlesAbsent ==
    ASSUME NEW x \in Seq(Message), x # <<>>, NEW r, NEW t, NEW rs, NEW p, NEW n, NEW final,
           ~Names(Head(x), p), ~(Head(x).type = "LULL" /\ Head(x).pane_id = p),
           \A i \in DOMAIN Tail(x) : ~Names(Tail(x)[i], p),
           p \notin DOMAIN r, p \notin DOMAIN t, p \notin DOMAIN rs
    PROVE  Settles(r, x, t, rs, p, n, final)
<1>1. PICK y : y = Tail(x)
  OBVIOUS
<1>2. ~Makes(Head(x), p) /\ ~(Head(x).type = "REGULAR" /\ Head(x).pane_id = p)
  BY DEF Makes, Names, Making, Naming
<1>3. ~Has(DOMAIN t, y, p) /\ ~Has(DOMAIN r, x, p)
  <2>1. \A i \in DOMAIN y : ~Makes(y[i], p)
    BY <1>1 DEF Makes, Names, Making, Naming
  <2>2. ~Has(DOMAIN t, y, p) /\ ~Has(DOMAIN r, y, p)
    BY <2>1 DEF Has
  <2>3. Has(DOMAIN r, x, p) <=> Has(DOMAIN r, y, p) \/ Makes(Head(x), p)
    BY <1>1, TailHas
  <2> QED
    BY <1>2, <2>2, <2>3
<1>4. /\ PartsAt(r, x, p) = PartsAt(t, y, p) /\ TuplesAt(r, x, p) = TuplesAt(t, y, p)
      /\ PartsAt(t, y, p) \in Nat /\ TuplesAt(t, y, p) \in Nat
      /\ About(x, "LULL", p) = {} <=> About(y, "LULL", p) = {}
  <2>1. y \in Seq(Message)
    BY <1>1, TailQueue
  <2>2. /\ Cardinality(About(y, "LULL", p)) \in Nat
        /\ Cardinality(About(y, "REGULAR", p)) \in Nat
        /\ About(y, "LULL", p) = {} <=> Cardinality(About(y, "LULL", p)) = 0
        /\ About(x, "LULL", p) = {} <=> Cardinality(About(x, "LULL", p)) = 0
    BY <2>1, AboutCount
  <2>3. /\ Cardinality(About(x, "LULL", p)) = Cardinality(About(y, "LULL", p)) + 0
        /\ Cardinality(About(x, "REGULAR", p)) = Cardinality(About(y, "REGULAR", p)) + 0
    BY <1>1, <1>2, TailAbout
  <2> QED
    BY <1>3, <2>2, <2>3 DEF PartsAt, TuplesAt
<1>5. Tells(t, y, p, n)
  BY <1>1, NothingToTell
<1> QED
  BY <1>1, <1>3, <1>4, <1>5 DEF Settles, WillTell

\* The partition of the pane is delivered, and nothing more comes of it.
LEMMA SettlesDelivered ==
    ASSUME NEW x \in Seq(Message), x # <<>>, NEW r \in Deque, NEW t, NEW rs, NEW p, NEW n,
           NEW final,
           ~Names(Head(x), p), ~(Head(x).type = "LULL" /\ Head(x).pane_id = p),
           \A i \in DOMAIN Tail(x) : ~Names(Tail(x)[i], p),
           p \in DOMAIN r, p \notin DOMAIN t, p \in DOMAIN rs,
           rs[p].tuples = r[p].tuples,
           IF Anonymous(x, p) THEN rs[p].no_instances = 0
           ELSE rs[p].no_instances = r[p].no_instances /\ final
    PROVE  Settles(r, x, t, rs, p, n, final)
<1>1. PICK y : y = Tail(x)
  OBVIOUS
<1>2. ~Makes(Head(x), p) /\ ~(Head(x).type = "REGULAR" /\ Head(x).pane_id = p)
      /\ ~(Head(x).type = "NEW_INST" /\ Head(x).pane_id = p)
  BY DEF Makes, Names, Making, Naming
<1>3. ~Has(DOMAIN t, y, p) /\ Has(DOMAIN r, x, p)
  <2>1. \A i \in DOMAIN y : ~Makes(y[i], p)
    BY <1>1 DEF Makes, Names, Making, Naming
  <2> QED
    BY <2>1 DEF Has
<1>4. /\ PartsAt(r, x, p) = PartsAt(t, y, p) + 1
      /\ TuplesAt(r, x, p) = TuplesAt(t, y, p) + r[p].tuples
      /\ About(x, "LULL", p) = {} <=> About(y, "LULL", p) = {}
  <2>1. y \in Seq(Message)
    BY <1>1, TailQueue
  <2>2. /\ Cardinality(About(y, "LULL", p)) \in Nat
        /\ Cardinality(About(y, "REGULAR", p)) \in Nat
        /\ About(y, "LULL", p) = {} <=> Cardinality(About(y, "LULL", p)) = 0
        /\ About(x, "LULL", p) = {} <=> Cardinality(About(x, "LULL", p)) = 0
    BY <2>1, AboutCount
  <2>3. /\ Cardinality(About(x, "LULL", p)) = Cardinality(About(y, "LULL", p)) + 0
        /\ Cardinality(About(x, "REGULAR", p)) = Cardinality(About(y, "REGULAR", p)) + 0
    BY <1>1, <1>2, TailAbout
  <2>4. r[p].tuples \in Nat
    BY DEF Deque, ResultsSet
  <2> QED
    BY <1>3, <2>2, <2>3, <2>4 DEF PartsAt, TuplesAt
<1>5. Tells(t, y, p, n)
  BY <1>1, NothingToTell
<1>6. ASSUME Tells(r, x, p, n) PROVE r[p].no_instances = n
  <2>1. ASSUME NEW j \in DOMAIN x PROVE ~(x[j].type = "NEW_INST" /\ x[j].pane_id = p)
    <3>1. x[j] = Head(x) \/ \E i \in DOMAIN y : x[j] = y[i]
      <4>1. /\ DOMAIN x = 1..Len(x) /\ DOMAIN y = 1..(Len(x) - 1) /\ Len(x) \in Nat
            /\ \A i \in 1..(Len(x) - 1) : y[i] = x[i + 1]
            /\ Head(x) = x[1]
        BY <1>1, TailQueue
      <4>2. j = 1 \/ (j - 1 \in DOMAIN y /\ x[j] = y[j - 1])
        BY <4>1
      <4> QED
        BY <4>1, <4>2
    <3> QED
      BY <1>1, <1>2, <3>1 DEF Names, Naming
  <2> QED
    BY <1>6, <2>1 DEF Tells, Latest
<1> QED
  BY <1>1, <1>3, <1>4, <1>5, <1>6 DEF Settles, WillTell

\* A tuple, or the order to hold a partition: the partition is made or filled.
LEMMA SettlesFilled ==
    ASSUME NEW x \in Seq(Message), x # <<>>, NEW r \in Deque, NEW t, NEW rs,
           NEW p, NEW n, NEW final,
           Makes(Head(x), p), p \in DOMAIN t, p \notin DOMAIN rs,
           t[p].tuples = (IF p \in DOMAIN r THEN r[p].tuples ELSE 0)
                             + IF Head(x).type = "REGULAR" THEN 1 ELSE 0,
           t[p].no_instances = IF p \in DOMAIN r THEN r[p].no_instances
                               ELSE Head(x).no_instances
    PROVE  Settles(r, x, t, rs, p, n, final)
<1>1. PICK y : y = Tail(x)
  OBVIOUS
<1>2. /\ Names(Head(x), p) /\ Head(x).type \in {"REGULAR", "EMPTYPANE"}
      /\ Head(x).pane_id = p
  BY DEF Makes, Names, Making, Naming
<1>3. Has(DOMAIN t, y, p) /\ Has(DOMAIN r, x, p)
  BY TailHas DEF Has
<1>4. /\ PartsAt(r, x, p) = PartsAt(t, y, p)
      /\ TuplesAt(r, x, p) = TuplesAt(t, y, p)
      /\ PartsAt(t, y, p) \in Nat /\ TuplesAt(t, y, p) \in Nat
      /\ About(x, "LULL", p) = {} <=> About(y, "LULL", p) = {}
  <2>1. y \in Seq(Message)
    BY <1>1, TailQueue
  <2>2. /\ Cardinality(About(y, "LULL", p)) \in Nat
        /\ Cardinality(About(y, "REGULAR", p)) \in Nat
        /\ About(y, "LULL", p) = {} <=> Cardinality(About(y, "LULL", p)) = 0
        /\ About(x, "LULL", p) = {} <=> Cardinality(About(x, "LULL", p)) = 0
    BY <2>1, AboutCount
  <2>3. /\ Cardinality(About(x, "LULL", p)) = Cardinality(About(y, "LULL", p)) + 0
        /\ Cardinality(About(x, "REGULAR", p)) = Cardinality(About(y, "REGULAR", p))
               + IF Head(x).type = "REGULAR" THEN 1 ELSE 0
    BY <1>1, <1>2, TailAbout
  <2>4. p \in DOMAIN r => r[p].tuples \in Nat
    BY DEF Deque, ResultsSet
  <2> QED
    BY <1>3, <2>2, <2>3, <2>4 DEF PartsAt, TuplesAt
<1>5. Anonymous(y, p) <=> Anonymous(x, p)
  BY <1>1, <1>2, TailAnonymous
<1>6. Tells(r, x, p, n) => Tells(t, y, p, n)
  BY <1>1, <1>2, TailTells
<1> QED
  BY <1>1, <1>3, <1>4, <1>5, <1>6 DEF Settles, WillTell

\* The partition is told of another one.
LEMMA SettlesTold ==
    ASSUME NEW x \in Seq(Message), x # <<>>, NEW r \in Deque, NEW t, NEW rs,
           NEW p, NEW n, NEW final,
           Head(x).type = "NEW_INST", Head(x).pane_id = p,
           p \in DOMAIN r, p \in DOMAIN t, p \notin DOMAIN rs,
           t[p].tuples = r[p].tuples, t[p].no_instances = Head(x).no_instances
    PROVE  Settles(r, x, t, rs, p, n, final)
<1>1. PICK y : y = Tail(x)
  OBVIOUS
<1>2. Names(Head(x), p)
  BY DEF Names, Naming
<1>3. Has(DOMAIN t, y, p) /\ Has(DOMAIN r, x, p)
  BY DEF Has
<1>4. /\ PartsAt(r, x, p) = PartsAt(t, y, p)
      /\ TuplesAt(r, x, p) = TuplesAt(t, y, p)
      /\ PartsAt(t, y, p) \in Nat /\ TuplesAt(t, y, p) \in Nat
      /\ About(x, "LULL", p) = {} <=> About(y, "LULL", p) = {}
  <2>1. y \in Seq(Message)
    BY <1>1, TailQueue
  <2>2. /\ Cardinality(About(y, "LULL", p)) \in Nat
        /\ Cardinality(About(y, "REGULAR", p)) \in Nat
        /\ About(y, "LULL", p) = {} <=> Cardinality(About(y, "LULL", p)) = 0
        /\ About(x, "LULL", p) = {} <=> Cardinality(About(x, "LULL", p)) = 0
    BY <2>1, AboutCount
  <2>3. /\ Cardinality(About(x, "LULL", p)) = Cardinality(About(y, "LULL", p)) + 0
        /\ Cardinality(About(x, "REGULAR", p)) = Cardinality(About(y, "REGULAR", p)) + 0
    BY <1>1, TailAbout
  <2>4. r[p].tuples \in Nat
    BY DEF Deque, ResultsSet
  <2> QED
    BY <1>3, <2>2, <2>3, <2>4 DEF PartsAt, TuplesAt
<1>5. Anonymous(y, p) <=> Anonymous(x, p)
  BY <1>1, TailAnonymous
<1>6. Tells(r, x, p, n) => Tells(t, y, p, n)
  BY <1>1, <1>2, TailTells
<1> QED
  BY <1>1, <1>3, <1>4, <1>5, <1>6 DEF Settles, WillTell

\* An empty results set of a closed pane is delivered.
LEMMA SettlesLull ==
    ASSUME NEW x \in Seq(Message), x # <<>>, NEW r \in Deque, NEW rs,
           NEW p, NEW n, NEW final,
           Head(x).type = "LULL", Head(x).pane_id = p,
           p \in DOMAIN rs, rs[p].tuples = 0, rs[p].no_instances = n, final
    PROVE  Settles(r, x, r, rs, p, n, final)
<1>1. PICK y : y = Tail(x)
  OBVIOUS
<1>2. ~Names(Head(x), p) /\ ~Makes(Head(x), p)
  BY DEF Names, Naming, Makes, Making
<1>3. Has(DOMAIN r, y, p) <=> Has(DOMAIN r, x, p)
  BY <1>1, <1>2, TailHas
<1>4. /\ PartsAt(r, x, p) = PartsAt(r, y, p) + 1
      /\ TuplesAt(r, x, p) = TuplesAt(r, y, p) + 0
  <2>1. y \in Seq(Message)
    BY <1>1, TailQueue
  <2>2. /\ Cardinality(About(y, "LULL", p)) \in Nat
        /\ Cardinality(About(y, "REGULAR", p)) \in Nat
    BY <2>1, AboutCount
  <2>3. /\ Cardinality(About(x, "LULL", p)) = Cardinality(About(y, "LULL", p)) + 1
        /\ Cardinality(About(x, "REGULAR", p)) = Cardinality(About(y, "REGULAR", p)) + 0
    BY <1>1, TailAbout
  <2>4. p \in DOMAIN r => r[p].tuples \in Nat
    BY DEF Deque, ResultsSet
  <2> QED
    BY <1>3, <2>2, <2>3, <2>4 DEF PartsAt, TuplesAt
<1>5. Anonymous(y, p) <=> Anonymous(x, p)
  BY <1>1, TailAnonymous
<1>6. Tells(r, x, p, n) => Tells(r, y, p, n)
  BY <1>1, <1>2, TailTells DEF Names, Naming
<1> QED
  BY <1>1, <1>3, <1>4, <1>5, <1>6 DEF Settles, WillTell

\* The numbers of partitions and of tuples to come are natural.
LEMMA ToComeType ==
    ASSUME NEW r \in Deque, NEW x \in Seq(Message), NEW p
    PROVE  PartsAt(r, x, p) \in Nat /\ TuplesAt(r, x, p) \in Nat
<1>1. /\ Cardinality(About(x, "LULL", p)) \in Nat
      /\ Cardinality(About(x, "REGULAR", p)) \in Nat
  BY AboutCount
<1>2. p \in DOMAIN r => r[p].tuples \in Nat
  BY DEF Deque, ResultsSet
<1> QED
  BY <1>1, <1>2 DEF PartsAt, TuplesAt

\* The workers are finitely many.
LEMMA FiniteWorkers == IsFiniteSet(Worker)
<1>1. NUM_WORKER_THREADS - 1 \in Int
  BY PLQAssumption
<1> QED
  BY <1>1, FS_Interval DEF Worker

\* The accounts are kept by what worker w takes and delivers.
LEMMA WorkerSettles ==
    ASSUME StageInv, AccountsInv(Emitter, plqTerminated),
           NEW w \in Worker, queue[w] # <<>>, Pop(w),
           UNCHANGED <<emitterVars, strategy>>, openedEmpty \subseteq openedEmpty',
           NEW t \in Deque, paneSet' = [paneSet EXCEPT ![w] = t],
           NEW P \in SUBSET Pane, NEW rs \in [P -> ResultsSet], Deliver(rs),
           \A p \in Pane :
              Settles(paneSet[w], queue[w], t, rs, p, sched.p_instances[p],
                      p < sched.next_pane_id \/ plqTerminated),
           iop => \A p, q \in DOMAIN t : p = q
    PROVE  AccountsInv(Emitter, plqTerminated)'
<1>1. /\ sched' = sched /\ iop' = iop /\ plqTerminated' = plqTerminated
      /\ strategy' = strategy /\ queue' = [queue EXCEPT ![w] = Tail(@)]
  BY DEF emitterVars, Pop
<1>2. /\ Emitter.s = sched /\ Emitter.q = queue
      /\ Emitter'.s = sched /\ Emitter'.q = queue'
  BY <1>1 DEF Emitter
<1>3. /\ queue \in [Worker -> Seq(Message)] /\ paneSet \in [Worker -> Deque]
      /\ results \in [Pane -> [parts : Nat, tuples : Nat, counts : SUBSET Nat]]
      /\ sched.p_instances \in [Pane -> Nat] /\ sched.pane_size \in [Pane -> Nat]
  BY <1>2 DEF StageInv, TypeInv, Emitter, EmitterType, Sched
<1>4. PICK x : x = queue[w]
  OBVIOUS
<1>5. PICK r : r = paneSet[w]
  OBVIOUS
<1>6. PICK y : y = Tail(x)
  OBVIOUS
<1>7. x \in Seq(Message) /\ x # <<>> /\ r \in Deque /\ y \in Seq(Message)
  BY <1>3, <1>4, <1>5, <1>6, HeadTailProperties
<1>8. /\ queue'[w] = y /\ paneSet'[w] = t
      /\ \A v \in Worker \ {w} : queue'[v] = queue[v] /\ paneSet'[v] = paneSet[v]
      /\ queue' \in [Worker -> Seq(Message)] /\ paneSet' \in [Worker -> Deque]
  BY <1>1, <1>3, <1>4, <1>6, <1>7
<1>9. ASSUME NEW p \in Pane
      PROVE  Account(Emitter, p, p < Emitter.s.next_pane_id, plqTerminated)'
  <2>1. PICK closed : closed = (p < sched.next_pane_id)
    OBVIOUS
  <2>2. PICK n : n = sched.p_instances[p]
    OBVIOUS
  <2>3. Settles(r, x, t, rs, p, n, closed \/ plqTerminated)
    BY <1>4, <1>5, <2>1, <2>2
  <2>4. Account(Emitter, p, closed, plqTerminated)
    BY <1>2, <2>1 DEF AccountsInv
  <2>5. n \in Nat
    BY <1>3, <2>2
  <2>6. results'[p] = IF p \in P
                      THEN [parts  |-> results[p].parts + 1,
                            tuples |-> results[p].tuples + rs[p].tuples,
                            counts |-> results[p].counts \cup ({rs[p].no_instances} \ {0})]
                      ELSE results[p]
    BY DEF Deliver
  <2>7. results[p] \in [parts : Nat, tuples : Nat, counts : SUBSET Nat]
    BY <1>3
  <2>8. p \in P => rs[p] \in ResultsSet
    OBVIOUS
  <2>9. ASSUME Balanced(Emitter, p)
        PROVE  Balanced(Emitter, p)'
    <3>1. PICK f : f = PartsToCome(Emitter, p)
      OBVIOUS
    <3>2. PICK g : g = [v \in Worker |-> PartsAt(paneSet'[v], queue'[v], p)]
      OBVIOUS
    <3>3. PICK k : k = IF p \in P THEN 1 ELSE 0
      OBVIOUS
    <3>4. f \in [Worker -> Nat] /\ g \in [Worker -> Nat] /\ k \in Nat
      BY <1>2, <1>3, <1>8, <3>1, <3>2, <3>3, ToComeType DEF PartsToCome
    <3>5. f[w] = g[w] + k /\ \A v \in Worker \ {w} : f[v] = g[v]
      BY <1>2, <1>4, <1>5, <1>6, <1>8, <2>3, <3>1, <3>2, <3>3 DEF PartsToCome, Settles
    <3>6. /\ SumFunction(f) = SumFunction(g) + k
          /\ SumFunction(f) \in Nat /\ SumFunction(g) \in Nat
      BY ONLY <3>4, <3>5, w \in Worker, FiniteWorkers, SumMore
    <3>7. PICK a : a = TuplesToCome(Emitter, p)
      OBVIOUS
    <3>8. PICK b : b = [v \in Worker |-> TuplesAt(paneSet'[v], queue'[v], p)]
      OBVIOUS
    <3>9. PICK l : l = IF p \in P THEN rs[p].tuples ELSE 0
      OBVIOUS
    <3>10. a \in [Worker -> Nat] /\ b \in [Worker -> Nat] /\ l \in Nat
      BY <1>2, <1>3, <1>8, <2>8, <3>7, <3>8, <3>9, ToComeType DEF TuplesToCome, ResultsSet
    <3>11. a[w] = b[w] + l /\ \A v \in Worker \ {w} : a[v] = b[v]
      BY <1>2, <1>4, <1>5, <1>6, <1>8, <2>3, <3>7, <3>8, <3>9 DEF TuplesToCome, Settles
    <3>12. /\ SumFunction(a) = SumFunction(b) + l
           /\ SumFunction(a) \in Nat /\ SumFunction(b) \in Nat
      BY ONLY <3>10, <3>11, w \in Worker, FiniteWorkers, SumMore
    <3>13. /\ results[p].parts + SumFunction(f) = n
           /\ results[p].tuples + SumFunction(a) = sched.pane_size[p]
      BY <1>2, <2>2, <2>9, <3>1, <3>7 DEF Balanced
    <3>14. /\ results'[p].parts = results[p].parts + k
           /\ results'[p].tuples = results[p].tuples + l
      BY <2>6, <2>7, <3>3, <3>9
    <3>15. /\ results'[p].parts + SumFunction(g) = n
           /\ results'[p].tuples + SumFunction(b) = sched.pane_size[p]
      <4>1. PICK c : c = results[p].parts
        OBVIOUS
      <4>2. PICK d : d = results[p].tuples
        OBVIOUS
      <4>3. PICK h : h = SumFunction(g)
        OBVIOUS
      <4>4. PICK j : j = SumFunction(b)
        OBVIOUS
      <4>5. c \in Nat /\ d \in Nat
        BY <2>7, <4>1, <4>2
      <4>6. c + (h + k) = n /\ d + (j + l) = sched.pane_size[p]
        BY <3>6, <3>12, <3>13, <4>1, <4>2, <4>3, <4>4
      <4>7. h \in Nat /\ j \in Nat
        BY <3>6, <3>12, <4>3, <4>4
      <4>8. (c + k) + h = n /\ (d + l) + j = sched.pane_size[p]
        BY ONLY <3>4, <3>10, <4>5, <4>6, <4>7
      <4> QED
        BY ONLY <3>14, <4>1, <4>2, <4>3, <4>4, <4>8
    <3>16. PartsToCome(Emitter, p)' = g /\ TuplesToCome(Emitter, p)' = b
      BY <1>2, <3>2, <3>8 DEF PartsToCome, TuplesToCome
    <3> QED
      BY <1>2, <2>2, <3>15, <3>16 DEF Balanced
  <2>10. ASSUME Agreed(Emitter, p) PROVE Agreed(Emitter, p)'
    <3> SUFFICES ASSUME NEW v \in Worker
                 PROVE  \/ Anonymous(Emitter.q[v], p)'
                        \/ Tells(paneSet[v], Emitter.q[v], p, Emitter.s.p_instances[p])'
      BY DEF Agreed
    <3>1. Anonymous(queue[v], p) \/ Tells(paneSet[v], queue[v], p, n)
      BY <1>2, <2>2, <2>10 DEF Agreed
    <3>2. Anonymous(queue'[v], p) \/ Tells(paneSet'[v], queue'[v], p, n)
      <4>1. CASE v = w
        BY <1>4, <1>5, <1>6, <1>8, <2>3, <3>1, <4>1 DEF Settles
      <4>2. CASE v # w
        BY <1>8, <3>1, <4>2
      <4> QED
        BY <4>1, <4>2
    <3> QED
      BY <1>1, <1>2, <2>2, <3>2 DEF Anonymous
  <2>11. ASSUME Agreed(Emitter, p), Announced(Emitter, p, closed \/ plqTerminated)
         PROVE  Announced(Emitter, p, closed \/ plqTerminated)'
    <3>1. Anonymous(x, p) \/ Tells(r, x, p, n)
      BY <1>2, <1>4, <1>5, <2>2, <2>11 DEF Agreed
    <3>2. /\ p \in P => rs[p].no_instances \in {0, n}
          /\ p \in P /\ rs[p].no_instances # 0 => closed \/ plqTerminated
          /\ WillTell(DOMAIN r, x, p) =>
                WillTell(DOMAIN t, y, p) \/ (p \in P /\ rs[p].no_instances = n)
      BY <1>6, <2>3, <3>1 DEF Settles
    <3>3. /\ results[p].counts \subseteq {n}
          /\ ~(closed \/ plqTerminated) => results[p].counts = {}
          /\ (closed \/ plqTerminated) /\ n > 0 /\ results[p].counts = {} =>
                \E v \in Worker : WillTell(DOMAIN paneSet[v], queue[v], p)
      BY <1>2, <2>2, <2>11 DEF Announced
    <3>4. results'[p].counts = results[p].counts \cup
              IF p \in P THEN {rs[p].no_instances} \ {0} ELSE {}
      BY <2>6, <2>7
    <3>5. /\ results'[p].counts \subseteq {n}
          /\ ~(closed \/ plqTerminated) => results'[p].counts = {}
      BY <3>2, <3>3, <3>4
    <3>6. ASSUME closed \/ plqTerminated, n > 0, results'[p].counts = {}
          PROVE  \E v \in Worker : WillTell(DOMAIN paneSet'[v], queue'[v], p)
      <4>1. results[p].counts = {} /\ ~(p \in P /\ rs[p].no_instances = n)
        BY <2>5, <3>4, <3>6
      <4>2. PICK v \in Worker : WillTell(DOMAIN paneSet[v], queue[v], p)
        BY <3>3, <3>6, <4>1
      <4>3. WillTell(DOMAIN paneSet'[v], queue'[v], p)
        <5>1. CASE v = w
          BY <1>4, <1>5, <1>8, <3>2, <4>1, <4>2, <5>1
        <5>2. CASE v # w
          BY <1>8, <4>2, <5>2
        <5> QED
          BY <5>1, <5>2
      <4> QED
        BY <4>3
    <3> QED
      BY <1>1, <1>2, <2>1, <2>2, <3>5, <3>6 DEF Announced, WillTell, Anonymous
  <2>12. Sound(Emitter, p, closed)' => Sound(Emitter, p, closed)
    BY <1>1, <1>2 DEF Sound, Adaptive
  <2>13. ~closed /\ ~plqTerminated => Tracked(Emitter, p)'
    <3> SUFFICES ASSUME ~closed, ~plqTerminated PROVE Tracked(Emitter, p)'
      OBVIOUS
    <3>1. Tracked(Emitter, p)
      BY <2>4 DEF Account
    <3>2. ASSUME NEW v \in sched.activated, Has(DOMAIN paneSet'[v], queue'[v], p)
          PROVE  v \in sched.holders[p]
      <4>1. v \in Worker
        BY DEF StageInv, TypeInv, Emitter, EmitterType, Sched
      <4>2. Has(DOMAIN paneSet[v], queue[v], p)
        BY <1>4, <1>5, <1>6, <1>8, <2>3, <3>2, <4>1 DEF Settles
      <4> QED
        BY <1>2, <3>1, <4>2 DEF Tracked
    <3> QED
      BY <1>1, <1>2, <3>1, <3>2 DEF Tracked
  <2>14. LullsClosed(Emitter, p, closed)'
    <3>1. ASSUME NEW v \in Worker, NEW i \in About(queue'[v], "LULL", p)
          PROVE  \E j \in About(queue[v], "LULL", p) : queue[v][j] = queue'[v][i]
      <4>1. CASE v = w
        <5>1. i \in DOMAIN y /\ y[i].type = "LULL" /\ y[i].pane_id = p
          BY <1>8, <3>1, <4>1 DEF About
        <5>2. i + 1 \in DOMAIN x /\ x[i + 1] = y[i]
          BY <1>6, <1>7, <5>1, TailQueue
        <5>3. i + 1 \in About(x, "LULL", p)
          BY <5>1, <5>2 DEF About
        <5> QED
          BY <1>4, <1>8, <4>1, <5>2, <5>3
      <4>2. CASE v # w
        BY <1>8, <3>1, <4>2
      <4> QED
        BY <4>1, <4>2
    <3>2. LullsClosed(Emitter, p, closed)
      BY <2>4 DEF Account
    <3> QED
      BY <1>2, <3>1, <3>2 DEF LullsClosed
  <2>15. Account(Emitter, p, closed, plqTerminated)'
    BY <1>1, <1>2, <2>4, <2>9, <2>10, <2>11, <2>12, <2>13, <2>14 DEF Account
  <2> QED
    BY <1>2, <2>1, <2>15
<1>10. ASSUME NEW v \in Worker
       PROVE  Flushes(DOMAIN paneSet[v], Emitter.q[v], Emitter.s.next_pane_id)'
  <2>1. Flushes(DOMAIN paneSet[v], queue[v], sched.next_pane_id)
    BY <1>2 DEF AccountsInv
  <2>2. CASE v = w
    <3>1. Flushes(DOMAIN t, y, sched.next_pane_id)
      <4>1. \A i \in DOMAIN y : i + 1 \in DOMAIN x /\ x[i + 1] = y[i]
        BY <1>6, <1>7, TailQueue
      <4> QED
        BY <1>4, <2>1, <2>2, <4>1 DEF Flushes
    <3> QED
      BY <1>1, <1>2, <1>8, <2>2, <3>1 DEF Flushes
  <2>3. CASE v # w
    BY <1>1, <1>2, <1>8, <2>1, <2>3 DEF Flushes
  <2> QED
    BY <2>2, <2>3
<1> QED
  BY <1>9, <1>10 DEF AccountsInv

-----------------------------------------------------------------------------
(* The steps of a worker                                                   *)

\* Nothing is delivered.
LEMMA DeliversNothing ==
    ASSUME TypeInv, results' = results
    PROVE  Deliver(EmptyDeque) /\ EmptyDeque \in [{} -> ResultsSet]
<1>1. DOMAIN EmptyDeque = {} /\ EmptyDeque \in [{} -> ResultsSet]
  BY DEF EmptyDeque
<1>2. results = [p \in Pane |-> results[p]]
  BY DEF TypeInv
<1> QED
  BY <1>1, <1>2 DEF Deliver

\* The accounts are kept by a punctuation: the panes before it are delivered.
LEMMA PunctSettles ==
    ASSUME StageInv, AccountsInv(Emitter, plqTerminated), NEW w \in Worker,
           RcvPunct(w), strategy' = strategy, openedEmpty \subseteq openedEmpty'
    PROVE  AccountsInv(Emitter, plqTerminated)'
<1>1. /\ queue[w] # <<>> /\ Head(queue[w]).type = "PUNCT" /\ Pop(w)
      /\ UNCHANGED <<emitterVars, strategy>>
  BY DEF RcvPunct, Ready
<1>2. PICK a : a = Head(queue[w]).pane_id
  OBVIOUS
<1>3. PICK r : r = paneSet[w]
  OBVIOUS
<1>4. PICK x : x = queue[w]
  OBVIOUS
<1>5. PICK held : held = IF plqTerminated THEN {} ELSE HeldBy(sched, w)
  OBVIOUS
<1>6. /\ x \in Seq(Message) /\ x # <<>> /\ Head(x) \in Message /\ Head(x).type = "PUNCT"
      /\ a = Head(x).pane_id
      /\ r \in [DOMAIN r -> ResultsSet] /\ DOMAIN r \in SUBSET Pane
      /\ sched.next_pane_id \in Pane
      /\ OnTheWay(DOMAIN r, x, sched.next_pane_id, held)
  BY <1>1, <1>2, <1>3, <1>4, <1>5, OfWorker
<1>7. a \in Pane /\ Pane \subseteq Nat /\ r \in Deque
  BY <1>6, MessageFields DEF Pane, Deque
<1>8. /\ DOMAIN x = 1..Len(x) /\ 1 \in DOMAIN x /\ x[1] = Head(x)
      /\ \A i \in DOMAIN Tail(x) : i + 1 \in DOMAIN x /\ Tail(x)[i] = x[i + 1] /\ 1 < i + 1
  BY <1>6, TailQueue
<1>9. ~iop /\ a <= sched.next_pane_id
  <2>1. ~iop
    BY <1>6, <1>8 DEF OnTheWay, InPaneOrder
  <2> QED
    BY <2>1, <1>6, <1>8 DEF OnTheWay, Punctuated
<1>10. PICK t : t = Restrict(r, {p \in DOMAIN r : p >= a})
  OBVIOUS
<1>11. PICK P : P = {p \in DOMAIN r : p < a}
  OBVIOUS
<1>12. PICK rs : rs = Restrict(r, P)
  OBVIOUS
<1>13. /\ t \in [{p \in DOMAIN r : p >= a} -> ResultsSet]
       /\ \A p \in DOMAIN t : t[p] = r[p]
       /\ rs \in [P -> ResultsSet] /\ \A p \in P : rs[p] = r[p]
       /\ P \in SUBSET Pane /\ t \in Deque
  <2>1. /\ t \in [{p \in DOMAIN r : p >= a} -> ResultsSet]
        /\ \A p \in DOMAIN t : t[p] = r[p]
    BY <1>6, <1>10 DEF Restrict
  <2>2. rs \in [P -> ResultsSet] /\ \A p \in P : rs[p] = r[p]
    BY <1>6, <1>11, <1>12 DEF Restrict
  <2>3. {p \in DOMAIN r : p >= a} \in SUBSET Pane /\ P \in SUBSET Pane
    BY <1>6, <1>11
  <2>4. t \in Deque
    BY <2>1, <2>3 DEF Deque
  <2> QED
    BY <2>1, <2>2, <2>3, <2>4
<1>14. Deliver(rs) /\ paneSet' = [paneSet EXCEPT ![w] = t]
  <2>1. Deliver(rs)
    BY <1>2, <1>3, <1>11, <1>12 DEF RcvPunct, RestrictDomain
  <2>2. paneSet' = [paneSet EXCEPT ![w] = t]
    BY <1>2, <1>3, <1>10 DEF RcvPunct
  <2> QED
    BY <2>1, <2>2
<1>15. ASSUME NEW p \in Pane
       PROVE  Settles(r, x, t, rs, p, sched.p_instances[p],
                      p < sched.next_pane_id \/ plqTerminated)
  <2>1. PICK n : n = sched.p_instances[p]
    OBVIOUS
  <2>2. PICK final : final = (p < sched.next_pane_id \/ plqTerminated)
    OBVIOUS
  <2>3. ~Names(Head(x), p) /\ ~(Head(x).type = "LULL" /\ Head(x).pane_id = p)
        /\ Head(x).type # "FLUSH"
    BY <1>6 DEF Names, Naming
  <2>4. CASE p >= a
    <3>1. ~(Head(x).type = "PUNCT" /\ Head(x).pane_id > p)
      BY <1>6, <1>7, <2>4
    <3>2. /\ p \in DOMAIN t <=> p \in DOMAIN r
          /\ p \in DOMAIN r => t[p] = r[p]
          /\ p \notin DOMAIN rs
      BY <1>7, <1>11, <1>13, <2>4
    <3>3. Settles(r, x, t, rs, p, n, final)
      BY ONLY <1>6, <1>7, <1>13, <2>3, <3>1, <3>2, SettlesOthers
    <3> QED
      BY <2>1, <2>2, <3>3
  <2>5. ASSUME p < a
        PROVE  \A i \in DOMAIN Tail(x) : ~Names(Tail(x)[i], p)
    <3> SUFFICES ASSUME NEW i \in DOMAIN Tail(x), Names(Tail(x)[i], p) PROVE FALSE
      OBVIOUS
    <3>1. a <= p
      BY <1>6, <1>8, <1>9 DEF OnTheWay, Punctuated
    <3> QED
      BY <1>7, <2>5, <3>1
  <2>6. CASE p < a /\ p \in DOMAIN r
    <3>1. p \notin DOMAIN t /\ p \in DOMAIN rs
      BY <1>7, <1>11, <1>13, <2>6
    <3>2. rs[p].tuples = r[p].tuples /\ rs[p].no_instances = r[p].no_instances
      BY <1>13, <3>1
    <3>3. ~Anonymous(x, p)
      BY <1>6, <1>8, <1>9, <2>6 DEF Anonymous
    <3>4. final
      <4>1. sched.next_pane_id \in Nat /\ p \in Nat /\ a \in Nat
        BY <1>6, <1>7
      <4>2. p < sched.next_pane_id
        BY <1>9, <2>6, <4>1
      <4> QED
        BY ONLY <2>2, <4>2
    <3>5. Settles(r, x, t, rs, p, n, final)
      BY ONLY <1>6, <1>7, <2>3, <2>5, <2>6, <3>1, <3>2, <3>3, <3>4, SettlesDelivered
    <3> QED
      BY <2>1, <2>2, <3>5
  <2>7. CASE p < a /\ p \notin DOMAIN r
    <3>1. p \notin DOMAIN t /\ p \notin DOMAIN rs
      BY <1>7, <1>11, <1>13, <2>7
    <3>2. Settles(r, x, t, rs, p, n, final)
      BY ONLY <1>6, <2>3, <2>5, <2>7, <3>1, SettlesAbsent
    <3> QED
      BY <2>1, <2>2, <3>2
  <2> QED
    BY <1>7, <2>4, <2>6, <2>7
<1>16. iop => \A p, q \in DOMAIN t : p = q
  BY <1>9
<1> QED
  BY <1>1, <1>3, <1>4, <1>13, <1>14, <1>15, <1>16, WorkerSettles

\* What follows one of the last messages.
LEMMA NothingFollows ==
    ASSUME NEW x \in Seq(Message), x # <<>>, Tail(x) \in {<<>>, <<EOS>>, <<GO_OUT>>}
    PROVE  /\ \A i \in DOMAIN Tail(x) : Tail(x)[i].type \in {"EOS", "GO_OUT"}
           /\ \A i \in DOMAIN x : x[i] = Head(x) \/ x[i].type \in {"EOS", "GO_OUT"}
<1>1. PICK y : y = Tail(x)
  OBVIOUS
<1>2. ASSUME NEW i \in DOMAIN y PROVE y[i] \in {EOS, GO_OUT}
  <2>1. CASE y = <<>>
    BY <1>2, <2>1
  <2>2. CASE y = <<EOS>>
    BY <1>2, <2>2
  <2>3. CASE y = <<GO_OUT>>
    BY <1>2, <2>3
  <2> QED
    BY <1>1, <2>1, <2>2, <2>3
<1>3. \A i \in DOMAIN y : y[i].type \in {"EOS", "GO_OUT"}
  BY <1>2 DEF EOS, GO_OUT
<1>4. /\ DOMAIN x = 1..Len(x) /\ DOMAIN y = 1..(Len(x) - 1) /\ Len(x) \in Nat
      /\ \A i \in 1..(Len(x) - 1) : y[i] = x[i + 1]
      /\ Head(x) = x[1]
  BY <1>1, TailQueue
<1>5. ASSUME NEW i \in DOMAIN x PROVE x[i] = Head(x) \/ (i - 1 \in DOMAIN y /\ x[i] = y[i - 1])
  BY <1>4
<1> QED
  BY <1>1, <1>3, <1>5

\* A worker takes one of the last messages, which it gets once: nothing follows of
\* any pane.
LEMMA LastSettles ==
    ASSUME StageInv, AccountsInv(Emitter, plqTerminated), NEW w \in Worker,
           queue[w] # <<>>, Head(queue[w]).type \notin Ordinary,
           UNCHANGED <<emitterVars, strategy>>, openedEmpty \subseteq openedEmpty', Pop(w),
           paneSet' = [paneSet EXCEPT ![w] = EmptyDeque],
           NEW rs \in [DOMAIN paneSet[w] -> ResultsSet], Deliver(rs),
           \A p \in DOMAIN paneSet[w] :
              /\ rs[p].tuples = paneSet[w][p].tuples
              /\ IF Anonymous(queue[w], p) THEN rs[p].no_instances = 0
                 ELSE /\ rs[p].no_instances = paneSet[w][p].no_instances
                      /\ p < sched.next_pane_id \/ plqTerminated
    PROVE  AccountsInv(Emitter, plqTerminated)'
<1>1. PICK r : r = paneSet[w]
  OBVIOUS
<1>2. PICK x : x = queue[w]
  OBVIOUS
<1>3. PICK t : t = EmptyDeque
  OBVIOUS
<1>4. /\ x \in Seq(Message) /\ x # <<>>
      /\ r \in [DOMAIN r -> ResultsSet] /\ DOMAIN r \in SUBSET Pane
  BY <1>1, <1>2, OfWorker
<1>5. r \in Deque /\ t \in Deque /\ DOMAIN t = {}
  BY <1>3, <1>4, EmptyDequeIsDeque DEF Deque
<1>6. \A i \in DOMAIN Tail(x) : \A p : ~Names(Tail(x)[i], p)
  <2>1. Tail(x) \in {<<>>, <<EOS>>, <<GO_OUT>>}
    BY <1>2, TakesLast
  <2> QED
    BY <1>4, <2>1, NothingFollows DEF Names, Naming
<1>7. \A p : ~Names(Head(x), p) /\ ~(Head(x).type = "LULL" /\ Head(x).pane_id = p)
  BY <1>2 DEF Ordinary, Names, Naming
<1>8. ASSUME NEW p \in Pane
      PROVE  Settles(r, x, t, rs, p, sched.p_instances[p],
                     p < sched.next_pane_id \/ plqTerminated)
  <2>1. PICK n : n = sched.p_instances[p]
    OBVIOUS
  <2>2. PICK final : final = (p < sched.next_pane_id \/ plqTerminated)
    OBVIOUS
  <2>3. DOMAIN rs = DOMAIN r
    BY <1>1
  <2>4. CASE p \in DOMAIN r
    <3>1. rs[p].tuples = r[p].tuples
      BY <1>1, <2>4
    <3>2. IF Anonymous(x, p) THEN rs[p].no_instances = 0
          ELSE rs[p].no_instances = r[p].no_instances /\ final
      <4>1. IF Anonymous(x, p) THEN rs[p].no_instances = 0
            ELSE /\ rs[p].no_instances = r[p].no_instances
                 /\ p < sched.next_pane_id \/ plqTerminated
        BY <1>1, <1>2, <2>4
      <4> QED
        BY ONLY <2>2, <4>1
    <3>3. p \notin DOMAIN t /\ p \in DOMAIN rs
      BY <1>5, <2>3, <2>4
    <3>4. Settles(r, x, t, rs, p, n, final)
      BY ONLY <1>4, <1>5, <1>6, <1>7, <2>4, <3>1, <3>2, <3>3, SettlesDelivered
    <3> QED
      BY <2>1, <2>2, <3>4
  <2>5. CASE p \notin DOMAIN r
    <3>1. p \notin DOMAIN t /\ p \notin DOMAIN rs
      BY <1>5, <2>3, <2>5
    <3>2. Settles(r, x, t, rs, p, n, final)
      BY ONLY <1>4, <1>6, <1>7, <2>5, <3>1, SettlesAbsent
    <3> QED
      BY <2>1, <2>2, <3>2
  <2> QED
    BY <2>4, <2>5
<1>9. iop => \A p, q \in DOMAIN t : p = q
  BY <1>5
<1> QED
  BY <1>1, <1>2, <1>3, <1>4, <1>5, <1>8, <1>9, WorkerSettles

\* The accounts are kept by END.
LEMMA EndSettles ==
    ASSUME StageInv, AccountsInv(Emitter, plqTerminated), NEW w \in Worker,
           RcvEnd(w), strategy' = strategy, openedEmpty \subseteq openedEmpty'
    PROVE  AccountsInv(Emitter, plqTerminated)'
<1>1. /\ queue[w] # <<>> /\ Head(queue[w]).type = "END" /\ Pop(w)
      /\ UNCHANGED <<emitterVars, strategy>>
      /\ Deliver(paneSet[w]) /\ paneSet' = [paneSet EXCEPT ![w] = EmptyDeque]
  BY DEF RcvEnd, Ready
<1>2. Head(queue[w]).type \notin Ordinary /\ Head(queue[w]) # GO_OUT /\ Head(queue[w]) # EOS
      /\ Head(queue[w]).type # "FLUSH"
  BY <1>1 DEF Ordinary, GO_OUT, EOS
<1>3. plqTerminated /\ Tail(queue[w]) = <<EOS>>
  BY <1>1, <1>2, TakesLast
<1>4. paneSet[w] \in [DOMAIN paneSet[w] -> ResultsSet] /\ queue[w] \in Seq(Message)
  BY <1>1, OfWorker
<1>5. ASSUME NEW i \in DOMAIN queue[w] PROVE queue[w][i].type # "FLUSH"
  BY <1>1, <1>2, <1>3, <1>4, NothingFollows
<1>6. \A p : ~Anonymous(queue[w], p)
  BY <1>5 DEF Anonymous
<1>7. PICK rs : rs = paneSet[w]
  OBVIOUS
<1>8. rs \in [DOMAIN paneSet[w] -> ResultsSet] /\ Deliver(rs)
  BY <1>1, <1>4, <1>7
<1>9. \A p \in DOMAIN paneSet[w] :
         /\ rs[p].tuples = paneSet[w][p].tuples
         /\ IF Anonymous(queue[w], p) THEN rs[p].no_instances = 0
            ELSE /\ rs[p].no_instances = paneSet[w][p].no_instances
                 /\ p < sched.next_pane_id \/ plqTerminated
  BY <1>3, <1>6, <1>7
<1> QED
  BY ONLY StageInv, AccountsInv(Emitter, plqTerminated), w \in Worker,
          openedEmpty \subseteq openedEmpty', <1>1, <1>2, <1>8, <1>9, LastSettles

\* The accounts are kept by FLUSH: the partitions of the panes that are not closed
\* do not tell their number.
LEMMA FlushSettles ==
    ASSUME StageInv, AccountsInv(Emitter, plqTerminated), NEW w \in Worker,
           RcvFlush(w), strategy' = strategy, openedEmpty \subseteq openedEmpty'
    PROVE  AccountsInv(Emitter, plqTerminated)'
<1>1. /\ queue[w] # <<>> /\ Head(queue[w]).type = "FLUSH" /\ Pop(w)
      /\ UNCHANGED <<emitterVars, strategy>>
      /\ paneSet' = [paneSet EXCEPT ![w] = EmptyDeque]
  BY DEF RcvFlush, Ready
<1>2. PICK x : x = queue[w]
  OBVIOUS
<1>3. PICK r : r = paneSet[w]
  OBVIOUS
<1>4. PICK a : a = Head(x).pane_id
  OBVIOUS
<1>5. Head(x).type \notin Ordinary /\ Head(x) # GO_OUT /\ Head(x) # EOS
  BY <1>1, <1>2 DEF Ordinary, GO_OUT, EOS
<1>6. Tail(x) \in {<<EOS>>, <<GO_OUT>>}
  BY <1>1, <1>2, <1>5, TakesLast
<1>7. /\ x \in Seq(Message) /\ x # <<>> /\ Head(x) \in Message
      /\ r \in [DOMAIN r -> ResultsSet] /\ DOMAIN r \in SUBSET Pane
      /\ sched.next_pane_id \in Pane
  BY <1>1, <1>2, <1>3, OfWorker
<1>8. a \in Pane /\ Pane \subseteq Nat
  BY <1>1, <1>2, <1>4, <1>7, MessageFields DEF Pane
<1>9. 1 \in DOMAIN x /\ x[1] = Head(x)
  BY <1>7, TailQueue
<1>10. a <= sched.next_pane_id
  <2>1. Flushes(DOMAIN r, x, sched.next_pane_id)
    BY <1>2, <1>3 DEF AccountsInv, Emitter
  <2> QED
    BY <1>1, <1>2, <1>4, <1>9, <2>1 DEF Flushes
<1>11. ASSUME NEW i \in DOMAIN x PROVE x[i] = Head(x) \/ x[i].type \in {"EOS", "GO_OUT"}
  BY <1>6, <1>7, NothingFollows
<1>12. ASSUME NEW p \in Pane PROVE Anonymous(x, p) <=> ~(iop /\ p < a)
  <2>1. \A i \in DOMAIN x : x[i].type = "FLUSH" => x[i] = Head(x)
    BY <1>11
  <2>2. \A i \in DOMAIN x : x[i].type # "PUNCT"
    BY <1>1, <1>2, <1>11
  <2>3. a <= p <=> ~(p < a)
    BY <1>8
  <2> QED
    BY <1>1, <1>2, <1>4, <1>9, <2>1, <2>2, <2>3 DEF Anonymous
<1>13. PICK rs : rs = [p \in DOMAIN r |-> IF iop /\ p < a THEN r[p] ELSE Unspecified(r[p])]
  OBVIOUS
<1>14. \A p \in DOMAIN r : Unspecified(r[p]) \in ResultsSet
                           /\ Unspecified(r[p]).tuples = r[p].tuples
                           /\ Unspecified(r[p]).no_instances = 0
  BY <1>7 DEF Unspecified, ResultsSet
<1>15. rs \in [DOMAIN r -> ResultsSet]
  BY <1>7, <1>13, <1>14
<1>16. Deliver(rs)
  BY <1>2, <1>3, <1>4, <1>13 DEF RcvFlush
<1>17. ASSUME NEW p \in DOMAIN r
       PROVE  /\ rs[p].tuples = r[p].tuples
              /\ IF Anonymous(x, p) THEN rs[p].no_instances = 0
                 ELSE /\ rs[p].no_instances = r[p].no_instances
                      /\ p < sched.next_pane_id \/ plqTerminated
  <2>1. p \in Pane
    BY <1>7
  <2>2. CASE iop /\ p < a
    <3>1. p < sched.next_pane_id
      <4>1. sched.next_pane_id \in Nat /\ p \in Nat
        BY <1>7, <1>8, <2>1
      <4> QED
        BY <1>8, <1>10, <2>2, <4>1
    <3> QED
      BY <1>12, <1>13, <2>1, <2>2, <3>1
  <2>3. CASE ~(iop /\ p < a)
    BY <1>12, <1>13, <1>14, <2>1, <2>3
  <2> QED
    BY <2>2, <2>3
<1> QED
  BY <1>1, <1>2, <1>3, <1>5, <1>15, <1>16, <1>17, LastSettles

\* The accounts are kept when a worker freezes or ends.
LEMMA LeaveSettles ==
    ASSUME StageInv, AccountsInv(Emitter, plqTerminated), NEW w \in Worker,
           Leave(w), strategy' = strategy, openedEmpty \subseteq openedEmpty'
    PROVE  AccountsInv(Emitter, plqTerminated)'
<1>1. /\ queue[w] # <<>> /\ Head(queue[w]).type \in {"GO_OUT", "EOS"} /\ Pop(w)
      /\ UNCHANGED <<emitterVars, strategy>> /\ paneSet' = paneSet /\ results' = results
  BY DEF Leave, Ready
<1>2. PICK x : x = queue[w]
  OBVIOUS
<1>3. PICK r : r = paneSet[w]
  OBVIOUS
<1>4. PICK rs : rs = EmptyDeque
  OBVIOUS
<1>5. /\ x \in Seq(Message) /\ x # <<>>
      /\ r \in Deque /\ paneSet' = [paneSet EXCEPT ![w] = r]
  BY <1>1, <1>2, <1>3, OfWorker DEF StageInv, TypeInv
<1>6. rs \in [{} -> ResultsSet] /\ Deliver(rs) /\ {} \in SUBSET Pane
  BY <1>1, <1>4, DeliversNothing DEF StageInv
<1>7. ASSUME NEW p \in Pane
      PROVE  Settles(r, x, r, rs, p, sched.p_instances[p],
                     p < sched.next_pane_id \/ plqTerminated)
  <2>1. /\ Head(x).type # "FLUSH" /\ ~(Head(x).type = "PUNCT" /\ Head(x).pane_id > p)
        /\ ~Names(Head(x), p) /\ ~(Head(x).type = "LULL" /\ Head(x).pane_id = p)
    BY <1>1, <1>2 DEF Names, Naming
  <2>2. p \notin DOMAIN rs
    BY <1>6
  <2> QED
    BY ONLY <1>5, <2>1, <2>2, SettlesOthers
<1>8. iop => \A p, q \in DOMAIN r : p = q
  BY <1>3 DEF AccountsInv, Flushes
<1>9. \A p \in Pane : Settles(paneSet[w], queue[w], r, rs, p, sched.p_instances[p],
                             p < sched.next_pane_id \/ plqTerminated)
  BY <1>2, <1>3, <1>7
<1> QED
  BY ONLY StageInv, AccountsInv(Emitter, plqTerminated), w \in Worker,
          openedEmpty \subseteq openedEmpty', <1>1, <1>5, <1>6, <1>8, <1>9, WorkerSettles

\* The accounts are kept by LULL.
LEMMA LullSettles ==
    ASSUME StageInv, AccountsInv(Emitter, plqTerminated), NEW w \in Worker,
           RcvLull(w), strategy' = strategy, openedEmpty \subseteq openedEmpty'
    PROVE  AccountsInv(Emitter, plqTerminated)'
<1>1. PICK x : x = queue[w]
  OBVIOUS
<1>2. PICK r : r = paneSet[w]
  OBVIOUS
<1>3. PICK m : m = Head(x)
  OBVIOUS
<1>4. /\ x # <<>> /\ m.type = "LULL" /\ Pop(w)
      /\ UNCHANGED <<emitterVars, strategy>> /\ paneSet' = paneSet
  BY <1>1, <1>3 DEF RcvLull, Ready
<1>5. /\ x \in Seq(Message) /\ m \in Message
      /\ r \in Deque /\ paneSet' = [paneSet EXCEPT ![w] = r]
  BY <1>1, <1>2, <1>3, <1>4, OfWorker DEF StageInv, TypeInv
<1>6. PICK q : q = m.pane_id
  OBVIOUS
<1>7. q \in Pane /\ m.no_instances \in Nat
  BY <1>4, <1>5, <1>6, MessageFields
<1>8. PICK rs : rs = [p \in {q} |-> [no_instances |-> m.no_instances, tuples |-> 0]]
  OBVIOUS
<1>9. /\ {q} \in SUBSET Pane /\ rs \in [{q} -> ResultsSet] /\ Deliver(rs)
      /\ rs[q] = [no_instances |-> m.no_instances, tuples |-> 0]
  BY <1>1, <1>3, <1>6, <1>7, <1>8 DEF RcvLull, ResultsSet
<1>10. sched.p_instances[q] = 1 /\ m.no_instances = 1 /\ q < sched.next_pane_id
  <2>1. 1 \in DOMAIN x /\ x[1] = m
    BY <1>3, <1>4, <1>5, TailQueue
  <2>2. 1 \in About(queue[w], "LULL", q) /\ queue[w][1] = m
    BY <1>1, <1>4, <1>6, <2>1 DEF About
  <2>3. LullsClosed(Emitter, q, q < sched.next_pane_id)
    BY <1>7 DEF AccountsInv, Account, Emitter
  <2> QED
    BY <2>2, <2>3 DEF LullsClosed, Emitter
<1>11. ASSUME NEW p \in Pane
       PROVE  Settles(r, x, r, rs, p, sched.p_instances[p],
                      p < sched.next_pane_id \/ plqTerminated)
  <2>1. CASE p = q
    <3>1. /\ Head(x).type = "LULL" /\ Head(x).pane_id = p
          /\ p \in DOMAIN rs /\ rs[p].tuples = 0 /\ rs[p].no_instances = sched.p_instances[p]
          /\ p < sched.next_pane_id \/ plqTerminated
      BY <1>3, <1>4, <1>6, <1>9, <1>10, <2>1
    <3> QED
      BY ONLY <1>4, <1>5, <3>1, SettlesLull
  <2>2. CASE p # q
    <3>1. /\ Head(x).type # "FLUSH" /\ ~(Head(x).type = "PUNCT" /\ Head(x).pane_id > p)
          /\ ~Names(Head(x), p) /\ ~(Head(x).type = "LULL" /\ Head(x).pane_id = p)
      BY <1>3, <1>4, <1>6, <2>2 DEF Names, Naming
    <3>2. p \notin DOMAIN rs
      BY <1>9, <2>2
    <3> QED
      BY ONLY <1>4, <1>5, <3>1, <3>2, SettlesOthers
  <2> QED
    BY <2>1, <2>2
<1>12. iop => \A p1, p2 \in DOMAIN r : p1 = p2
  BY <1>2 DEF AccountsInv, Flushes
<1> QED
  BY <1>1, <1>2, <1>4, <1>5, <1>9, <1>11, <1>12, WorkerSettles

\* The accounts are kept by NEW_INST.
LEMMA NewInstSettles ==
    ASSUME StageInv, AccountsInv(Emitter, plqTerminated), NEW w \in Worker,
           RcvNewInst(w), strategy' = strategy, openedEmpty \subseteq openedEmpty'
    PROVE  AccountsInv(Emitter, plqTerminated)'
<1>1. PICK x : x = queue[w]
  OBVIOUS
<1>2. PICK r : r = paneSet[w]
  OBVIOUS
<1>3. PICK m : m = Head(x)
  OBVIOUS
<1>4. PICK q : q = m.pane_id
  OBVIOUS
<1>5. /\ x # <<>> /\ m.type = "NEW_INST" /\ Pop(w)
      /\ UNCHANGED <<emitterVars, strategy>> /\ results' = results
      /\ q \in DOMAIN r
      /\ paneSet' = [paneSet EXCEPT ![w][q].no_instances = m.no_instances]
  BY <1>1, <1>2, <1>3, <1>4 DEF RcvNewInst, Ready
<1>6. /\ x \in Seq(Message) /\ m \in Message
      /\ r \in [DOMAIN r -> ResultsSet] /\ DOMAIN r \in SUBSET Pane
  BY <1>1, <1>2, <1>3, <1>5, OfWorker
<1>7. m.no_instances \in Nat
  BY <1>5, <1>6, MessageFields DEF Naming
<1>8. PICK t : t = [r EXCEPT ![q].no_instances = m.no_instances]
  OBVIOUS
<1>9. /\ t \in [DOMAIN r -> ResultsSet] /\ DOMAIN t = DOMAIN r
      /\ t[q].tuples = r[q].tuples /\ t[q].no_instances = m.no_instances
      /\ \A p \in DOMAIN r \ {q} : t[p] = r[p]
  BY <1>5, <1>6, <1>7, <1>8 DEF ResultsSet
<1>10. r \in Deque /\ t \in Deque /\ paneSet' = [paneSet EXCEPT ![w] = t]
  <2>1. r \in Deque /\ t \in Deque
    BY <1>6, <1>9 DEF Deque
  <2> QED
    BY <1>2, <1>5, <1>8, <2>1
<1>11. PICK rs : rs = EmptyDeque
  OBVIOUS
<1>12. rs \in [{} -> ResultsSet] /\ Deliver(rs) /\ {} \in SUBSET Pane
  BY <1>5, <1>11, DeliversNothing DEF StageInv
<1>13. ASSUME NEW p \in Pane
       PROVE  Settles(r, x, t, rs, p, sched.p_instances[p],
                      p < sched.next_pane_id \/ plqTerminated)
  <2>1. p \notin DOMAIN rs
    BY <1>12
  <2>2. CASE p = q
    <3>1. /\ Head(x).type = "NEW_INST" /\ Head(x).pane_id = p
          /\ p \in DOMAIN r /\ p \in DOMAIN t
          /\ t[p].tuples = r[p].tuples /\ t[p].no_instances = Head(x).no_instances
      BY <1>3, <1>4, <1>5, <1>9, <2>2
    <3> QED
      BY ONLY <1>5, <1>6, <1>10, <2>1, <3>1, SettlesTold
  <2>3. CASE p # q
    <3>1. /\ Head(x).type # "FLUSH" /\ ~(Head(x).type = "PUNCT" /\ Head(x).pane_id > p)
          /\ ~Names(Head(x), p) /\ ~(Head(x).type = "LULL" /\ Head(x).pane_id = p)
          /\ p \in DOMAIN t <=> p \in DOMAIN r
          /\ p \in DOMAIN r => t[p] = r[p]
      BY <1>3, <1>4, <1>5, <1>9, <2>3 DEF Names, Naming
    <3> QED
      BY ONLY <1>5, <1>6, <1>10, <2>1, <3>1, SettlesOthers
  <2> QED
    BY <2>2, <2>3
<1>14. iop => \A p1, p2 \in DOMAIN t : p1 = p2
  BY <1>2, <1>9 DEF AccountsInv, Flushes
<1> QED
  BY <1>1, <1>2, <1>5, <1>10, <1>12, <1>13, <1>14, WorkerSettles

\* The accounts are kept by a tuple, or by the order to hold an empty partition.
LEMMA TupleSettles ==
    ASSUME StageInv, AccountsInv(Emitter, plqTerminated), NEW w \in Worker,
           RcvTuple(w), strategy' = strategy, openedEmpty \subseteq openedEmpty'
    PROVE  AccountsInv(Emitter, plqTerminated)'
<1>1. PICK x : x = queue[w]
  OBVIOUS
<1>2. PICK r : r = paneSet[w]
  OBVIOUS
<1>3. PICK m : m = Head(x)
  OBVIOUS
<1>4. PICK q : q = m.pane_id
  OBVIOUS
<1>5. /\ ~iop /\ x # <<>> /\ m.type \in Making /\ Pop(w)
      /\ UNCHANGED <<emitterVars, strategy>> /\ results' = results
  BY <1>1, <1>3 DEF RcvTuple, Ready, Making
<1>6. /\ x \in Seq(Message) /\ m \in Message
      /\ r \in [DOMAIN r -> ResultsSet] /\ DOMAIN r \in SUBSET Pane
  BY <1>1, <1>2, <1>3, <1>5, OfWorker
<1>7. PICK old : old = IF q \in DOMAIN r THEN r[q] ELSE Created(m)
  OBVIOUS
<1>8. PICK t : t = [p \in DOMAIN r \cup {q} |-> IF p = q THEN Filled(old, m) ELSE r[p]]
  OBVIOUS
<1>9. q \in Pane /\ old \in ResultsSet /\ Filled(old, m) \in ResultsSet
  <2>1. q \in Pane /\ m.no_instances \in Nat
    BY <1>4, <1>5, <1>6, MessageFields DEF Making, Naming
  <2>2. Created(m) \in ResultsSet
    BY <2>1 DEF Created, ResultsSet
  <2>3. old \in ResultsSet
    BY <1>6, <1>7, <2>2
  <2> QED
    BY <1>5, <1>6, <2>1, <2>3, FilledType
<1>10. /\ r \in Deque /\ t \in Deque /\ DOMAIN t = DOMAIN r \cup {q}
       /\ t[q] = Filled(old, m) /\ \A p \in DOMAIN r \ {q} : t[p] = r[p]
  <2>1. t \in [DOMAIN r \cup {q} -> ResultsSet] /\ DOMAIN r \cup {q} \in SUBSET Pane
    BY <1>6, <1>8, <1>9
  <2> QED
    BY <1>6, <1>8, <2>1 DEF Deque
<1>11. paneSet' = [paneSet EXCEPT ![w] = t]
  BY <1>1, <1>2, <1>3, <1>4, <1>7, <1>8 DEF RcvTuple
<1>12. PICK rs : rs = EmptyDeque
  OBVIOUS
<1>13. rs \in [{} -> ResultsSet] /\ Deliver(rs) /\ {} \in SUBSET Pane
  BY <1>5, <1>12, DeliversNothing DEF StageInv
<1>14. ASSUME NEW p \in Pane
       PROVE  Settles(r, x, t, rs, p, sched.p_instances[p],
                      p < sched.next_pane_id \/ plqTerminated)
  <2>1. p \notin DOMAIN rs
    BY <1>13
  <2>2. CASE p = q
    <3>1. Makes(Head(x), p) /\ p \in DOMAIN t
      BY <1>3, <1>4, <1>5, <1>10, <2>2 DEF Makes
    <3>2. /\ t[p].tuples = (IF p \in DOMAIN r THEN r[p].tuples ELSE 0)
                               + IF Head(x).type = "REGULAR" THEN 1 ELSE 0
          /\ t[p].no_instances = IF p \in DOMAIN r THEN r[p].no_instances
                                 ELSE Head(x).no_instances
      <4>1. Filled(old, m).tuples = old.tuples + (IF m.type = "REGULAR" THEN 1 ELSE 0)
            /\ Filled(old, m).no_instances = old.no_instances
        BY <1>9 DEF Filled, ResultsSet
      <4>2. Created(m).tuples = 0 /\ Created(m).no_instances = m.no_instances
        BY DEF Created
      <4> QED
        BY <1>3, <1>7, <1>10, <2>2, <4>1, <4>2
    <3> QED
      BY ONLY <1>5, <1>6, <1>10, <2>1, <3>1, <3>2, SettlesFilled
  <2>3. CASE p # q
    <3>1. /\ Head(x).type # "FLUSH" /\ ~(Head(x).type = "PUNCT" /\ Head(x).pane_id > p)
          /\ ~Names(Head(x), p) /\ ~(Head(x).type = "LULL" /\ Head(x).pane_id = p)
          /\ p \in DOMAIN t <=> p \in DOMAIN r
          /\ p \in DOMAIN r => t[p] = r[p]
      BY <1>3, <1>4, <1>5, <1>10, <2>3 DEF Names, Making
    <3> QED
      BY ONLY <1>5, <1>6, <1>10, <2>1, <3>1, SettlesOthers
  <2> QED
    BY <2>2, <2>3
<1>15. iop => \A p1, p2 \in DOMAIN t : p1 = p2
  BY <1>5
<1> QED
  BY <1>1, <1>2, <1>5, <1>10, <1>11, <1>13, <1>14, <1>15, WorkerSettles

\* The accounts are kept by a tuple of the in-order build, which also delivers the
\* pane before.
LEMMA InOrderSettles ==
    ASSUME StageInv, AccountsInv(Emitter, plqTerminated), NEW w \in Worker,
           RcvInOrder(w), strategy' = strategy, openedEmpty \subseteq openedEmpty'
    PROVE  AccountsInv(Emitter, plqTerminated)'
<1>1. PICK x : x = queue[w]
  OBVIOUS
<1>2. PICK r : r = paneSet[w]
  OBVIOUS
<1>3. PICK m : m = Head(x)
  OBVIOUS
<1>4. PICK a : a = m.pane_id
  OBVIOUS
<1>5. PICK held : held = IF plqTerminated THEN {} ELSE HeldBy(sched, w)
  OBVIOUS
<1>6. /\ iop /\ x # <<>> /\ m.type \in Making /\ Pop(w)
      /\ UNCHANGED <<emitterVars, strategy>>
  BY <1>1, <1>3 DEF RcvInOrder, Ready, Making
<1>7. /\ x \in Seq(Message) /\ m \in Message
      /\ r \in [DOMAIN r -> ResultsSet] /\ DOMAIN r \in SUBSET Pane
      /\ sched.next_pane_id \in Pane
      /\ OnTheWay(DOMAIN r, x, sched.next_pane_id, held)
  BY <1>1, <1>2, <1>3, <1>5, <1>6, OfWorker
<1>8. a \in Pane /\ Pane \subseteq Nat /\ r \in Deque
  BY <1>4, <1>6, <1>7, MessageFields DEF Making, Naming, Pane, Deque
<1>9. /\ 1 \in DOMAIN x /\ x[1] = m /\ Names(x[1], a)
      /\ \A i \in DOMAIN Tail(x) : i + 1 \in DOMAIN x /\ Tail(x)[i] = x[i + 1] /\ 1 < i + 1
  <2>1. /\ 1 \in DOMAIN x /\ x[1] = m
        /\ \A i \in DOMAIN Tail(x) : i + 1 \in DOMAIN x /\ Tail(x)[i] = x[i + 1] /\ 1 < i + 1
    BY <1>3, <1>6, <1>7, TailQueue
  <2> QED
    BY <1>4, <1>6, <2>1 DEF Names, Making, Naming
<1>10. /\ a <= sched.next_pane_id /\ (\A p \in DOMAIN r : p <= a)
       /\ \A j \in DOMAIN x : \A p \in Pane : 1 < j /\ Names(x[j], p) => a <= p
  <2>1. InPaneOrder(DOMAIN r, x, sched.next_pane_id)
    BY <1>6, <1>7 DEF OnTheWay
  <2> QED
    BY <1>8, <1>9, <2>1 DEF InPaneOrder
<1>11. Flushes(DOMAIN r, x, sched.next_pane_id)
  BY <1>1, <1>2 DEF AccountsInv, Emitter
<1>12. PICK P : P = {p \in DOMAIN r : p < a}
  OBVIOUS
<1>13. PICK rest : rest = {p \in DOMAIN r : ~(p < a)}
  OBVIOUS
<1>14. /\ a \notin DOMAIN r => rest = {} /\ P = DOMAIN r
       /\ a \in DOMAIN r => rest = {a} /\ P = {} /\ DOMAIN r = {a}
  <2>1. ASSUME NEW p \in DOMAIN r PROVE p \in Nat /\ a \in Nat /\ p <= a
    BY <1>7, <1>8, <1>10
  <2>2. \A p \in DOMAIN r : p < a <=> p # a
    BY <2>1
  <2>3. a \in DOMAIN r => DOMAIN r = {a}
    BY <1>6, <1>11 DEF Flushes
  <2> QED
    BY <1>12, <1>13, <2>2, <2>3
<1>15. PICK old : old = IF a \in DOMAIN r THEN r[a] ELSE Created(m)
  OBVIOUS
<1>16. PICK t : t = [p \in {a} |-> Filled(old, m)]
  OBVIOUS
<1>17. old \in ResultsSet /\ Filled(old, m) \in ResultsSet
  <2>1. m.no_instances \in Nat
    BY <1>6, <1>7, MessageFields DEF Making, Naming
  <2>2. Created(m) \in ResultsSet
    BY <2>1 DEF Created, ResultsSet
  <2>3. old \in ResultsSet
    BY <1>7, <1>15, <2>2
  <2> QED
    BY <1>6, <1>7, <2>3, FilledType
<1>18. t \in Deque /\ DOMAIN t = {a} /\ t[a] = Filled(old, m)
  <2>1. t \in [{a} -> ResultsSet] /\ {a} \in SUBSET Pane
    BY <1>8, <1>16, <1>17
  <2> QED
    BY <1>16, <2>1 DEF Deque
<1>19. paneSet' = [paneSet EXCEPT ![w] = t]
  <2>1. paneSet' = [paneSet EXCEPT ![w] =
                IF rest = {} THEN [p \in {a} |-> Filled(Created(m), m)]
                ELSE [r EXCEPT ![Min(rest)] = Filled(@, m)]]
    BY <1>1, <1>2, <1>3, <1>4, <1>13 DEF RcvInOrder
  <2>2. CASE a \notin DOMAIN r
    BY <1>14, <1>15, <1>16, <2>1, <2>2
  <2>3. CASE a \in DOMAIN r
    <3>1. Min({a}) = a
      <4>1. \A b \in {a} : (\A c \in {a} : b <= c) <=> b = a
        BY <1>8
      <4> QED
        BY <4>1 DEF Min
    <3>2. [r EXCEPT ![a] = Filled(@, m)] = t
      BY <1>7, <1>14, <1>15, <1>16, <2>3
    <3> QED
      BY <1>14, <2>1, <2>3, <3>1, <3>2
  <2> QED
    BY <2>2, <2>3
<1>20. PICK rs : rs = Restrict(r, P)
  OBVIOUS
<1>21. /\ rs \in [P -> ResultsSet] /\ (\A p \in P : rs[p] = r[p])
       /\ Deliver(rs) /\ P \in SUBSET Pane
  <2>1. rs \in [P -> ResultsSet] /\ (\A p \in P : rs[p] = r[p]) /\ P \in SUBSET Pane
    BY <1>7, <1>12, <1>20 DEF Restrict
  <2>2. Deliver(rs)
    BY <1>1, <1>2, <1>3, <1>4, <1>12, <1>20 DEF RcvInOrder, RestrictDomain
  <2> QED
    BY <2>1, <2>2
<1>22. ASSUME NEW p \in Pane
       PROVE  Settles(r, x, t, rs, p, sched.p_instances[p],
                      p < sched.next_pane_id \/ plqTerminated)
  <2>1. CASE p = a
    <3>1. Makes(Head(x), p) /\ p \in DOMAIN t /\ p \notin DOMAIN rs
      BY <1>3, <1>4, <1>6, <1>8, <1>12, <1>18, <1>21, <2>1 DEF Makes
    <3>2. /\ t[p].tuples = (IF p \in DOMAIN r THEN r[p].tuples ELSE 0)
                               + IF Head(x).type = "REGULAR" THEN 1 ELSE 0
          /\ t[p].no_instances = IF p \in DOMAIN r THEN r[p].no_instances
                                 ELSE Head(x).no_instances
      <4>1. Filled(old, m).tuples = old.tuples + (IF m.type = "REGULAR" THEN 1 ELSE 0)
            /\ Filled(old, m).no_instances = old.no_instances
        BY <1>17 DEF Filled, ResultsSet
      <4>2. Created(m).tuples = 0 /\ Created(m).no_instances = m.no_instances
        BY DEF Created
      <4> QED
        BY <1>3, <1>15, <1>18, <2>1, <4>1, <4>2
    <3> QED
      BY ONLY <1>6, <1>7, <1>8, <1>18, <3>1, <3>2, SettlesFilled
  <2>2. ASSUME p # a
        PROVE  /\ Head(x).type # "FLUSH" /\ ~(Head(x).type = "PUNCT" /\ Head(x).pane_id > p)
               /\ ~Names(Head(x), p) /\ ~(Head(x).type = "LULL" /\ Head(x).pane_id = p)
    BY <1>3, <1>4, <1>6, <2>2 DEF Names, Making
  <2>3. CASE p # a /\ p \notin DOMAIN r
    <3>1. /\ p \in DOMAIN t <=> p \in DOMAIN r
          /\ p \in DOMAIN r => t[p] = r[p]
          /\ p \notin DOMAIN rs
      BY <1>12, <1>18, <1>21, <2>3
    <3> QED
      BY ONLY <1>6, <1>7, <1>8, <1>18, <2>2, <2>3, <3>1, SettlesOthers
  <2>4. CASE p # a /\ p \in DOMAIN r
    <3>1. p \in P /\ p < a /\ p \notin DOMAIN t /\ p \in DOMAIN rs
      BY <1>12, <1>14, <1>18, <1>21, <2>4
    <3>2. rs[p].tuples = r[p].tuples /\ rs[p].no_instances = r[p].no_instances
      BY <1>21, <3>1
    <3>3. ~Anonymous(x, p)
      <4> SUFFICES ASSUME NEW i \in DOMAIN x, x[i].type = "FLUSH", x[i].pane_id <= p PROVE FALSE
        BY <1>6 DEF Anonymous
      <4>1. a <= x[i].pane_id
        BY <1>6, <1>8, <1>9, <1>11 DEF Flushes
      <4>2. x[i].pane_id \in Pane
        <5>1. x[i] \in Message
          BY <1>7
        <5> QED
          BY <5>1, MessageFields
      <4> QED
        BY <1>8, <3>1, <4>1, <4>2
    <3>4. \A i \in DOMAIN Tail(x) : ~Names(Tail(x)[i], p)
      <4> SUFFICES ASSUME NEW i \in DOMAIN Tail(x), Names(Tail(x)[i], p) PROVE FALSE
        OBVIOUS
      <4>1. a <= p
        BY <1>9, <1>10
      <4> QED
        BY <1>8, <3>1, <4>1
    <3>5. p < sched.next_pane_id \/ plqTerminated
      <4>1. sched.next_pane_id \in Nat /\ p \in Nat /\ a \in Nat
        BY <1>7, <1>8
      <4> QED
        BY <1>10, <3>1, <4>1
    <3> QED
      BY ONLY <1>6, <1>7, <1>8, <2>2, <2>4, <3>1, <3>2, <3>3, <3>4, <3>5, SettlesDelivered
  <2> QED
    BY <2>1, <2>3, <2>4
<1>23. iop => \A p1, p2 \in DOMAIN t : p1 = p2
  BY <1>18
<1> QED
  BY ONLY StageInv, AccountsInv(Emitter, plqTerminated), w \in Worker,
          openedEmpty \subseteq openedEmpty',
          <1>1, <1>2, <1>6, <1>18, <1>19, <1>21, <1>22, <1>23, WorkerSettles

\* The accounts are kept by whatever a worker takes from its queue.
LEMMA WorkerAccounts ==
    ASSUME StageInv, AccountsInv(Emitter, plqTerminated), NEW w \in Worker,
           WorkerStep(w), strategy' = strategy, openedEmpty \subseteq openedEmpty'
    PROVE  AccountsInv(Emitter, plqTerminated)'
<1>1. \/ RcvPunct(w) \/ RcvEnd(w) \/ RcvFlush(w) \/ RcvNewInst(w)
      \/ RcvLull(w) \/ RcvTuple(w) \/ RcvInOrder(w) \/ Leave(w)
  BY DEF WorkerStep
<1> QED
  BY <1>1, PunctSettles, EndSettles, FlushSettles, NewInstSettles, LullSettles,
     TupleSettles, InOrderSettles, LeaveSettles

-----------------------------------------------------------------------------
(* What the emitter sends                                                  *)

\* The queue x of a worker with the results sets r becomes y, and what is to come
\* of pane p stays the same; its number may only be withheld before it is final.
Same(r, x, y, p, final) ==
    /\ PartsAt(r, y, p) = PartsAt(r, x, p) /\ TuplesAt(r, y, p) = TuplesAt(r, x, p)
    /\ Has(DOMAIN r, y, p) => Has(DOMAIN r, x, p)
    /\ Anonymous(x, p) => Anonymous(y, p)
    /\ \A n : Tells(r, x, p, n) => Tells(r, y, p, n)
    /\ final /\ WillTell(DOMAIN r, x, p) => WillTell(DOMAIN r, y, p)
    /\ \A j \in About(y, "LULL", p) : \E i \in About(x, "LULL", p) : x[i] = y[j]

\* A message that is not about the pane.
LEMMA AppendElsewhere ==
    ASSUME NEW r, NEW x \in Seq(Message), NEW m \in Message, NEW p, NEW final,
           m.type # "FLUSH", m.type = "PUNCT" => \A i \in DOMAIN x : x[i].type # "FLUSH",
           ~Names(m, p), ~(m.type = "LULL" /\ m.pane_id = p)
    PROVE  Same(r, x, Append(x, m), p, final)
<1>1. PICK y : y = Append(x, m)
  OBVIOUS
<1>2. ~Makes(m, p) /\ ~(m.type = "REGULAR" /\ m.pane_id = p)
  BY DEF Makes, Names, Making, Naming
<1>3. Has(DOMAIN r, y, p) <=> Has(DOMAIN r, x, p)
  BY <1>1, <1>2, AppendHas
<1>4. /\ Cardinality(About(y, "LULL", p)) = Cardinality(About(x, "LULL", p))
      /\ Cardinality(About(y, "REGULAR", p)) = Cardinality(About(x, "REGULAR", p))
      /\ About(y, "LULL", p) = {} <=> About(x, "LULL", p) = {}
  <2>1. y \in Seq(Message)
    BY <1>1, AppendQueue
  <2>2. /\ Cardinality(About(x, "LULL", p)) \in Nat
        /\ Cardinality(About(x, "REGULAR", p)) \in Nat
        /\ About(y, "LULL", p) = {} <=> Cardinality(About(y, "LULL", p)) = 0
        /\ About(x, "LULL", p) = {} <=> Cardinality(About(x, "LULL", p)) = 0
    BY <2>1, AboutCount
  <2>3. /\ Cardinality(About(y, "LULL", p)) = Cardinality(About(x, "LULL", p)) + 0
        /\ Cardinality(About(y, "REGULAR", p)) = Cardinality(About(x, "REGULAR", p)) + 0
    BY <1>1, <1>2, AppendAbout
  <2> QED
    BY <2>2, <2>3
<1>5. Anonymous(y, p) <=> Anonymous(x, p)
  BY <1>1, AppendAnonymous
<1>6. ASSUME NEW n, Tells(r, x, p, n) PROVE Tells(r, y, p, n)
  BY <1>1, <1>6, AppendTells
<1>7. \A j \in About(y, "LULL", p) : j \in About(x, "LULL", p) /\ x[j] = y[j]
  <2>1. /\ Len(x) \in Nat /\ DOMAIN x = 1..Len(x) /\ DOMAIN y = 1..(Len(x) + 1)
        /\ \A i \in 1..Len(x) : y[i] = x[i]
        /\ y[Len(x) + 1] = m
    BY <1>1, AppendQueue
  <2>2. \A j \in DOMAIN y : (j \in DOMAIN x /\ y[j] = x[j]) \/ y[j] = m
    BY <2>1
  <2> QED
    BY <2>2 DEF About
<1> QED
  BY <1>1, <1>3, <1>4, <1>5, <1>6, <1>7 DEF Same, WillTell, PartsAt, TuplesAt

\* The account of a pane is kept by what leaves the same to come of it.
LEMMA AccountKept ==
    ASSUME NEW e, NEW d, NEW p \in Pane, NEW closed, NEW over,
           Account(e, p, closed, over),
           \A w \in Worker : Same(paneSet[w], e.q[w], d.q[w], p, closed \/ over),
           d.s.p_instances[p] = e.s.p_instances[p], d.s.pane_size[p] = e.s.pane_size[p],
           d.s.holders[p] = e.s.holders[p], d.s.activated \subseteq e.s.activated,
           e.s.activated \subseteq Worker
    PROVE  Account(d, p, closed, over)
<1>1. Sound(d, p, closed) => Sound(e, p, closed)
  BY DEF Sound
<1>2. PartsToCome(d, p) = PartsToCome(e, p) /\ TuplesToCome(d, p) = TuplesToCome(e, p)
  BY DEF PartsToCome, TuplesToCome, Same
<1>3. Balanced(e, p) => Balanced(d, p)
  BY <1>2 DEF Balanced
<1>4. Agreed(e, p) => Agreed(d, p)
  BY DEF Agreed, Same
<1>5. Announced(e, p, closed \/ over) => Announced(d, p, closed \/ over)
  BY DEF Announced, Same
<1>6. Tracked(e, p) => Tracked(d, p)
  BY DEF Tracked, Same
<1>7. LullsClosed(e, p, closed) => LullsClosed(d, p, closed)
  <2> SUFFICES ASSUME LullsClosed(e, p, closed), NEW w \in Worker,
                      NEW j \in About(d.q[w], "LULL", p)
               PROVE  closed /\ d.s.p_instances[p] = 1 /\ d.q[w][j].no_instances = 1
    BY DEF LullsClosed
  <2>1. PICK i \in About(e.q[w], "LULL", p) : e.q[w][i] = d.q[w][j]
    BY DEF Same
  <2> QED
    BY <2>1 DEF LullsClosed
<1> QED
  BY <1>1, <1>3, <1>4, <1>5, <1>6, <1>7 DEF Account

\* The accounts when the panes before k are taken for closed.
AccountsUpTo(e, k) ==
    /\ \A p \in Pane : Account(e, p, p < k, FALSE)
    /\ \A w \in Worker : Flushes(DOMAIN paneSet[w], e.q[w], e.s.next_pane_id)

\* In the queue of an activated worker there is no order to flush, and the worker
\* has a partition of the open panes that it holds.
LEMMA OfActive ==
    ASSUME NEW e \in EmitterType, QueuesInv(e, FALSE), NEW w \in e.s.activated
    PROVE  /\ w \in Worker
           /\ \A i \in DOMAIN e.q[w] : e.q[w][i].type \in Ordinary
           /\ \A p : ~Anonymous(e.q[w], p)
           /\ \A p \in Pane : p >= e.s.next_pane_id /\ w \in e.s.holders[p] =>
                 Has(DOMAIN paneSet[w], e.q[w], p)
<1>1. w \in Worker /\ e.q[w] \in Seq(Message)
  BY DEF EmitterType, Sched
<1>2. PICK x : x = e.q[w]
  OBVIOUS
<1>3. PICK D : D = DOMAIN paneSet[w]
  OBVIOUS
<1>4. /\ Phase(status[w], D, x, FALSE, TRUE)
      /\ OnTheWay(D, x, e.s.next_pane_id, HeldBy(e.s, w))
  BY <1>1, <1>2, <1>3 DEF QueuesInv
<1>5. \A i \in 1..Len(x) : x[i].type \in Ordinary
  BY <1>4 DEF Phase
<1>6. \A i \in DOMAIN x : x[i].type \in Ordinary
  BY <1>1, <1>2, <1>5
<1>7. \A p : ~Anonymous(x, p)
  BY <1>6 DEF Anonymous, Ordinary
<1>8. ASSUME NEW p \in Pane, p >= e.s.next_pane_id, w \in e.s.holders[p] PROVE Has(D, x, p)
  <2>1. p \in HeldBy(e.s, w)
    BY <1>8 DEF HeldBy
  <2> QED
    BY <1>4, <2>1 DEF OnTheWay, Prepared, Has
<1> QED
  BY <1>1, <1>2, <1>3, <1>6, <1>7, <1>8

\* A worker that is not activated is told to flush, or has nothing left; one that
\* has no partition of an open pane is told nothing of it.
LEMMA Unconcerned ==
    ASSUME NEW e \in EmitterType, QueuesInv(e, FALSE), NEW w \in Worker, NEW p \in Pane,
           p >= e.s.next_pane_id,
           Flushes(DOMAIN paneSet[w], e.q[w], e.s.next_pane_id),
           w \notin e.s.activated \/ ~Has(DOMAIN paneSet[w], e.q[w], p), NEW n
    PROVE  Anonymous(e.q[w], p) \/ Tells(paneSet[w], e.q[w], p, n)
<1>1. PICK x : x = e.q[w]
  OBVIOUS
<1>2. PICK r : r = paneSet[w]
  OBVIOUS
<1>3. PICK next : next = e.s.next_pane_id
  OBVIOUS
<1>4. /\ x \in Seq(Message) /\ DOMAIN x = 1..Len(x) /\ Len(x) \in Nat
      /\ \A k \in Pane : k <= next => k <= p /\ ~(k > p)
  <2>1. x \in Seq(Message) /\ next \in Pane
    BY <1>1, <1>3 DEF EmitterType, Sched
  <2>2. Pane \subseteq Nat
    BY WorkersAreNumbers
  <2>3. \A k \in Pane : k <= next => k <= p /\ ~(k > p)
    BY <1>3, <2>1, <2>2
  <2> QED
    BY <2>1, <2>3
<1>5. /\ Phase(status[w], DOMAIN r, x, FALSE, w \in e.s.activated)
      /\ OnTheWay(DOMAIN r, x, next, HeldBy(e.s, w))
      /\ Flushes(DOMAIN r, x, next)
  BY <1>1, <1>2, <1>3 DEF QueuesInv
<1>6. CASE w \notin e.s.activated
  <2>1. Phase(status[w], DOMAIN r, x, FALSE, FALSE)
    BY <1>5, <1>6 DEF Phase
  <2>2. CASE Len(x) >= 2 /\ x[Len(x) - 1].type = "FLUSH"
    <3>1. PICK i \in DOMAIN x : x[i].type = "FLUSH"
      <4>1. Len(x) - 1 \in DOMAIN x
        BY <1>4, <2>2
      <4> QED
        BY <2>2, <4>1
    <3>2. x[i].pane_id <= p
      <4>1. x[i].pane_id <= next
        BY <1>5, <3>1 DEF Flushes
      <4>2. x[i].pane_id \in Pane
        <5>1. x[i] \in Message
          BY <1>4
        <5> QED
          BY <3>1, <5>1, MessageFields
      <4> QED
        BY <1>4, <4>1, <4>2
    <3>3. ASSUME ~iop, NEW j \in DOMAIN x, x[j].type = "PUNCT" PROVE ~(x[j].pane_id > p)
      <4>1. x[j].pane_id <= next
        BY <1>5, <3>3 DEF OnTheWay, Punctuated
      <4>2. x[j].pane_id \in Pane
        <5>1. x[j] \in Message
          BY <1>4
        <5> QED
          BY <3>3, <5>1, MessageFields
      <4> QED
        BY <1>4, <4>1, <4>2
    <3> QED
      BY <1>1, <3>1, <3>2, <3>3 DEF Anonymous
  <2>3. CASE DOMAIN r = {} /\ x \in {<<>>, <<GO_OUT>>}
    <3>1. \A i \in DOMAIN x : ~Names(x[i], p)
      <4>1. CASE x = <<>>
        BY <4>1
      <4>2. CASE x = <<GO_OUT>>
        BY <4>2 DEF GO_OUT, Names, Naming
      <4> QED
        BY <2>3, <4>1, <4>2
    <3> QED
      BY <1>1, <1>2, <2>3, <3>1, NothingToTell
  <2> QED
    BY <2>1, <2>2, <2>3 DEF Phase
<1>7. CASE ~Has(DOMAIN r, x, p)
  <2>1. ASSUME NEW i \in DOMAIN x, Names(x[i], p) PROVE FALSE
    <3>1. Makes(x[i], p) \/ (x[i].type = "NEW_INST" /\ x[i].pane_id = p)
      BY <2>1 DEF Names, Makes, Naming, Making
    <3> QED
      BY <1>5, <1>7, <3>1 DEF OnTheWay, Prepared, Has
  <2> QED
    BY <1>1, <1>2, <1>7, <2>1, NothingToTell DEF Has
<1> QED
  BY <1>1, <1>2, <1>6, <1>7

\* The queue x of a worker with the results sets r becomes y, and it is to deliver
\* k partitions and l tuples of the pane more.
More(r, x, y, p, k, l) ==
    /\ PartsAt(r, y, p) = PartsAt(r, x, p) + k
    /\ TuplesAt(r, y, p) = TuplesAt(r, x, p) + l

\* None of the partitions is an empty results set.
Grown(r, x, y, p, k, l) ==
    /\ More(r, x, y, p, k, l)
    /\ \A j \in About(y, "LULL", p) : \E i \in About(x, "LULL", p) : x[i] = y[j]

\* The worker is told to make, or fill, a partition of the pane.
LEMMA AppendMaking ==
    ASSUME NEW r \in Deque, NEW x \in Seq(Message), NEW m \in Message, NEW p, Makes(m, p),
           NEW y, y = Append(x, m),
           NEW k, Has(DOMAIN r, x, p) => k = 0, ~Has(DOMAIN r, x, p) => k = 1,
           NEW l, m.type = "REGULAR" => l = 1, m.type # "REGULAR" => l = 0
    PROVE  /\ Grown(r, x, y, p, k, l)
           /\ Anonymous(x, p) => Anonymous(y, p)
           /\ Tells(r, x, p, m.no_instances) => Tells(r, y, p, m.no_instances)
<1>2. m.type \in {"REGULAR", "EMPTYPANE"} /\ m.pane_id = p
  BY DEF Makes, Making
<1>3. Has(DOMAIN r, y, p)
  BY AppendHas
<1>4. /\ Cardinality(About(y, "LULL", p)) = Cardinality(About(x, "LULL", p)) + 0
      /\ Cardinality(About(y, "REGULAR", p)) = Cardinality(About(x, "REGULAR", p)) + l
      /\ Cardinality(About(x, "LULL", p)) \in Nat
      /\ Cardinality(About(x, "REGULAR", p)) \in Nat
  <2>1. /\ Cardinality(About(y, "LULL", p)) = Cardinality(About(x, "LULL", p)) + 0
        /\ Cardinality(About(y, "REGULAR", p)) =
              Cardinality(About(x, "REGULAR", p)) + IF m.type = "REGULAR" THEN 1 ELSE 0
    BY <1>2, AppendAbout
  <2> QED
    BY <2>1, AboutCount
<1>5. p \in DOMAIN r => r[p].tuples \in Nat
  BY DEF Deque, ResultsSet
<1>6. PartsAt(r, y, p) = PartsAt(r, x, p) + k /\ TuplesAt(r, y, p) = TuplesAt(r, x, p) + l
  BY <1>3, <1>4, <1>5 DEF PartsAt, TuplesAt
<1>7. Anonymous(x, p) => Anonymous(y, p)
  BY <1>2, AppendAnonymous
<1>8. Tells(r, x, p, m.no_instances) => Tells(r, y, p, m.no_instances)
  BY AppendTells
<1>9. \A j \in About(y, "LULL", p) : j \in About(x, "LULL", p) /\ x[j] = y[j]
  <2>1. /\ Len(x) \in Nat /\ DOMAIN x = 1..Len(x) /\ DOMAIN y = 1..(Len(x) + 1)
        /\ \A i \in 1..Len(x) : y[i] = x[i]
        /\ y[Len(x) + 1] = m
    BY AppendQueue
  <2>2. \A j \in DOMAIN y : (j \in DOMAIN x /\ y[j] = x[j]) \/ y[j] = m
    BY <2>1
  <2> QED
    BY <1>2, <2>2 DEF About
<1> QED
  BY <1>6, <1>7, <1>8, <1>9 DEF Grown, More

\* The worker is told that there is another partition of the pane.
LEMMA AppendNaming ==
    ASSUME NEW r \in Deque, NEW x \in Seq(Message), NEW m \in Message, NEW p,
           m.type = "NEW_INST", m.pane_id = p, NEW y, y = Append(x, m)
    PROVE  /\ Grown(r, x, y, p, 0, 0)
           /\ Has(DOMAIN r, y, p) => Has(DOMAIN r, x, p)
           /\ Tells(r, y, p, m.no_instances)
<1>2. ~Makes(m, p)
  BY DEF Makes, Making
<1>3. Has(DOMAIN r, y, p) <=> Has(DOMAIN r, x, p)
  BY <1>2, AppendHas
<1>4. /\ Cardinality(About(y, "LULL", p)) = Cardinality(About(x, "LULL", p))
      /\ Cardinality(About(y, "REGULAR", p)) = Cardinality(About(x, "REGULAR", p))
      /\ Cardinality(About(x, "LULL", p)) \in Nat
      /\ Cardinality(About(x, "REGULAR", p)) \in Nat
  <2>1. /\ Cardinality(About(y, "LULL", p)) = Cardinality(About(x, "LULL", p)) + 0
        /\ Cardinality(About(y, "REGULAR", p)) = Cardinality(About(x, "REGULAR", p)) + 0
    BY <1>2, AppendAbout
  <2> QED
    BY <2>1, AboutCount
<1>5. Tells(r, y, p, m.no_instances)
  BY AppendTells
<1>6. \A j \in About(y, "LULL", p) : j \in About(x, "LULL", p) /\ x[j] = y[j]
  <2>1. /\ Len(x) \in Nat /\ DOMAIN x = 1..Len(x) /\ DOMAIN y = 1..(Len(x) + 1)
        /\ \A i \in 1..Len(x) : y[i] = x[i]
        /\ y[Len(x) + 1] = m
    BY AppendQueue
  <2>2. \A j \in DOMAIN y : (j \in DOMAIN x /\ y[j] = x[j]) \/ y[j] = m
    BY <2>1
  <2> QED
    BY <2>2 DEF About
<1>7. p \in DOMAIN r => r[p].tuples \in Nat
  BY DEF Deque, ResultsSet
<1>8. PartsAt(r, y, p) = PartsAt(r, x, p) + 0 /\ TuplesAt(r, y, p) = TuplesAt(r, x, p) + 0
  BY <1>3, <1>4, <1>7 DEF PartsAt, TuplesAt
<1> QED
  BY <1>3, <1>5, <1>6, <1>8 DEF Grown, More

\* The sums that a pane is balanced with, when worker w is to deliver k partitions
\* and l tuples more.
LEMMA MoreToCome ==
    ASSUME NEW e, NEW d, NEW p \in Pane, NEW w \in Worker, NEW k \in Nat, NEW l \in Nat,
           paneSet \in [Worker -> Deque],
           results \in [Pane -> [parts : Nat, tuples : Nat, counts : SUBSET Nat]],
           e.q \in [Worker -> Seq(Message)], d.q \in [Worker -> Seq(Message)],
           More(paneSet[w], e.q[w], d.q[w], p, k, l),
           \A v \in Worker \ {w} : More(paneSet[v], e.q[v], d.q[v], p, 0, 0),
           d.s.p_instances[p] = e.s.p_instances[p] + k,
           d.s.pane_size[p] = e.s.pane_size[p] + l,
           Balanced(e, p)
    PROVE  Balanced(d, p)
<1>1. PICK f : f = PartsToCome(d, p)
  OBVIOUS
<1>2. PICK g : g = PartsToCome(e, p)
  OBVIOUS
<1>3. PICK a : a = TuplesToCome(d, p)
  OBVIOUS
<1>4. PICK b : b = TuplesToCome(e, p)
  OBVIOUS
<1>5. /\ f \in [Worker -> Nat] /\ g \in [Worker -> Nat]
      /\ a \in [Worker -> Nat] /\ b \in [Worker -> Nat]
  BY <1>1, <1>2, <1>3, <1>4, ToComeType DEF PartsToCome, TuplesToCome
<1>6. f[w] = g[w] + k /\ \A v \in Worker \ {w} : f[v] = g[v]
  <2>1. f[w] = g[w] + k /\ \A v \in Worker \ {w} : f[v] = g[v] + 0
    BY <1>1, <1>2 DEF PartsToCome, More
  <2> QED
    BY <1>5, <2>1
<1>7. SumFunction(f) = SumFunction(g) + k /\ SumFunction(g) \in Nat
  <2>1. f \in [Worker -> Nat] /\ g \in [Worker -> Nat]
    BY <1>5
  <2> QED
    BY ONLY <2>1, <1>6, w \in Worker, k \in Nat, FiniteWorkers, SumMore
<1>16. a[w] = b[w] + l /\ \A v \in Worker \ {w} : a[v] = b[v]
  <2>1. a[w] = b[w] + l /\ \A v \in Worker \ {w} : a[v] = b[v] + 0
    BY <1>3, <1>4 DEF TuplesToCome, More
  <2> QED
    BY <1>5, <2>1
<1>8. SumFunction(a) = SumFunction(b) + l /\ SumFunction(b) \in Nat
  <2>1. a \in [Worker -> Nat] /\ b \in [Worker -> Nat]
    BY <1>5
  <2> QED
    BY ONLY <2>1, <1>16, w \in Worker, l \in Nat, FiniteWorkers, SumMore
<1>9. PICK h : h = SumFunction(g)
  OBVIOUS
<1>10. PICK j : j = SumFunction(b)
  OBVIOUS
<1>11. PICK c : c = results[p].parts
  OBVIOUS
<1>12. PICK t : t = results[p].tuples
  OBVIOUS
<1>13. h \in Nat /\ j \in Nat /\ c \in Nat /\ t \in Nat
  BY <1>7, <1>8, <1>9, <1>10, <1>11, <1>12
<1>14. c + h = e.s.p_instances[p] /\ t + j = e.s.pane_size[p]
  BY <1>2, <1>4, <1>9, <1>10, <1>11, <1>12 DEF Balanced
<1>17. PICK u : u = e.s.p_instances[p]
  OBVIOUS
<1>18. PICK z : z = e.s.pane_size[p]
  OBVIOUS
<1>15. c + (h + k) = d.s.p_instances[p] /\ t + (j + l) = d.s.pane_size[p]
  <2>1. c + h = u /\ t + j = z
    BY <1>14, <1>17, <1>18
  <2>2. d.s.p_instances[p] = u + k /\ d.s.pane_size[p] = z + l
    BY <1>17, <1>18
  <2>3. c + (h + k) = u + k /\ t + (j + l) = z + l
    BY ONLY <1>13, <2>1, k \in Nat, l \in Nat
  <2> QED
    BY <2>2, <2>3
<1> QED
  BY <1>1, <1>3, <1>7, <1>8, <1>9, <1>10, <1>11, <1>12, <1>15 DEF Balanced

\* Nothing changes in the queue of a worker.
LEMMA NothingGrown ==
    ASSUME NEW r \in Deque, NEW x \in Seq(Message), NEW p
    PROVE  Grown(r, x, x, p, 0, 0)
BY ToComeType DEF Grown, More

\* A worker that holds the open pane p gets a tuple of it.
LEMMA AccountFilled ==
    ASSUME StageInv, NEW e \in EmitterType, NEW d \in EmitterType, QueuesInv(e, FALSE),
           NEW p \in Pane, p >= e.s.next_pane_id, Account(e, p, FALSE, FALSE),
           NEW w \in e.s.activated, w \in e.s.holders[p],
           Sent(e, d, {w}, Regular(p, e.s.p_instances[p])),
           d.s.activated = e.s.activated, d.s.p_instances[p] = e.s.p_instances[p],
           d.s.pane_size[p] = e.s.pane_size[p] + 1, d.s.holders[p] = e.s.holders[p]
    PROVE  Account(d, p, FALSE, FALSE)
<1>1. PICK m : m = Regular(p, e.s.p_instances[p])
  OBVIOUS
<1>2. /\ e.s.p_instances[p] \in Nat /\ e.s.pane_size[p] \in Nat
      /\ e.q \in [Worker -> Seq(Message)] /\ d.q \in [Worker -> Seq(Message)]
      /\ e.s.activated \subseteq Worker /\ w \in Worker
      /\ paneSet \in [Worker -> Deque]
      /\ results \in [Pane -> [parts : Nat, tuples : Nat, counts : SUBSET Nat]]
  BY DEF EmitterType, Sched, StageInv, TypeInv
<1>3. /\ m \in Message /\ m.type = "REGULAR" /\ m.pane_id = p
      /\ m.no_instances = e.s.p_instances[p]
  BY <1>1, <1>2, MessagesSent DEF Regular
<1>4. Makes(m, p)
  BY <1>3 DEF Makes, Making
<1>5. /\ d.q[w] = Append(e.q[w], m)
      /\ \A v \in Worker \ {w} : d.q[v] = e.q[v]
  BY <1>1, <1>2 DEF Sent
<1>6. Has(DOMAIN paneSet[w], e.q[w], p)
  BY OfActive
<1>7. /\ Grown(paneSet[w], e.q[w], d.q[w], p, 0, 1)
      /\ Anonymous(e.q[w], p) => Anonymous(d.q[w], p)
      /\ Tells(paneSet[w], e.q[w], p, m.no_instances) =>
            Tells(paneSet[w], d.q[w], p, m.no_instances)
  <2>1. PICK r \in Deque : r = paneSet[w]
    BY <1>2
  <2>2. PICK x \in Seq(Message) : x = e.q[w]
    BY <1>2
  <2>3. PICK y : y = d.q[w]
    OBVIOUS
  <2>4. PICK k : k = 0
    OBVIOUS
  <2>5. PICK l : l = 1
    OBVIOUS
  <2>6. /\ y = Append(x, m) /\ Has(DOMAIN r, x, p)
    BY <1>5, <1>6, <2>1, <2>2, <2>3
  <2>7. /\ Grown(r, x, y, p, k, l)
        /\ Anonymous(x, p) => Anonymous(y, p)
        /\ Tells(r, x, p, m.no_instances) => Tells(r, y, p, m.no_instances)
    BY ONLY r \in Deque, x \in Seq(Message), <1>3, <1>4, <2>4, <2>5, <2>6, AppendMaking
  <2> QED
    BY <2>1, <2>2, <2>3, <2>4, <2>5, <2>7
<1>17. \A v \in Worker \ {w} : Grown(paneSet[v], e.q[v], d.q[v], p, 0, 0)
  <2>1. \A v \in Worker : paneSet[v] \in Deque /\ e.q[v] \in Seq(Message)
    BY <1>2
  <2> QED
    BY <1>5, <2>1, NothingGrown
<1>8. Balanced(e, p) => Balanced(d, p)
  <2> SUFFICES ASSUME Balanced(e, p) PROVE Balanced(d, p)
    OBVIOUS
  <2>1. /\ 0 \in Nat /\ 1 \in Nat
        /\ d.s.p_instances[p] = e.s.p_instances[p] + 0
        /\ d.s.pane_size[p] = e.s.pane_size[p] + 1
    BY <1>2
  <2>2. /\ More(paneSet[w], e.q[w], d.q[w], p, 0, 1)
        /\ \A v \in Worker \ {w} : More(paneSet[v], e.q[v], d.q[v], p, 0, 0)
    BY <1>7, <1>17 DEF Grown
  <2> QED
    BY ONLY <1>2, <2>1, <2>2, Balanced(e, p), p \in Pane, MoreToCome
<1>9. Agreed(e, p) => Agreed(d, p)
  <2> SUFFICES ASSUME Agreed(e, p), NEW v \in Worker
               PROVE  \/ Anonymous(d.q[v], p)
                      \/ Tells(paneSet[v], d.q[v], p, d.s.p_instances[p])
    BY DEF Agreed
  <2>1. Anonymous(e.q[v], p) \/ Tells(paneSet[v], e.q[v], p, e.s.p_instances[p])
    BY DEF Agreed
  <2> QED
    BY <1>3, <1>5, <1>7, <2>1
<1>10. Announced(e, p, FALSE) => Announced(d, p, FALSE)
  BY DEF Announced
<1>11. Tracked(d, p)
  <2>1. Tracked(e, p)
    BY DEF Account
  <2>2. ASSUME NEW v \in d.s.activated, Has(DOMAIN paneSet[v], d.q[v], p)
        PROVE  v \in e.s.holders[p]
    <3>1. CASE v = w
      BY <3>1
    <3>2. CASE v # w
      BY <1>2, <1>5, <2>1, <2>2, <3>2 DEF Tracked
    <3> QED
      BY <3>1, <3>2
  <2>3. d.s.pane_size[p] # 0
    BY <1>2
  <2> QED
    BY <2>1, <2>2, <2>3 DEF Tracked
<1>12. LullsClosed(d, p, FALSE)
  <2>1. LullsClosed(e, p, FALSE)
    BY DEF Account
  <2> SUFFICES ASSUME NEW v \in Worker, NEW j \in About(d.q[v], "LULL", p) PROVE FALSE
    BY DEF LullsClosed
  <2> QED
    BY <1>5, <1>7, <2>1 DEF LullsClosed, Grown
<1>13. Sound(d, p, FALSE) => Sound(e, p, FALSE)
  BY DEF Sound
<1> QED
  BY <1>8, <1>9, <1>10, <1>11, <1>12, <1>13 DEF Account

\* A partition of the open pane p is opened at worker w, and those that have one and
\* are activated are told.
LEMMA AccountOpened ==
    ASSUME StageInv, NEW e \in EmitterType, NEW d \in EmitterType, QueuesInv(e, FALSE),
           NEW p \in Pane, p >= e.s.next_pane_id, Account(e, p, FALSE, FALSE),
           \A v \in Worker : Flushes(DOMAIN paneSet[v], e.q[v], e.s.next_pane_id),
           NEW w \in e.s.activated, w \notin e.s.holders[p],
           NEW m \in Message, Makes(m, p), m.no_instances = e.s.p_instances[p] + 1,
           d.q[w] = Append(e.q[w], m),
           \A v \in Worker \ {w} :
              d.q[v] = IF v \in e.s.holders[p] \cap e.s.activated
                       THEN Append(e.q[v], NewInst(p, e.s.p_instances[p] + 1)) ELSE e.q[v],
           d.s.activated = e.s.activated, d.s.p_instances[p] = e.s.p_instances[p] + 1,
           d.s.pane_size[p] = e.s.pane_size[p] + IF m.type = "REGULAR" THEN 1 ELSE 0,
           d.s.holders[p] = (e.s.holders[p] \cap e.s.activated) \cup {w},
           strategy = "PB_RR" =>
               e.s.holders[p] \cap e.s.activated = {} /\ d.s.pane_size[p] # 0
    PROVE  Account(d, p, FALSE, FALSE)
<1>1. PICK n : n = e.s.p_instances[p] + 1
  OBVIOUS
<1>2. /\ e.s.p_instances[p] \in Nat /\ e.s.pane_size[p] \in Nat
      /\ e.q \in [Worker -> Seq(Message)] /\ d.q \in [Worker -> Seq(Message)]
      /\ e.s.activated \subseteq Worker /\ w \in Worker
      /\ paneSet \in [Worker -> Deque]
      /\ results \in [Pane -> [parts : Nat, tuples : Nat, counts : SUBSET Nat]]
  BY DEF EmitterType, Sched, StageInv, TypeInv
<1>3. PICK t : t = NewInst(p, n)
  OBVIOUS
<1>4. /\ t \in Message /\ t.type = "NEW_INST" /\ t.pane_id = p /\ t.no_instances = n
  <2>1. n \in Nat
    BY <1>1, <1>2
  <2> QED
    BY <1>3, <2>1, MessagesSent DEF NewInst
<1>5. Tracked(e, p)
  BY DEF Account
<1>6. ~Has(DOMAIN paneSet[w], e.q[w], p)
  BY <1>5 DEF Tracked
<1>7. PICK l : l = IF m.type = "REGULAR" THEN 1 ELSE 0
  OBVIOUS
<1>8. \A v \in Worker : paneSet[v] \in Deque /\ e.q[v] \in Seq(Message)
  BY <1>2
<1>9. /\ Grown(paneSet[w], e.q[w], d.q[w], p, 1, l)
      /\ Anonymous(e.q[w], p) => Anonymous(d.q[w], p)
      /\ Tells(paneSet[w], e.q[w], p, n) => Tells(paneSet[w], d.q[w], p, n)
  <2>1. PICK r \in Deque : r = paneSet[w]
    BY <1>2
  <2>2. PICK x \in Seq(Message) : x = e.q[w]
    BY <1>2
  <2>3. PICK y : y = d.q[w]
    OBVIOUS
  <2>4. PICK k : k = 1
    OBVIOUS
  <2>5. (m.type = "REGULAR" => l = 1) /\ (m.type # "REGULAR" => l = 0)
    BY <1>7
  <2>6. /\ y = Append(x, m) /\ ~Has(DOMAIN r, x, p)
    BY <1>6, <2>1, <2>2, <2>3
  <2>7. /\ Grown(r, x, y, p, k, l)
        /\ Anonymous(x, p) => Anonymous(y, p)
        /\ Tells(r, x, p, m.no_instances) => Tells(r, y, p, m.no_instances)
    BY ONLY r \in Deque, x \in Seq(Message), m \in Message, Makes(m, p), <2>4, <2>5, <2>6,
       AppendMaking
  <2> QED
    BY <1>1, <2>1, <2>2, <2>3, <2>4, <2>7
<1>10. ASSUME NEW v \in Worker \ {w}
       PROVE  /\ Grown(paneSet[v], e.q[v], d.q[v], p, 0, 0)
              /\ Has(DOMAIN paneSet[v], d.q[v], p) => Has(DOMAIN paneSet[v], e.q[v], p)
              /\ Anonymous(d.q[v], p) \/ Tells(paneSet[v], d.q[v], p, n)
  <2>1. CASE v \in e.s.holders[p] \cap e.s.activated
    <3>1. d.q[v] = Append(e.q[v], t)
      BY <1>1, <1>3, <2>1
    <3>2. PICK r \in Deque : r = paneSet[v]
      BY <1>8
    <3>3. PICK x \in Seq(Message) : x = e.q[v]
      BY <1>8
    <3>4. PICK y : y = d.q[v]
      OBVIOUS
    <3>5. y = Append(x, t)
      BY <3>1, <3>3, <3>4
    <3>6. /\ Grown(r, x, y, p, 0, 0)
          /\ Has(DOMAIN r, y, p) => Has(DOMAIN r, x, p)
          /\ Tells(r, y, p, t.no_instances)
      BY ONLY r \in Deque, x \in Seq(Message), <1>4, <3>5, AppendNaming
    <3> QED
      BY <1>4, <3>2, <3>3, <3>4, <3>6
  <2>2. CASE v \notin e.s.holders[p] \cap e.s.activated
    <3>1. d.q[v] = e.q[v]
      BY <2>2
    <3>2. v \notin e.s.activated \/ ~Has(DOMAIN paneSet[v], e.q[v], p)
      BY <1>5, <2>2 DEF Tracked
    <3>3. Anonymous(e.q[v], p) \/ Tells(paneSet[v], e.q[v], p, n)
      BY <3>2, Unconcerned
    <3>4. Grown(paneSet[v], e.q[v], e.q[v], p, 0, 0)
      BY <1>8, NothingGrown
    <3> QED
      BY <3>1, <3>3, <3>4
  <2> QED
    BY <2>1, <2>2
<1>11. Balanced(e, p) => Balanced(d, p)
  <2> SUFFICES ASSUME Balanced(e, p) PROVE Balanced(d, p)
    OBVIOUS
  <2>1. /\ l \in Nat /\ 1 \in Nat /\ d.s.pane_size[p] = e.s.pane_size[p] + l
        /\ d.s.p_instances[p] = e.s.p_instances[p] + 1
    BY <1>7
  <2>2. /\ More(paneSet[w], e.q[w], d.q[w], p, 1, l)
        /\ \A v \in Worker \ {w} : More(paneSet[v], e.q[v], d.q[v], p, 0, 0)
    BY <1>9, <1>10 DEF Grown
  <2> QED
    BY ONLY <1>2, <2>1, <2>2, Balanced(e, p), p \in Pane, MoreToCome
<1>12. Agreed(d, p)
  <2>1. Anonymous(d.q[w], p) \/ Tells(paneSet[w], d.q[w], p, n)
    <3>1. Anonymous(e.q[w], p) \/ Tells(paneSet[w], e.q[w], p, n)
      BY <1>2, <1>6, Unconcerned
    <3> QED
      BY <1>9, <3>1
  <2> QED
    BY <1>1, <1>10, <2>1 DEF Agreed
<1>13. Announced(e, p, FALSE) => Announced(d, p, FALSE)
  BY DEF Announced
<1>14. Tracked(d, p)
  <2>1. d.s.holders[p] # {}
    OBVIOUS
  <2>2. strategy = "PB_RR" =>
           d.s.pane_size[p] # 0 /\ \A v, u \in d.s.holders[p] : v = u
    OBVIOUS
  <2>3. ASSUME NEW v \in d.s.activated, Has(DOMAIN paneSet[v], d.q[v], p)
        PROVE  v \in d.s.holders[p]
    <3>1. CASE v = w
      BY <3>1
    <3>2. CASE v # w
      BY <1>2, <1>5, <1>10, <2>3, <3>2 DEF Tracked
    <3> QED
      BY <3>1, <3>2
  <2> QED
    BY <2>1, <2>2, <2>3 DEF Tracked
<1>15. LullsClosed(d, p, FALSE)
  <2>1. \A v \in Worker : \A i \in About(e.q[v], "LULL", p) : FALSE
    BY DEF Account, LullsClosed
  <2>2. ASSUME NEW v \in Worker, NEW j \in About(d.q[v], "LULL", p) PROVE FALSE
    <3>1. CASE v = w
      BY <1>9, <2>1, <2>2, <3>1 DEF Grown
    <3>2. CASE v # w
      <4>1. Grown(paneSet[v], e.q[v], d.q[v], p, 0, 0)
        BY <1>10, <3>2
      <4> QED
        BY <2>1, <2>2, <4>1 DEF Grown
    <3> QED
      BY <3>1, <3>2
  <2> QED
    BY <2>2 DEF LullsClosed
<1>16. Sound(d, p, FALSE) => Sound(e, p, FALSE)
  BY DEF Sound
<1> QED
  BY <1>11, <1>12, <1>13, <1>14, <1>15, <1>16 DEF Account

\* The workers that are not activated any more are forgotten.
LEMMA AccountForgets ==
    ASSUME NEW e \in EmitterType, NEW d, NEW p \in Pane, Account(e, p, FALSE, FALSE),
           strategy # "PB_RR", e.s.holders[p] \cap e.s.activated # {},
           d.q = e.q, d.s.activated = e.s.activated, d.s.p_instances[p] = e.s.p_instances[p],
           d.s.pane_size[p] = e.s.pane_size[p],
           d.s.holders[p] = e.s.holders[p] \cap e.s.activated
    PROVE  Account(d, p, FALSE, FALSE)
<1>1. Sound(d, p, FALSE) => Sound(e, p, FALSE)
  BY DEF Sound
<1>2. PartsToCome(d, p) = PartsToCome(e, p) /\ TuplesToCome(d, p) = TuplesToCome(e, p)
  BY DEF PartsToCome, TuplesToCome
<1>3. Balanced(e, p) => Balanced(d, p)
  BY <1>2 DEF Balanced
<1>4. Agreed(e, p) => Agreed(d, p)
  BY DEF Agreed
<1>5. Announced(e, p, FALSE) => Announced(d, p, FALSE)
  BY DEF Announced
<1>6. Tracked(e, p) => Tracked(d, p)
  BY DEF Tracked
<1>7. LullsClosed(e, p, FALSE) => LullsClosed(d, p, FALSE)
  BY DEF LullsClosed
<1> QED
  BY <1>1, <1>3, <1>4, <1>5, <1>6, <1>7 DEF Account

\* A queue that does not change.
LEMMA SameQueue ==
    ASSUME NEW r, NEW x, NEW p, NEW final
    PROVE  Same(r, x, x, p, final)
BY DEF Same

\* The emitter sent at most one message to each activated worker, none of them
\* about pane q.
SentElsewhere(e, d, q) ==
    \A v \in Worker :
        \/ d.q[v] = e.q[v]
        \/ /\ v \in e.s.activated
           /\ \E m \in Message : /\ m.type # "FLUSH" /\ ~Names(m, q)
                                 /\ ~(m.type = "LULL" /\ m.pane_id = q)
                                 /\ d.q[v] = Append(e.q[v], m)

\* The scheduler knows the same of pane q.
SamePane(s, t, q) ==
    /\ t.p_instances[q] = s.p_instances[q] /\ t.pane_size[q] = s.pane_size[q]
    /\ t.holders[q] = s.holders[q]

\* The account of a pane that the emitter is not concerned with is kept.
LEMMA OthersKept ==
    ASSUME NEW e \in EmitterType, QueuesInv(e, FALSE), NEW d,
           NEW q \in Pane, NEW closed, Account(e, q, closed, FALSE),
           SamePane(e.s, d.s, q), d.s.activated = e.s.activated, SentElsewhere(e, d, q)
    PROVE  Account(d, q, closed, FALSE)
<1>1. ASSUME NEW v \in Worker
      PROVE  Same(paneSet[v], e.q[v], d.q[v], q, closed \/ FALSE)
  <2>1. PICK r : r = paneSet[v]
    OBVIOUS
  <2>2. PICK x : x = e.q[v]
    OBVIOUS
  <2>3. PICK final \in BOOLEAN : final = (closed \/ FALSE)
    OBVIOUS
  <2>4. CASE d.q[v] = e.q[v]
    BY <2>4, SameQueue
  <2>5. CASE d.q[v] # e.q[v]
    <3>1. v \in e.s.activated
      BY <2>5 DEF SentElsewhere
    <3>2. PICK m \in Message : /\ m.type # "FLUSH" /\ ~Names(m, q)
                               /\ ~(m.type = "LULL" /\ m.pane_id = q)
                               /\ d.q[v] = Append(e.q[v], m)
      BY <2>5 DEF SentElsewhere
    <3>3. \A i \in DOMAIN x : x[i].type # "FLUSH"
      <4>1. \A i \in DOMAIN e.q[v] : e.q[v][i].type \in Ordinary
        BY <3>1, OfActive
      <4> QED
        BY <2>2, <4>1 DEF Ordinary
    <3>4. x \in Seq(Message)
      BY <2>2 DEF EmitterType
    <3>5. Same(r, x, Append(x, m), q, final)
      BY ONLY <3>2, <3>3, <3>4, m \in Message, AppendElsewhere
    <3>6. d.q[v] = Append(x, m)
      BY <2>2, <3>2
    <3> QED
      BY <2>1, <2>2, <2>3, <3>5, <3>6
  <2> QED
    BY <2>4, <2>5
<1>2. e.s.activated \subseteq Worker
  BY DEF EmitterType, Sched
<1> QED
  BY <1>1, <1>2, AccountKept DEF SamePane

\* No order to flush is sent, and the panes are closed one after the other.
LEMMA FlushesKept ==
    ASSUME NEW e \in EmitterType, NEW d \in EmitterType, QueuesInv(d, FALSE),
           d.s.activated = e.s.activated, e.s.next_pane_id <= d.s.next_pane_id,
           \A w \in Worker : w \notin e.s.activated => d.q[w] = e.q[w],
           \A w \in Worker : Flushes(DOMAIN paneSet[w], e.q[w], e.s.next_pane_id)
    PROVE  \A w \in Worker : Flushes(DOMAIN paneSet[w], d.q[w], d.s.next_pane_id)
<1> SUFFICES ASSUME NEW w \in Worker
             PROVE  Flushes(DOMAIN paneSet[w], d.q[w], d.s.next_pane_id)
  OBVIOUS
<1>1. Flushes(DOMAIN paneSet[w], e.q[w], e.s.next_pane_id)
  OBVIOUS
<1>2. CASE w \in e.s.activated
  <2>1. \A i \in DOMAIN d.q[w] : d.q[w][i].type # "FLUSH"
    BY <1>2, OfActive DEF Ordinary
  <2> QED
    BY <1>1, <2>1 DEF Flushes
<1>3. CASE w \notin e.s.activated
  <2>1. PICK x \in Seq(Message) : x = e.q[w] /\ x = d.q[w]
    BY <1>3 DEF EmitterType
  <2>2. PICK a : a = e.s.next_pane_id
    OBVIOUS
  <2>3. PICK b : b = d.s.next_pane_id
    OBVIOUS
  <2>4. a \in Nat /\ b \in Nat /\ a <= b /\ Pane \subseteq Nat
    <3>1. a \in Pane /\ b \in Pane /\ a <= b
      BY <2>2, <2>3 DEF EmitterType, Sched
    <3> QED
      BY <3>1, WorkersAreNumbers
  <2>5. ASSUME NEW i \in DOMAIN x, x[i].type = "FLUSH" PROVE x[i].pane_id <= b
    <3>1. x[i].pane_id <= a
      BY <1>1, <2>1, <2>2, <2>5 DEF Flushes
    <3>2. x[i].pane_id \in Pane
      <4>1. x[i] \in Message
        OBVIOUS
      <4> QED
        BY <2>5, <4>1, MessageFields
    <3>3. PICK k : k = x[i].pane_id
      OBVIOUS
    <3>4. k \in Nat /\ k <= a
      BY <2>4, <3>1, <3>2, <3>3
    <3>5. k <= b
      BY ONLY <2>4, <3>4
    <3> QED
      BY <3>3, <3>5
  <2> QED
    BY <1>1, <2>1, <2>3, <2>5 DEF Flushes
<1> QED
  BY <1>2, <1>3

\* The workers that become activated have nothing of a pane.
LEMMA WiderAccounts ==
    ASSUME NEW e, NEW d, NEW k, AccountsUpTo(e, k),
           d.q = e.q, d.s.next_pane_id = e.s.next_pane_id,
           \A w \in d.s.activated \ e.s.activated :
              \A p \in Pane : ~Has(DOMAIN paneSet[w], d.q[w], p),
           \A p \in Pane : SamePane(e.s, d.s, p)
    PROVE  AccountsUpTo(d, k)
<1>1. ASSUME NEW p \in Pane PROVE Account(d, p, p < k, FALSE)
  <2>1. Account(e, p, p < k, FALSE)
    BY DEF AccountsUpTo
  <2>2. PICK closed : closed = (p < k)
    BY Zenon
  <2>3. SamePane(e.s, d.s, p)
    OBVIOUS
  <2>4. Account(e, p, closed, FALSE)
    BY <2>1, <2>2
  <2>5. PartsToCome(d, p) = PartsToCome(e, p) /\ TuplesToCome(d, p) = TuplesToCome(e, p)
    BY DEF PartsToCome, TuplesToCome
  <2>6. Sound(d, p, closed) => Sound(e, p, closed)
    BY <2>3 DEF Sound, SamePane
  <2>7. Balanced(e, p) => Balanced(d, p)
    BY <2>3, <2>5 DEF Balanced, SamePane
  <2>8. Agreed(e, p) => Agreed(d, p)
    BY <2>3 DEF Agreed, SamePane
  <2>9. Announced(e, p, closed \/ FALSE) => Announced(d, p, closed \/ FALSE)
    BY <2>3 DEF Announced, SamePane
  <2>10. Tracked(e, p) => Tracked(d, p)
    BY <2>3 DEF Tracked, SamePane
  <2>11. LullsClosed(e, p, closed) => LullsClosed(d, p, closed)
    BY <2>3 DEF LullsClosed, SamePane
  <2>12. Account(d, p, closed, FALSE)
    BY <2>3, <2>4, <2>6, <2>7, <2>8, <2>9, <2>10, <2>11 DEF Account, SamePane
  <2> QED
    BY <2>2, <2>12
<1>2. \A w \in Worker : Flushes(DOMAIN paneSet[w], d.q[w], d.s.next_pane_id)
  BY DEF AccountsUpTo
<1> QED
  BY <1>1, <1>2 DEF AccountsUpTo

\* What the accounts do not depend on.
LEMMA SameAccounts ==
    ASSUME NEW e, NEW d, NEW k, AccountsUpTo(e, k),
           d.q = e.q, d.s.next_pane_id = e.s.next_pane_id, d.s.activated = e.s.activated,
           \A p \in Pane : SamePane(e.s, d.s, p)
    PROVE  AccountsUpTo(d, k)
<1>1. d.s.activated \ e.s.activated = {}
  OBVIOUS
<1> QED
  BY <1>1, WiderAccounts

-----------------------------------------------------------------------------
(* The progress of the stream                                              *)

\* The empty results sets of pane p that were added to the queue x.
Lulling(x, y, p) ==
    /\ About(y, "LULL", p) # {}
    /\ \A j \in About(y, "LULL", p) : j \in About(x, "LULL", p) \/ y[j] = Lull(p)

\* A worker gets the order to make an empty results set of the pane.
LEMMA AppendLull ==
    ASSUME NEW r \in Deque, NEW x \in Seq(Message), NEW p, Lull(p) \in Message,
           NEW y, y = Append(x, Lull(p))
    PROVE  /\ More(r, x, y, p, 1, 0)
           /\ Anonymous(x, p) => Anonymous(y, p)
           /\ Tells(r, x, p, 1) => Tells(r, y, p, 1)
           /\ Lulling(x, y, p)
<1>1. PICK m \in Message : m = Lull(p)
  OBVIOUS
<1>2. m.type = "LULL" /\ m.pane_id = p /\ ~Makes(m, p) /\ ~Names(m, p)
  BY <1>1 DEF Lull, Makes, Names, Making, Naming
<1>3. y = Append(x, m)
  BY <1>1
<1>4. Has(DOMAIN r, y, p) <=> Has(DOMAIN r, x, p)
  BY <1>2, <1>3, AppendHas
<1>5. /\ Cardinality(About(y, "LULL", p)) = Cardinality(About(x, "LULL", p)) + 1
      /\ Cardinality(About(y, "REGULAR", p)) = Cardinality(About(x, "REGULAR", p))
      /\ Cardinality(About(x, "LULL", p)) \in Nat
      /\ Cardinality(About(x, "REGULAR", p)) \in Nat
  <2>1. /\ Cardinality(About(y, "LULL", p)) = Cardinality(About(x, "LULL", p)) + 1
        /\ Cardinality(About(y, "REGULAR", p)) = Cardinality(About(x, "REGULAR", p)) + 0
    BY <1>2, <1>3, AppendAbout
  <2> QED
    BY <2>1, AboutCount
<1>6. p \in DOMAIN r => r[p].tuples \in Nat
  BY DEF Deque, ResultsSet
<1>7. PartsAt(r, y, p) = PartsAt(r, x, p) + 1 /\ TuplesAt(r, y, p) = TuplesAt(r, x, p) + 0
  BY <1>4, <1>5, <1>6 DEF PartsAt, TuplesAt
<1>8. Anonymous(x, p) => Anonymous(y, p)
  BY <1>2, <1>3, AppendAnonymous
<1>9. Tells(r, x, p, 1) => Tells(r, y, p, 1)
  BY <1>2, <1>3, AppendTells
<1>10. /\ Len(x) \in Nat /\ DOMAIN x = 1..Len(x) /\ DOMAIN y = 1..(Len(x) + 1)
       /\ \A i \in 1..Len(x) : y[i] = x[i]
       /\ y[Len(x) + 1] = m
  BY <1>3, AppendQueue
<1>11. About(y, "LULL", p) # {}
  <2>1. Len(x) + 1 \in DOMAIN y
    BY <1>10
  <2> QED
    BY <1>2, <1>10, <2>1 DEF About
<1>12. \A j \in About(y, "LULL", p) : j \in About(x, "LULL", p) \/ y[j] = m
  <2>1. \A j \in DOMAIN y : (j \in DOMAIN x /\ y[j] = x[j]) \/ y[j] = m
    BY <1>10
  <2> QED
    BY <2>1 DEF About
<1> QED
  BY <1>1, <1>7, <1>8, <1>9, <1>11, <1>12 DEF More, Lulling

\* Nothing of the pane is on the way when nothing of it is due.
LEMMA NothingDue ==
    ASSUME StageInv, NEW e \in EmitterType, NEW p \in Pane, Balanced(e, p),
           e.s.p_instances[p] = 0
    PROVE  \A v \in Worker : ~Has(DOMAIN paneSet[v], e.q[v], p)
<1>1. PICK f : f = PartsToCome(e, p)
  OBVIOUS
<1>2. \A v \in Worker : paneSet[v] \in Deque /\ e.q[v] \in Seq(Message)
  BY DEF EmitterType, StageInv, TypeInv
<1>3. f \in [Worker -> Nat]
  BY <1>1, <1>2, ToComeType DEF PartsToCome
<1>4. SumFunction(f) = 0
  <2>1. PICK h : h = SumFunction(f)
    OBVIOUS
  <2>2. h \in Nat
    BY ONLY <1>3, <2>1, FiniteWorkers, SumIsCount, FS_CardinalityType
  <2>3. PICK c : c = results[p].parts
    OBVIOUS
  <2>4. c \in Nat
    BY <2>3 DEF StageInv, TypeInv
  <2>5. c + h = 0
    BY <1>1, <2>1, <2>3 DEF Balanced
  <2> QED
    BY <2>1, <2>2, <2>4, <2>5
<1>5. \A v \in Worker : f[v] = 0
  BY ONLY <1>3, <1>4, FiniteWorkers, SumZero
<1> SUFFICES ASSUME NEW v \in Worker, Has(DOMAIN paneSet[v], e.q[v], p) PROVE FALSE
  OBVIOUS
<1>6. PICK k : k = Cardinality(About(e.q[v], "LULL", p))
  OBVIOUS
<1>7. k \in Nat
  BY <1>2, <1>6, AboutCount
<1>8. f[v] = 1 + k
  BY <1>1, <1>6 DEF PartsToCome, PartsAt
<1>9. f[v] = 0
  BY <1>5
<1> QED
  BY ONLY <1>7, <1>8, <1>9

\* A pane is closed that has got tuples: a holder of it will tell the number of
\* its partitions.
LEMMA AccountClosed ==
    ASSUME StageInv, NEW e \in EmitterType, QueuesInv(e, FALSE),
           NEW p \in Pane, p >= e.s.next_pane_id, Account(e, p, FALSE, FALSE),
           e.s.holders[p] \subseteq e.s.activated, e.s.pane_size[p] # 0
    PROVE  Account(e, p, TRUE, FALSE)
<1>1. PICK v : v \in e.s.holders[p]
  BY DEF Account, Tracked
<1>2. v \in Worker /\ Has(DOMAIN paneSet[v], e.q[v], p) /\ ~Anonymous(e.q[v], p)
  BY <1>1, OfActive
<1>3. WillTell(DOMAIN paneSet[v], e.q[v], p)
  BY <1>2 DEF WillTell
<1>4. Announced(e, p, FALSE) => Announced(e, p, TRUE)
  BY <1>2, <1>3 DEF Announced
<1>5. Sound(e, p, TRUE) => Sound(e, p, FALSE)
  BY DEF Sound
<1>6. LullsClosed(e, p, TRUE)
  BY DEF Account, LullsClosed
<1>7. ASSUME Sound(e, p, TRUE) PROVE e.s.p_instances[p] > 0
  <2>1. Balanced(e, p)
    BY <1>5, <1>7 DEF Account
  <2>2. e.s.p_instances[p] # 0
    BY <1>2, <2>1, NothingDue
  <2>3. PICK n \in Nat : n = e.s.p_instances[p]
    BY DEF EmitterType, Sched
  <2> QED
    BY <2>2, <2>3
<1> QED
  BY <1>4, <1>5, <1>6, <1>7 DEF Account

\* A pane is closed that has got no tuple: an empty results set is made of it.
LEMMA AccountLulled ==
    ASSUME StageInv, NEW e \in EmitterType, NEW d \in EmitterType, QueuesInv(e, FALSE),
           NEW p \in Pane, p >= e.s.next_pane_id, Account(e, p, FALSE, FALSE),
           \A v \in Worker : Flushes(DOMAIN paneSet[v], e.q[v], e.s.next_pane_id),
           e.s.pane_size[p] = 0,
           NEW w \in e.s.activated, Sent(e, d, {w}, Lull(p)),
           d.s.p_instances[p] = 1, d.s.pane_size[p] = 0
    PROVE  Account(d, p, TRUE, FALSE)
<1>1. /\ e.q \in [Worker -> Seq(Message)] /\ d.q \in [Worker -> Seq(Message)]
      /\ e.s.activated \subseteq Worker /\ w \in Worker
      /\ paneSet \in [Worker -> Deque]
      /\ results \in [Pane -> [parts : Nat, tuples : Nat, counts : SUBSET Nat]]
  BY DEF EmitterType, Sched, StageInv, TypeInv
<1>2. \A v \in Worker : paneSet[v] \in Deque /\ e.q[v] \in Seq(Message)
  BY <1>1
<1>3. d.q[w] = Append(e.q[w], Lull(p)) /\ \A v \in Worker \ {w} : d.q[v] = e.q[v]
  BY <1>1 DEF Sent
<1>4. Lull(p) \in Message
  BY MessagesSent
<1>5. /\ More(paneSet[w], e.q[w], d.q[w], p, 1, 0)
      /\ Anonymous(e.q[w], p) => Anonymous(d.q[w], p)
      /\ Tells(paneSet[w], e.q[w], p, 1) => Tells(paneSet[w], d.q[w], p, 1)
      /\ Lulling(e.q[w], d.q[w], p)
  <2>1. PICK r \in Deque : r = paneSet[w]
    BY <1>1
  <2>2. PICK x \in Seq(Message) : x = e.q[w]
    BY <1>1
  <2>3. PICK y : y = d.q[w]
    OBVIOUS
  <2>4. y = Append(x, Lull(p))
    BY <1>3, <2>2, <2>3
  <2>5. /\ More(r, x, y, p, 1, 0)
        /\ Anonymous(x, p) => Anonymous(y, p)
        /\ Tells(r, x, p, 1) => Tells(r, y, p, 1)
        /\ Lulling(x, y, p)
    BY ONLY r \in Deque, x \in Seq(Message), <1>4, <2>4, AppendLull
  <2> QED
    BY <2>1, <2>2, <2>3, <2>5
<1>6. ASSUME Sound(d, p, TRUE)
      PROVE  Balanced(d, p) /\ Agreed(d, p) /\ Announced(d, p, TRUE)
  <2>1. strategy = "PB_RR" /\ Sound(e, p, FALSE)
    BY <1>6 DEF Sound
  <2>2. Balanced(e, p) /\ Announced(e, p, FALSE) /\ Tracked(e, p)
    BY <2>1 DEF Account
  <2>3. e.s.p_instances[p] = 0
    BY <2>1, <2>2 DEF Tracked
  <2>4. \A v \in Worker : ~Has(DOMAIN paneSet[v], e.q[v], p)
    BY <2>2, <2>3, NothingDue
  <2>5. Balanced(d, p)
    <3>1. /\ 0 \in Nat /\ 1 \in Nat
          /\ d.s.p_instances[p] = e.s.p_instances[p] + 1
          /\ d.s.pane_size[p] = e.s.pane_size[p] + 0
      BY <2>3
    <3>2. \A v \in Worker \ {w} : More(paneSet[v], e.q[v], d.q[v], p, 0, 0)
      <4>1. \A v \in Worker : More(paneSet[v], e.q[v], e.q[v], p, 0, 0)
        BY <1>2, NothingGrown DEF Grown
      <4> QED
        BY <1>3, <4>1
    <3>3. More(paneSet[w], e.q[w], d.q[w], p, 1, 0)
      BY <1>5
    <3> QED
      BY ONLY <1>1, <2>2, <3>1, <3>2, <3>3, p \in Pane, MoreToCome
  <2>6. ASSUME NEW v \in Worker
        PROVE  Anonymous(d.q[v], p) \/ Tells(paneSet[v], d.q[v], p, 1)
    <3>1. Anonymous(e.q[v], p) \/ Tells(paneSet[v], e.q[v], p, 1)
      BY <2>4, Unconcerned
    <3> QED
      BY <1>3, <1>5, <3>1
  <2>7. Agreed(d, p)
    BY <2>6 DEF Agreed
  <2>8. Announced(d, p, TRUE)
    <3>1. results[p].counts = {}
      BY <2>2 DEF Announced
    <3>2. WillTell(DOMAIN paneSet[w], d.q[w], p)
      BY <1>5 DEF WillTell, Lulling
    <3> QED
      BY <1>1, <3>1, <3>2 DEF Announced
  <2> QED
    BY <2>5, <2>7, <2>8
<1>7. LullsClosed(d, p, TRUE)
  <2>1. \A v \in Worker : About(e.q[v], "LULL", p) = {}
    BY DEF Account, LullsClosed
  <2> SUFFICES ASSUME NEW v \in Worker, NEW j \in About(d.q[v], "LULL", p)
               PROVE  d.q[v][j].no_instances = 1
    BY DEF LullsClosed
  <2>2. v = w
    BY <1>3, <2>1
  <2>3. d.q[w][j] = Lull(p)
    BY <1>1, <1>5, <2>1, <2>2 DEF Lulling
  <2> QED
    BY <2>2, <2>3 DEF Lull
<1>8. d.s.p_instances[p] > 0
  OBVIOUS
<1> QED
  BY <1>6, <1>7, <1>8 DEF Account

\* The panes before p were closed, and p is now.
LEMMA LullAccounts ==
    ASSUME StageInv, NEW e \in EmitterType, QueuesInv(e, FALSE), e.s.activated # {},
           NEW p \in Pane, p >= e.s.next_pane_id, e.s.holders[p] \subseteq e.s.activated,
           AccountsUpTo(e, p)
    PROVE  AccountsUpTo(LullIfEmpty(e, p), p + 1)
<1>1. p \in Nat /\ Pane \subseteq Nat
  BY WorkersAreNumbers
<1>2. \A q \in Pane \ {p} : (q < p + 1) = (q < p)
  BY <1>1
<1>3. Account(e, p, FALSE, FALSE)
  <2>1. Account(e, p, p < p, FALSE)
    BY DEF AccountsUpTo
  <2>2. (p < p) = FALSE
    BY <1>1
  <2> QED
    BY <2>1, <2>2
<1>4. (p < p + 1) = TRUE
  BY <1>1
<1>5. CASE e.s.pane_size[p] = 0
  <2>1. PICK m : m = Lull(p)
    OBVIOUS
  <2>2. m \in Message /\ m.type = "LULL" /\ m.pane_id = p /\ \A q : ~Names(m, q)
    BY <2>1, MessagesSent DEF Lull, Names, Naming
  <2>3. PICK r : r = SendRR(e, m)
    OBVIOUS
  <2>4. PICK w \in e.s.activated : /\ Sent(e, r, {w}, m) /\ Alike(e.s, r.s)
                                   /\ r.s.p_instances = e.s.p_instances
    BY <2>2, <2>3, SendRREffect
  <2>5. r \in EmitterType
    BY <2>4 DEF Sent
  <2>6. PICK d : d = [r EXCEPT !.s.p_instances[p] = 1]
    OBVIOUS
  <2>7. /\ d \in EmitterType /\ d.q = r.q /\ d.last_P = r.last_P
        /\ d.last_timestamp = r.last_timestamp /\ Alike(r.s, d.s)
        /\ d.s.p_instances[p] = 1
        /\ \A q \in Pane \ {p} : d.s.p_instances[q] = r.s.p_instances[q]
    BY <2>5, <2>6 DEF EmitterType, Sched, Alike
  <2>8. /\ Sent(e, d, {w}, m) /\ d.s.activated = e.s.activated
        /\ d.s.next_pane_id = e.s.next_pane_id /\ d.s.pane_size = e.s.pane_size
        /\ \A q \in Pane \ {p} : SamePane(e.s, d.s, q)
    BY <2>4, <2>7 DEF Sent, Alike, SamePane
  <2>9. LullIfEmpty(e, p) = d
    BY <1>5, <2>1, <2>3, <2>6 DEF LullIfEmpty
  <2>10. QueuesInv(d, FALSE)
    BY <2>9, LullPreserves DEF Preserves
  <2>11. \A v \in Worker : Flushes(DOMAIN paneSet[v], e.q[v], e.s.next_pane_id)
    BY DEF AccountsUpTo
  <2>12. Account(d, p, TRUE, FALSE)
    BY <1>3, <1>5, <2>1, <2>7, <2>8, <2>11, AccountLulled
  <2>13. ASSUME NEW q \in Pane \ {p} PROVE Account(d, q, q < p, FALSE)
    <3>1. Account(e, q, q < p, FALSE)
      BY DEF AccountsUpTo
    <3>2. SentElsewhere(e, d, q)
      BY <2>2, <2>8 DEF SentElsewhere, Sent
    <3> QED
      BY <2>8, <3>1, <3>2, OthersKept
  <2>14. \A v \in Worker : v \notin e.s.activated => d.q[v] = e.q[v]
    BY <2>8 DEF Sent
  <2>15. e.s.next_pane_id <= d.s.next_pane_id
    <3>1. e.s.next_pane_id \in Nat
      BY <1>1 DEF EmitterType, Sched
    <3> QED
      BY <2>8, <3>1
  <2>16. \A v \in Worker : Flushes(DOMAIN paneSet[v], d.q[v], d.s.next_pane_id)
    BY <2>7, <2>8, <2>10, <2>11, <2>14, <2>15, FlushesKept
  <2> QED
    BY <1>2, <1>4, <2>9, <2>12, <2>13, <2>16 DEF AccountsUpTo
<1>6. CASE e.s.pane_size[p] # 0
  <2>1. LullIfEmpty(e, p) = e
    BY <1>6 DEF LullIfEmpty
  <2>2. Account(e, p, TRUE, FALSE)
    BY <1>3, <1>6, AccountClosed
  <2> QED
    BY <1>2, <1>4, <2>1, <2>2 DEF AccountsUpTo
<1> QED
  BY <1>5, <1>6

\* The panes from..to are closed one after the other, by induction.
LEMMA LulledAccounts ==
    ASSUME StageInv, NEW e \in EmitterType, QueuesInv(e, FALSE), e.s.activated # {},
           NEW from \in Nat, NEW to \in Int, from <= to + 1, from..to \subseteq Pane,
           from >= e.s.next_pane_id,
           \A q \in Pane : q >= e.s.next_pane_id => e.s.holders[q] \subseteq e.s.activated,
           AccountsUpTo(e, from)
    PROVE  AccountsUpTo(Lulled(e, from, to), to + 1)
<1> DEFINE n == to - from + 1
           x == PanesFrom(from, to)
           Y == {d \in EmitterType : Preserves(e, d)}
           F == [u \in Y \X (1..n) |-> LullIfEmpty(u[1], x[u[2]])]
<1>1. n \in Nat /\ \A i \in 1..n : x[i] \in Pane /\ x[i] = from + i - 1 /\ x[i] >= from
  <2>1. n \in Nat
    OBVIOUS
  <2>2. ASSUME NEW i \in 1..n PROVE x[i] \in Pane /\ x[i] = from + i - 1 /\ x[i] >= from
    <3>1. x[i] = from + i - 1 /\ from + i - 1 \in from..to
      BY <2>1 DEF PanesFrom
    <3> QED
      BY <3>1
  <2> QED
    BY <2>1, <2>2
<1>2. DOMAIN x = 1..n
  BY DEF PanesFrom
<1>3. e \in Y
  BY DEF Preserves, Alike
<1>4. ASSUME NEW d \in Y, NEW i \in 1..n PROVE LullIfEmpty(d, x[i]) \in Y
  <2>1. d \in EmitterType /\ Preserves(e, d)
    OBVIOUS
  <2>2. d.s.activated # {} /\ x[i] \in Pane
    BY <1>1, <2>1 DEF Preserves, Alike
  <2>3. Preserves(d, LullIfEmpty(d, x[i]))
    BY <2>1, <2>2, LullPreserves
  <2>4. PICK f : f = LullIfEmpty(d, x[i])
    OBVIOUS
  <2>5. Preserves(e, f) /\ f \in EmitterType
    BY <2>1, <2>3, <2>4 DEF Preserves, Alike
  <2> QED
    BY <2>4, <2>5
<1>12. ASSUME NEW d \in Y, NEW i \in 1..n, AccountsUpTo(d, from + (i - 1))
       PROVE  AccountsUpTo(LullIfEmpty(d, x[i]), from + i)
  <2>1. d \in EmitterType /\ Preserves(e, d)
    OBVIOUS
  <2>2. PICK p \in Pane : p = x[i]
    BY <1>1
  <2>3. /\ d.s.activated = e.s.activated /\ d.s.next_pane_id = e.s.next_pane_id
        /\ d.s.holders = e.s.holders /\ QueuesInv(d, FALSE)
    BY <2>1 DEF Preserves, Alike
  <2>4. p >= e.s.next_pane_id /\ from + (i - 1) = p /\ from + i = p + 1
    <3>1. p = from + i - 1 /\ p >= from /\ from >= e.s.next_pane_id
      BY <1>1, <2>2
    <3>2. PICK next : next = e.s.next_pane_id
      OBVIOUS
    <3>3. next \in Nat /\ p \in Nat
      BY <3>2, WorkersAreNumbers DEF EmitterType, Sched
    <3>4. i \in Nat
      BY <1>1
    <3>5. p >= next
      BY <3>1, <3>2, <3>3
    <3> QED
      BY <3>1, <3>2, <3>4, <3>5
  <2>5. AccountsUpTo(d, p)
    BY <1>12, <2>4
  <2>6. e.s.holders[p] \subseteq e.s.activated
    BY <2>4
  <2>7. AccountsUpTo(LullIfEmpty(d, p), p + 1)
    BY <2>1, <2>3, <2>4, <2>5, <2>6, LullAccounts
  <2> QED
    BY <2>2, <2>4, <2>7
<1> HIDE DEF Y, n, x
<1>5. F \in [Y \X (1..n) -> Y]
  BY <1>4
<1> HIDE DEF F
<1>6. PICK h \in [SUBSET (1..n) -> Y] : FoldValues(h, F, e, n)
  BY <1>1, <1>3, <1>5, FoldExists
<1>7. h = [t \in SUBSET (1..n) |->
             IF t = {} THEN e ELSE LullIfEmpty(h[t \ {Max(t)}], x[Max(t)])]
  <2>1. ASSUME NEW t \in SUBSET (1..n), t # {}
        PROVE  F[<<h[t \ {Max(t)}], Max(t)>>] = LullIfEmpty(h[t \ {Max(t)}], x[Max(t)])
    <3>1. t \in SUBSET (0..n)
      OBVIOUS
    <3>2. Max(t) \in 1..n
      BY <1>1, <2>1, <3>1, GreatestElement
    <3>3. PICK a : a = Max(t)
      OBVIOUS
    <3>4. PICK d : d = h[t \ {a}]
      OBVIOUS
    <3>5. d \in Y /\ a \in 1..n
      BY <3>2, <3>3, <3>4
    <3>6. F[<<d, a>>] = LullIfEmpty(d, x[a])
      BY <3>5 DEF F
    <3> QED
      BY <3>3, <3>4, <3>6
  <2> QED
    BY <1>6, <2>1 DEF FoldValues
<1>8. PICK g : g = CHOOSE f : f = [t \in SUBSET (1..n) |->
                  IF t = {} THEN e ELSE LullIfEmpty(f[t \ {Max(t)}], x[Max(t)])]
  OBVIOUS
<1>9. g = [t \in SUBSET (1..n) |->
             IF t = {} THEN e ELSE LullIfEmpty(g[t \ {Max(t)}], x[Max(t)])]
  BY <1>7, <1>8
<1>10. Lulled(e, from, to) = g[1..n]
  BY <1>2, <1>8 DEF Lulled, FoldLeft, MapThenFoldSet, x
<1>11. AccountsUpTo(g[1..n], from + n)
  <2> DEFINE Z == [k \in 0..n |-> {d \in Y : AccountsUpTo(d, from + k)}]
  <2>1. g[{}] \in Z[0]
    <3>1. from + 0 = from /\ 0 \in 0..n /\ g[{}] = e
      BY <1>1, <1>9
    <3> QED
      BY <1>3, <3>1
  <2>2. ASSUME NEW k \in 1..n, g[1..(k - 1)] \in Z[k - 1] PROVE g[1..k] \in Z[k]
    <3>1. k - 1 \in 0..n /\ k \in 0..n
      BY <1>1
    <3>2. PICK d : d = g[1..(k - 1)]
      OBVIOUS
    <3>3. d \in Y /\ AccountsUpTo(d, from + (k - 1))
      BY <2>2, <3>1, <3>2
    <3>4. /\ 1..k \in SUBSET (1..n) /\ 1..k # {}
          /\ Max(1..k) = k /\ (1..k) \ {k} = 1..(k - 1)
      BY <1>1, Segments
    <3>5. g[1..k] = LullIfEmpty(d, x[k])
      BY <1>9, <3>2, <3>4
    <3>6. LullIfEmpty(d, x[k]) \in Y /\ AccountsUpTo(LullIfEmpty(d, x[k]), from + k)
      BY <1>4, <1>12, <3>3
    <3> QED
      BY <3>1, <3>5, <3>6
  <2> HIDE DEF Z
  <2>3. g[1..n] \in Z[n]
    BY <1>1, <2>1, <2>2, SegmentsInduction
  <2> QED
    BY <1>1, <2>3 DEF Z
<1>13. from + n = to + 1
  BY DEF n
<1> QED
  BY <1>10, <1>11, <1>13

\* executeStreamProgress keeps the accounts, and the panes before p are closed.
LEMMA ClosingAccounts ==
    ASSUME StageInv, NEW e \in EmitterType, QueuesInv(e, FALSE), e.s.activated # {},
           \A q \in Pane : q >= e.s.next_pane_id => e.s.holders[q] \subseteq e.s.activated,
           AccountsUpTo(e, e.s.next_pane_id), NEW p \in Pane, ~(p < e.s.next_pane_id)
    PROVE  AccountsUpTo(executeStreamProgress(e, p), p)
<1>1. PICK k : k = Larger(e.s.n_panes, p + 1)
  OBVIOUS
<1>2. PICK r : r = [e EXCEPT !.s.n_panes = k]
  OBVIOUS
<1>3. /\ p \in Nat /\ p <= PaneOf(MaxTs) /\ PaneOf(MaxTs) \in Nat
      /\ e.s.n_panes \in 0..(PaneOf(MaxTs) + 1)
  BY WorkersAreNumbers DEF EmitterType, Sched, Pane
<1>4. k \in 0..(PaneOf(MaxTs) + 1)
  BY <1>1, <1>3 DEF Larger
<1>5. /\ r \in EmitterType /\ r.q = e.q
      /\ r.s.activated = e.s.activated /\ r.s.next_pane_id = e.s.next_pane_id
      /\ r.s.holders = e.s.holders /\ r.s.pane_size = e.s.pane_size
      /\ r.s.p_instances = e.s.p_instances
  BY <1>2, <1>4 DEF EmitterType, Sched
<1>6. QueuesInv(r, FALSE)
  BY <1>5 DEF QueuesInv, HeldBy
<1>7. PICK from : from = e.s.next_pane_id
  OBVIOUS
<1>8. PICK to : to = p - 1
  OBVIOUS
<1>9. /\ from \in Nat /\ to \in Int /\ from <= to + 1 /\ from..to \subseteq Pane
      /\ to + 1 = p /\ from <= p /\ from >= from
  <2>1. from \in Nat /\ ~(p < from)
    BY <1>7, WorkersAreNumbers DEF EmitterType, Sched
  <2> QED
    BY <1>3, <1>8, <2>1 DEF Pane
<1>10. PICK l : l = Lulled(r, from, to)
  OBVIOUS
<1>11. Preserves(r, l)
  BY <1>5, <1>9, <1>10, LulledPreserves
<1>12. AccountsUpTo(r, from)
  <2>1. AccountsUpTo(e, from)
    BY <1>7
  <2>2. \A q \in Pane : SamePane(e.s, r.s, q)
    BY <1>5 DEF SamePane
  <2> QED
    BY <1>5, <2>1, <2>2, SameAccounts
<1>13. AccountsUpTo(l, p)
  <2>1. from >= r.s.next_pane_id
    BY <1>5, <1>7, <1>9
  <2>2. \A q \in Pane : q >= r.s.next_pane_id => r.s.holders[q] \subseteq r.s.activated
    BY <1>5
  <2>3. AccountsUpTo(l, to + 1)
    BY ONLY StageInv, <1>5, e.s.activated # {}, <1>6, <1>9, <1>10, <1>12, <2>1, <2>2,
       LulledAccounts
  <2> QED
    BY <1>9, <2>3
<1>14. /\ l \in EmitterType /\ l.s.activated = e.s.activated
       /\ l.s.next_pane_id = from /\ QueuesInv(l, FALSE)
  BY <1>5, <1>6, <1>7, <1>11 DEF Preserves, Alike
<1>15. PICK c : c = [l EXCEPT !.s.next_pane_id = p]
  OBVIOUS
<1>16. /\ c \in EmitterType /\ c.q = l.q
       /\ c.s.activated = l.s.activated /\ c.s.next_pane_id = p
       /\ c.s.holders = l.s.holders /\ c.s.pane_size = l.s.pane_size
       /\ c.s.p_instances = l.s.p_instances
  BY <1>14, <1>15 DEF EmitterType, Sched
<1>17. PICK m : m = Punct(p)
  OBVIOUS
<1>18. PICK d : d = IF iop THEN c ELSE Multicast(c, c.s.activated, m)
  OBVIOUS
<1>19. d = executeStreamProgress(e, p)
  <2>1. r = [e EXCEPT !.s.n_panes = Larger(@, p + 1)]
    BY <1>1, <1>2
  <2>2. executeStreamProgress(e, p) =
            LET lulled == Lulled(r, e.s.next_pane_id, p - 1)
                closed == [lulled EXCEPT !.s.next_pane_id = p]
            IN IF iop THEN closed ELSE Multicast(closed, e.s.activated, Punct(p))
    BY <2>1 DEF executeStreamProgress
  <2>3. c.s.activated = e.s.activated
    BY <1>14, <1>16
  <2> QED
    BY <1>7, <1>8, <1>10, <1>15, <1>17, <1>18, <2>2, <2>3
<1>20. Closing(e, d, p)
  BY <1>19, ProgressCloses
<1>21. /\ d \in EmitterType /\ QueuesInv(d, FALSE) /\ d.s.next_pane_id = p
       /\ d.s.activated = l.s.activated
  BY <1>14, <1>20 DEF Closing
<1>22. /\ m \in Message /\ m.type = "PUNCT" /\ \A q : ~Names(m, q)
  BY <1>17, MessagesSent DEF Punct, Names, Naming
<1>23. /\ d.s = c.s
       /\ \A v \in Worker : d.q[v] = IF ~iop /\ v \in c.s.activated
                                     THEN Append(c.q[v], m) ELSE c.q[v]
  <2>1. CASE iop
    BY <1>18, <2>1
  <2>2. CASE ~iop
    <3>1. d = Multicast(c, c.s.activated, m)
      BY <1>18, <2>2
    <3>2. Sent(c, d, c.s.activated, m) /\ d.s = c.s
      BY <1>16, <1>22, <3>1, MulticastEffect
    <3> QED
      BY <2>2, <3>2 DEF Sent
  <2> QED
    BY <2>1, <2>2
<1>24. ASSUME NEW q \in Pane PROVE Account(d, q, q < p, FALSE)
  <2>1. Account(l, q, q < p, FALSE)
    BY <1>13 DEF AccountsUpTo
  <2>2. SamePane(l.s, d.s, q)
    BY <1>16, <1>23 DEF SamePane
  <2>3. SentElsewhere(l, d, q)
    BY <1>16, <1>22, <1>23 DEF SentElsewhere
  <2> QED
    BY <1>14, <1>21, <2>1, <2>2, <2>3, OthersKept
<1>25. \A v \in Worker : Flushes(DOMAIN paneSet[v], d.q[v], d.s.next_pane_id)
  <2>1. \A v \in Worker : v \notin l.s.activated => d.q[v] = l.q[v]
    BY <1>16, <1>23
  <2>2. l.s.next_pane_id <= d.s.next_pane_id
    BY <1>9, <1>14, <1>21
  <2>3. \A v \in Worker : Flushes(DOMAIN paneSet[v], l.q[v], l.s.next_pane_id)
    BY <1>13 DEF AccountsUpTo
  <2> QED
    BY <1>14, <1>21, <2>1, <2>2, <2>3, FlushesKept
<1> QED
  BY <1>19, <1>24, <1>25 DEF AccountsUpTo

\* The accounts after the progress of the stream, or the lack of it.
LEMMA ProgressAccounts ==
    ASSUME StageInv, NEW e, EmitterInv(e, FALSE), AccountsUpTo(e, e.s.next_pane_id),
           NEW p \in Pane
    PROVE  LET d == executeStreamProgress(e, p)
           IN /\ AccountsUpTo(d, d.s.next_pane_id)
              /\ d.s.holders = e.s.holders /\ d.s.pane_size = e.s.pane_size
<1>1. /\ e \in EmitterType /\ QueuesInv(e, FALSE) /\ e.s.activated # {}
      /\ \A q \in Pane : q >= e.s.next_pane_id => e.s.holders[q] \subseteq e.s.activated
  BY DEF EmitterInv, SchedInv, PaneInv
<1>2. CASE p < e.s.next_pane_id
  BY <1>2 DEF executeStreamProgress
<1>3. CASE ~(p < e.s.next_pane_id)
  <2>1. PICK d : d = executeStreamProgress(e, p)
    OBVIOUS
  <2>2. AccountsUpTo(d, p)
    BY <1>1, <1>3, <2>1, ClosingAccounts
  <2>3. Closing(e, d, p)
    BY <1>1, <1>3, <2>1, ProgressCloses
  <2> QED
    BY <2>1, <2>2, <2>3 DEF Closing
<1> QED
  BY <1>2, <1>3

-----------------------------------------------------------------------------
(* The accounts of a pane that a strategy takes care of                    *)

\* Nothing but pane p is different in the scheduler.
Rest(e, d, p) ==
    /\ d \in EmitterType
    /\ d.s.activated = e.s.activated /\ d.s.next_pane_id = e.s.next_pane_id
    /\ \A q \in Pane \ {p} : SamePane(e.s, d.s, q)

\* What the scheduler knows of pane p.
Knows(s, p, n, size, holders) ==
    s.p_instances[p] = n /\ s.pane_size[p] = size /\ s.holders[p] = holders

\* Holder w gets a tuple of pane p.
Fills(e, d, p, w) ==
    /\ Rest(e, d, p) /\ w \in e.s.activated /\ w \in e.s.holders[p]
    /\ Sent(e, d, {w}, Regular(p, e.s.p_instances[p]))
    /\ Knows(d.s, p, e.s.p_instances[p], e.s.pane_size[p] + 1, e.s.holders[p])

\* Message m makes another partition of pane p at worker w, and the holders that
\* are activated are told.
Divides(e, d, p, w, m) ==
    /\ Rest(e, d, p) /\ w \in e.s.activated /\ w \notin e.s.holders[p]
    /\ m \in Message /\ Makes(m, p) /\ m.no_instances = e.s.p_instances[p] + 1
    /\ d.q[w] = Append(e.q[w], m)
    /\ \A v \in Worker \ {w} :
          d.q[v] = IF v \in e.s.holders[p] \cap e.s.activated
                   THEN Append(e.q[v], NewInst(p, e.s.p_instances[p] + 1)) ELSE e.q[v]
    /\ Knows(d.s, p, e.s.p_instances[p] + 1,
             e.s.pane_size[p] + IF m.type = "REGULAR" THEN 1 ELSE 0,
             (e.s.holders[p] \cap e.s.activated) \cup {w})
    /\ strategy = "PB_RR" =>
          e.s.holders[p] \cap e.s.activated = {} /\ d.s.pane_size[p] # 0

\* The holders of pane p that are not activated are forgotten.
Forgets(e, d, p) ==
    /\ Rest(e, d, p) /\ d.q = e.q
    /\ strategy # "PB_RR" /\ e.s.holders[p] \cap e.s.activated # {}
    /\ Knows(d.s, p, e.s.p_instances[p], e.s.pane_size[p],
             e.s.holders[p] \cap e.s.activated)

\* The first tuple of a pane that was opened before goes to worker w.
Restarts(e, d, p, w) ==
    /\ Rest(e, d, p) /\ Adaptive /\ p \in openedEmpty /\ w \in e.s.activated
    /\ Sent(e, d, {w}, Regular(p, 1))
    /\ Knows(d.s, p, 1, e.s.pane_size[p] + 1, e.s.holders[p] \cup {w})

\* A strategy does one of these.
Handled(e, d, p) ==
    \/ d = e \/ Forgets(e, d, p)
    \/ \E w \in Worker : \/ Fills(e, d, p, w) \/ Restarts(e, d, p, w)
                         \/ \E m \in Message : Divides(e, d, p, w, m)

\* The emitter sent at most one message to each activated worker, about pane p.
SentAbout(e, d, p) ==
    \A v \in Worker :
        \/ d.q[v] = e.q[v]
        \/ /\ v \in e.s.activated
           /\ \E m \in Message : /\ m.type \in Naming /\ m.pane_id = p
                                 /\ d.q[v] = Append(e.q[v], m)

\* A tuple that is a restart leaves the pane out of what is promised.
LEMMA AccountRestarted ==
    ASSUME NEW e \in EmitterType, NEW d, NEW p \in Pane, Account(e, p, FALSE, FALSE),
           NEW w \in Worker, Restarts(e, d, p, w)
    PROVE  Account(d, p, FALSE, FALSE)
<1>1. ~Sound(d, p, FALSE) /\ strategy # "PB_RR"
  BY DEF Restarts, Sound, Adaptive
<1>2. PICK m \in Message : m = Regular(p, 1)
  BY MessagesSent
<1>3. m.type = "REGULAR" /\ d.q[w] = Append(e.q[w], m) /\ e.q[w] \in Seq(Message)
  BY <1>2 DEF Restarts, Sent, Regular, EmitterType
<1>4. \A v \in Worker \ {w} : d.q[v] = e.q[v]
  BY DEF Restarts, Sent
<1>5. Tracked(d, p)
  <2>1. Tracked(e, p) /\ d.s.activated \subseteq Worker
    BY DEF Account, Restarts, Rest, EmitterType, Sched
  <2>2. ASSUME NEW v \in d.s.activated, Has(DOMAIN paneSet[v], d.q[v], p)
        PROVE  v \in d.s.holders[p]
    <3>1. CASE v = w
      BY <3>1 DEF Restarts, Knows
    <3>2. CASE v # w
      BY <1>4, <2>1, <2>2, <3>2 DEF Restarts, Knows, Rest, Tracked
    <3> QED
      BY <3>1, <3>2
  <2>3. d.s.holders[p] # {}
    BY DEF Restarts, Knows
  <2> QED
    BY <1>1, <2>2, <2>3 DEF Tracked
<1>6. LullsClosed(d, p, FALSE)
  <2>1. \A v \in Worker : About(e.q[v], "LULL", p) = {}
    BY DEF Account, LullsClosed
  <2>2. PICK x \in Seq(Message) : x = e.q[w]
    BY <1>3
  <2>3. About(Append(x, m), "LULL", p) = {}
    <3>1. Cardinality(About(Append(x, m), "LULL", p)) =
              Cardinality(About(x, "LULL", p)) + 0
      BY <1>3, AppendAbout
    <3>2. Cardinality(About(x, "LULL", p)) = 0
      BY <2>1, <2>2, AboutCount
    <3>3. PICK y \in Seq(Message) : y = Append(x, m)
      BY AppendQueue
    <3>4. Cardinality(About(y, "LULL", p)) = 0
      BY <3>1, <3>2, <3>3
    <3>5. About(y, "LULL", p) = {}
      BY <3>4, AboutCount
    <3> QED
      BY <3>3, <3>5
  <2>4. \A v \in Worker : About(d.q[v], "LULL", p) = {}
    BY <1>3, <1>4, <2>1, <2>2, <2>3
  <2> QED
    BY <2>4 DEF LullsClosed
<1> QED
  BY <1>1, <1>5, <1>6 DEF Account

\* Nothing but messages about pane p is sent.
LEMMA HandledSends ==
    ASSUME NEW e \in EmitterType, NEW d, NEW p \in Pane, Handled(e, d, p)
    PROVE  Rest(e, d, p) /\ SentAbout(e, d, p)
<1>1. e.s.p_instances[p] \in Nat /\ e.s.activated \subseteq Worker
  BY DEF EmitterType, Sched
<1>2. CASE d = e
  BY <1>2 DEF Rest, SamePane, SentAbout
<1>3. CASE Forgets(e, d, p)
  BY <1>3 DEF Forgets, SentAbout
<1>4. ASSUME NEW n \in Nat
      PROVE  /\ Regular(p, n) \in Message /\ Regular(p, n).pane_id = p
             /\ Regular(p, n).type \in Naming
             /\ NewInst(p, n) \in Message /\ NewInst(p, n).pane_id = p
             /\ NewInst(p, n).type \in Naming
  BY MessagesSent DEF Regular, NewInst, Naming
<1>5. ASSUME NEW w \in Worker, Fills(e, d, p, w)
      PROVE  Rest(e, d, p) /\ SentAbout(e, d, p)
  <2>1. PICK m : m = Regular(p, e.s.p_instances[p])
    OBVIOUS
  <2>2. m \in Message /\ m.type \in Naming /\ m.pane_id = p
    BY <1>1, <1>4, <2>1
  <2> QED
    BY <1>5, <2>1, <2>2 DEF Fills, SentAbout, Sent
<1>6. ASSUME NEW w \in Worker, Restarts(e, d, p, w)
      PROVE  Rest(e, d, p) /\ SentAbout(e, d, p)
  <2>1. PICK m : m = Regular(p, 1)
    BY Zenon
  <2>2. m \in Message /\ m.type \in Naming /\ m.pane_id = p
    BY <1>4, <2>1
  <2> QED
    BY <1>6, <2>1, <2>2 DEF Restarts, SentAbout, Sent
<1>7. ASSUME NEW w \in Worker, NEW m \in Message, Divides(e, d, p, w, m)
      PROVE  Rest(e, d, p) /\ SentAbout(e, d, p)
  <2>1. PICK t : t = NewInst(p, e.s.p_instances[p] + 1)
    OBVIOUS
  <2>2. t \in Message /\ t.type \in Naming /\ t.pane_id = p
    BY <1>1, <1>4, <2>1
  <2>3. m.type \in Naming /\ m.pane_id = p
    BY <1>7 DEF Divides, Makes, Making, Naming
  <2>4. /\ w \in e.s.activated /\ d.q[w] = Append(e.q[w], m)
        /\ \A v \in Worker \ {w} :
              d.q[v] = IF v \in e.s.holders[p] \cap e.s.activated
                       THEN Append(e.q[v], t) ELSE e.q[v]
    BY <1>7, <2>1 DEF Divides
  <2>5. SentAbout(e, d, p)
    BY <2>2, <2>3, <2>4 DEF SentAbout
  <2> QED
    BY <1>7, <2>5 DEF Divides
<1> QED
  BY <1>2, <1>3, <1>5, <1>6, <1>7 DEF Handled

\* All the accounts are kept.
LEMMA HandledAccounts ==
    ASSUME StageInv, NEW e \in EmitterType, NEW d, QueuesInv(e, FALSE), QueuesInv(d, FALSE),
           NEW p \in Pane, p >= e.s.next_pane_id, Handled(e, d, p),
           AccountsUpTo(e, e.s.next_pane_id)
    PROVE  AccountsUpTo(d, d.s.next_pane_id)
<1>1. Rest(e, d, p) /\ SentAbout(e, d, p)
  BY HandledSends
<1>2. PICK next : next = e.s.next_pane_id
  OBVIOUS
<1>3. /\ d \in EmitterType /\ d.s.activated = e.s.activated /\ d.s.next_pane_id = next
      /\ \A q \in Pane \ {p} : SamePane(e.s, d.s, q)
  BY <1>1, <1>2 DEF Rest
<1>4. next \in Nat /\ (p < next) = FALSE
  <2>1. next \in Nat /\ p \in Nat /\ p >= next
    BY <1>2, WorkersAreNumbers DEF EmitterType, Sched
  <2> QED
    BY <2>1
<1>5. \A q \in Pane : Account(e, q, q < next, FALSE)
  BY <1>2 DEF AccountsUpTo
<1>6. \A v \in Worker : Flushes(DOMAIN paneSet[v], e.q[v], e.s.next_pane_id)
  BY DEF AccountsUpTo
<1>7. Account(e, p, FALSE, FALSE)
  BY <1>4, <1>5
<1>8. Account(d, p, FALSE, FALSE)
  <2>1. CASE d = e
    BY <1>7, <2>1
  <2>2. CASE Forgets(e, d, p)
    BY <1>3, <1>7, <2>2, AccountForgets DEF Forgets, Knows
  <2>3. ASSUME NEW w \in Worker, Fills(e, d, p, w) PROVE Account(d, p, FALSE, FALSE)
    BY <1>3, <1>7, <2>3, AccountFilled DEF Fills, Knows
  <2>4. ASSUME NEW w \in Worker, Restarts(e, d, p, w) PROVE Account(d, p, FALSE, FALSE)
    BY <1>7, <2>4, AccountRestarted
  <2>5. ASSUME NEW w \in Worker, NEW m \in Message, Divides(e, d, p, w, m)
        PROVE  Account(d, p, FALSE, FALSE)
    BY <1>3, <1>6, <1>7, <2>5, AccountOpened DEF Divides, Knows
  <2> QED
    BY <2>1, <2>2, <2>3, <2>4, <2>5 DEF Handled
<1>9. ASSUME NEW q \in Pane \ {p} PROVE Account(d, q, q < next, FALSE)
  <2>1. SentElsewhere(e, d, q)
    <3>1. ASSUME NEW m \in Message, m.type \in Naming, m.pane_id = p
          PROVE  m.type # "FLUSH" /\ ~Names(m, q) /\ ~(m.type = "LULL" /\ m.pane_id = q)
      BY <3>1 DEF Names, Naming
    <3> QED
      BY <1>1, <3>1 DEF SentAbout, SentElsewhere
  <2>2. Account(e, q, q < next, FALSE) /\ SamePane(e.s, d.s, q)
    BY <1>3, <1>5
  <2> QED
    BY <1>3, <2>1, <2>2, OthersKept
<1>10. \A v \in Worker : Flushes(DOMAIN paneSet[v], d.q[v], d.s.next_pane_id)
  <2>1. \A v \in Worker : v \notin e.s.activated => d.q[v] = e.q[v]
    BY <1>1 DEF SentAbout
  <2>2. e.s.next_pane_id <= d.s.next_pane_id
    BY <1>2, <1>3, <1>4
  <2> QED
    BY <1>3, <1>6, <2>1, <2>2, FlushesKept
<1>11. ASSUME NEW q \in Pane PROVE Account(d, q, q < next, FALSE)
  <2>1. CASE q = p
    BY <1>4, <1>8, <2>1
  <2>2. CASE q # p
    BY <1>9, <2>2
  <2> QED
    BY <2>1, <2>2
<1> QED
  BY <1>3, <1>10, <1>11 DEF AccountsUpTo

-----------------------------------------------------------------------------
(* What the strategies do                                                  *)

\* Nothing but what is known of pane p differs.
Edits(e, d, p, n, size, holders) ==
    /\ Rest(e, d, p) /\ d.q = e.q /\ d.s.last_w = e.s.last_w
    /\ d.last_P = e.last_P /\ d.last_timestamp = e.last_timestamp
    /\ Knows(d.s, p, n, size, holders)

\* A tuple is counted.
LEMMA CountEdits ==
    ASSUME NEW e \in EmitterType, NEW p \in Pane
    PROVE  Edits(e, [e EXCEPT !.s.n_panes = Larger(@, p + 1), !.s.pane_size[p] = @ + 1], p,
                 e.s.p_instances[p], e.s.pane_size[p] + 1, e.s.holders[p])
<1>1. PICK c : c = [e EXCEPT !.s.n_panes = Larger(@, p + 1), !.s.pane_size[p] = @ + 1]
  OBVIOUS
<1>2. Counts(e, c, p)
  BY <1>1, CountedEffect
<1>3. PICK k : k = Larger(e.s.n_panes, p + 1)
  OBVIOUS
<1>4. PICK r : r = [e EXCEPT !.s.n_panes = k]
  OBVIOUS
<1>5. PICK z : z = e.s.pane_size[p] + 1
  OBVIOUS
<1>6. r.s.pane_size = e.s.pane_size /\ r.s.pane_size \in [Pane -> Nat]
  BY <1>4 DEF EmitterType, Sched
<1>7. c = [r EXCEPT !.s.pane_size[p] = z]
  BY <1>1, <1>3, <1>4, <1>5, <1>6
<1>8. c.s.pane_size[p] = z
  <2>1. r \in [s : {r.s}, q : {e.q}, last_P : {e.last_P}, last_timestamp : {e.last_timestamp}]
    BY <1>4 DEF EmitterType
  <2>2. r.s \in [activated : {e.s.activated}, nw_plq : {e.s.nw_plq}, last_w : {e.s.last_w},
                 next_pane_id : {e.s.next_pane_id}, n_panes : {k},
                 p_instances : {e.s.p_instances}, pane_size : {e.s.pane_size},
                 holders : {e.s.holders}, a_worker : {e.s.a_worker}, warmup : {e.s.warmup}]
    BY <1>4 DEF EmitterType, Sched
  <2> QED
    BY <1>6, <1>7, <2>1, <2>2
<1> QED
  BY <1>1, <1>2, <1>5, <1>8 DEF Edits, Rest, Knows, SamePane, Counts, Elsewhere

\* The number of the partitions of a pane is set.
LEMMA NumberEdits ==
    ASSUME NEW e \in EmitterType, NEW p \in Pane, NEW n \in Nat
    PROVE  Edits(e, [e EXCEPT !.s.p_instances[p] = n], p,
                 n, e.s.pane_size[p], e.s.holders[p])
<1>1. PICK d : d = [e EXCEPT !.s.p_instances[p] = n]
  OBVIOUS
<1>2. /\ d \in EmitterType /\ d.q = e.q /\ d.s.last_w = e.s.last_w
      /\ d.last_P = e.last_P /\ d.last_timestamp = e.last_timestamp
      /\ d.s.activated = e.s.activated /\ d.s.next_pane_id = e.s.next_pane_id
      /\ d.s.pane_size = e.s.pane_size /\ d.s.holders = e.s.holders
      /\ d.s.p_instances[p] = n
      /\ \A q \in Pane \ {p} : d.s.p_instances[q] = e.s.p_instances[q]
  BY <1>1 DEF EmitterType, Sched
<1> QED
  BY <1>1, <1>2 DEF Edits, Rest, Knows, SamePane

\* The holders of a pane are set.
LEMMA HoldersEdits ==
    ASSUME NEW e \in EmitterType, NEW p \in Pane, NEW G \in SUBSET Worker
    PROVE  Edits(e, [e EXCEPT !.s.holders[p] = G], p,
                 e.s.p_instances[p], e.s.pane_size[p], G)
<1>1. PICK d : d = [e EXCEPT !.s.holders[p] = G]
  OBVIOUS
<1>2. /\ d \in EmitterType /\ d.q = e.q /\ d.s.last_w = e.s.last_w
      /\ d.last_P = e.last_P /\ d.last_timestamp = e.last_timestamp
      /\ d.s.activated = e.s.activated /\ d.s.next_pane_id = e.s.next_pane_id
      /\ d.s.pane_size = e.s.pane_size /\ d.s.p_instances = e.s.p_instances
      /\ d.s.holders[p] = G
      /\ \A q \in Pane \ {p} : d.s.holders[q] = e.s.holders[q]
  BY <1>1 DEF EmitterType, Sched
<1> QED
  BY <1>1, <1>2 DEF Edits, Rest, Knows, SamePane

\* One edit after the other.
LEMMA EditsTwice ==
    ASSUME NEW e, NEW c, NEW d, NEW p \in Pane, NEW n, NEW size, NEW h,
           NEW m, NEW z, NEW g, Edits(e, c, p, n, size, h), Edits(c, d, p, m, z, g)
    PROVE  Edits(e, d, p, m, z, g)
BY DEF Edits, Rest, SamePane

\* A worker is given a message by round robin: the turn changes, and no pane.
LEMMA RoundRobinSends ==
    ASSUME NEW e \in EmitterType, e.s.activated # {}, NEW p \in Pane, NEW m \in Message,
           NEW w, w = get_rr_w(e.s), NEW d, d = SendRR(e, m)
    PROVE  /\ w \in e.s.activated /\ w \in Worker
           /\ Sent(e, d, {w}, m) /\ Rest(e, d, p)
           /\ Knows(d.s, p, e.s.p_instances[p], e.s.pane_size[p], e.s.holders[p])
<1>1. /\ w \in e.s.activated /\ w \in Worker /\ Sent(e, d, {w}, m)
      /\ Alike(e.s, d.s) /\ d.s.p_instances = e.s.p_instances
  BY SendRREffect
<1> QED
  BY <1>1 DEF Sent, Alike, Rest, Knows, SamePane

\* A worker is given a message: no pane changes.
LEMMA WorkerSends ==
    ASSUME NEW e \in EmitterType, NEW p \in Pane, NEW m \in Message,
           NEW w \in Worker, NEW d, d = Send(e, w, m)
    PROVE  /\ Sent(e, d, {w}, m) /\ Rest(e, d, p)
           /\ Knows(d.s, p, e.s.p_instances[p], e.s.pane_size[p], e.s.holders[p])
<1>1. Sent(e, d, {w}, m) /\ d.s = e.s
  BY SendEffect
<1> QED
  BY <1>1 DEF Sent, Rest, Knows, SamePane

\* The next worker in turn becomes the only holder.
LEMMA NextTakes ==
    ASSUME NEW e \in EmitterType, e.s.activated # {}, NEW p \in Pane,
           NEW m \in Message, NEW n \in Nat, NEW w, w = get_rr_w(e.s),
           NEW d, d = NextTold(e, p, m, w, n)
    PROVE  /\ w \in e.s.activated /\ w \in Worker
           /\ Sent(e, d, {w}, m) /\ Rest(e, d, p)
           /\ Knows(d.s, p, n, e.s.pane_size[p], {w})
<1>1. PICK r : r = SendRR(e, m)
  OBVIOUS
<1>2. /\ w \in e.s.activated /\ w \in Worker
      /\ Sent(e, r, {w}, m) /\ Rest(e, r, p)
      /\ Knows(r.s, p, e.s.p_instances[p], e.s.pane_size[p], e.s.holders[p])
  BY <1>1, RoundRobinSends
<1>3. PICK t : t = [r EXCEPT !.s.holders[p] = {w}]
  OBVIOUS
<1>4. r \in EmitterType /\ {w} \in SUBSET Worker
  BY <1>2 DEF Sent
<1>5. Edits(r, t, p, r.s.p_instances[p], r.s.pane_size[p], {w})
  BY <1>3, <1>4, HoldersEdits
<1>6. t \in EmitterType
  BY <1>5 DEF Edits, Rest
<1>7. d = [t EXCEPT !.s.p_instances[p] = n]
  BY <1>1, <1>3 DEF NextTold
<1>8. Edits(t, d, p, n, t.s.pane_size[p], t.s.holders[p])
  BY <1>6, <1>7, NumberEdits
<1>9. Edits(r, d, p, n, r.s.pane_size[p], {w})
  BY <1>5, <1>8 DEF Edits, Rest, SamePane, Knows
<1>10. Sent(e, d, {w}, m)
  <2>1. Opens(e, d, p, m, w)
    BY NextOpens
  <2> QED
    BY <2>1 DEF Opens
<1> QED
  BY <1>2, <1>9, <1>10 DEF Edits, Rest, SamePane, Knows

\* One thing after the other.
LEMMA RestTwice ==
    ASSUME NEW e, NEW c, NEW d, NEW p \in Pane, Rest(e, c, p), Rest(c, d, p)
    PROVE  Rest(e, d, p)
BY DEF Rest, SamePane

\* A worker that is not a holder takes over, or has the first partition.
LEMMA TakerDivides ==
    ASSUME NEW e \in EmitterType, NEW d, NEW p \in Pane, NEW w \in e.s.activated,
           NEW m \in Message, Makes(m, p), m.no_instances = e.s.p_instances[p] + 1,
           e.s.holders[p] \cap e.s.activated = {}, Rest(e, d, p), Sent(e, d, {w}, m),
           Knows(d.s, p, e.s.p_instances[p] + 1,
                 e.s.pane_size[p] + IF m.type = "REGULAR" THEN 1 ELSE 0, {w}),
           strategy = "PB_RR" => d.s.pane_size[p] # 0
    PROVE  Handled(e, d, p)
<1>1. w \in Worker /\ w \notin e.s.holders[p]
  BY DEF EmitterType, Sched
<1>2. /\ d.q[w] = Append(e.q[w], m)
      /\ \A v \in Worker \ {w} : d.q[v] = e.q[v]
  BY <1>1 DEF Sent
<1>3. (e.s.holders[p] \cap e.s.activated) \cup {w} = {w}
  OBVIOUS
<1>4. \A v : v \notin e.s.holders[p] \cap e.s.activated
  OBVIOUS
<1>5. Divides(e, d, p, w, m)
  BY <1>1, <1>2, <1>3, <1>4 DEF Divides
<1> QED
  BY <1>1, <1>5 DEF Handled

\* The pane-based strategy gives a tuple to the holder of its pane.
LEMMA PBHandles ==
    ASSUME strategy = "PB_RR",
           NEW e \in EmitterType, e.s.activated # {}, NEW p \in Pane,
           e.s.holders[p] \subseteq e.s.activated, Tracked(e, p)
    PROVE  Handled(e, PB_sched_to_worker(e, p), p)
<1>1. PICK c : c = [e EXCEPT !.s.n_panes = Larger(@, p + 1), !.s.pane_size[p] = @ + 1]
  OBVIOUS
<1>2. Edits(e, c, p, e.s.p_instances[p], e.s.pane_size[p] + 1, e.s.holders[p])
  BY <1>1, CountEdits
<1>3. /\ Rest(e, c, p) /\ c \in EmitterType /\ c.s.activated = e.s.activated /\ c.q = e.q
      /\ c.s.pane_size[p] = e.s.pane_size[p] + 1
      /\ c.s.p_instances[p] = e.s.p_instances[p] /\ c.s.holders[p] = e.s.holders[p]
      /\ c.s.last_w = e.s.last_w
      /\ c.last_P = e.last_P /\ c.last_timestamp = e.last_timestamp
  BY <1>2 DEF Edits, Rest, Knows
<1>4. PICK d : d = PB_sched_to_worker(e, p)
  OBVIOUS
<1>5. e.s.p_instances[p] \in Nat /\ e.s.pane_size[p] \in Nat
  BY DEF EmitterType, Sched
<1>6. CASE e.s.holders[p] = {}
  <2>1. PICK w : w = get_rr_w(e.s)
    OBVIOUS
  <2>2. PICK m : m = Regular(p, 1)
    BY Zenon
  <2>3. d = NextTold(c, p, m, w, 1)
    BY <1>1, <1>4, <1>6, <2>1, <2>2 DEF PB_sched_to_worker, NextTold
  <2>4. w = get_rr_w(c.s)
    BY <1>3, <2>1, SameChoice
  <2>5. /\ m \in Message /\ m.type = "REGULAR" /\ Makes(m, p)
        /\ m.no_instances = 1
    BY <2>2, MessagesSent DEF Regular, Makes, Making
  <2>6. /\ w \in c.s.activated /\ Sent(c, d, {w}, m) /\ Rest(c, d, p)
        /\ Knows(d.s, p, 1, c.s.pane_size[p], {w})
    <3>1. 1 \in Nat
      OBVIOUS
    <3>2. c.s.activated # {}
      BY <1>3
    <3> QED
      BY ONLY <1>3, <2>3, <2>4, <2>5, <3>1, <3>2, p \in Pane, NextTakes
  <2>7. e.s.p_instances[p] = 0
    BY <1>6 DEF Tracked
  <2>8. Rest(e, d, p)
    BY <1>3, <2>6, RestTwice
  <2>9. Sent(e, d, {w}, m)
    BY <1>3, <2>6 DEF Sent
  <2>10. /\ Knows(d.s, p, e.s.p_instances[p] + 1,
                 e.s.pane_size[p] + IF m.type = "REGULAR" THEN 1 ELSE 0, {w})
         /\ d.s.pane_size[p] # 0
    BY <1>3, <1>5, <2>5, <2>6, <2>7 DEF Knows
  <2>11. m.no_instances = e.s.p_instances[p] + 1 /\ w \in e.s.activated
    BY <1>3, <2>5, <2>6, <2>7
  <2>12. e.s.holders[p] \cap e.s.activated = {}
    BY <1>6
  <2>13. Handled(e, d, p)
    BY <2>5, <2>8, <2>9, <2>10, <2>11, <2>12, TakerDivides
  <2> QED
    BY <1>4, <2>13
<1>7. CASE e.s.holders[p] # {}
  <2>1. PICK w : w = CHOOSE h \in e.s.holders[p] : TRUE
    OBVIOUS
  <2>2. PICK n \in Nat : n = e.s.p_instances[p]
    BY <1>5
  <2>3. PICK m : m = Regular(p, n)
    BY Zenon
  <2>4. d = Send(c, w, m)
    BY <1>1, <1>4, <1>7, <2>1, <2>2, <2>3 DEF PB_sched_to_worker
  <2>5. w \in e.s.holders[p] /\ w \in e.s.activated /\ w \in Worker
    BY <1>7, <2>1 DEF EmitterType, Sched
  <2>6. m \in Message
    BY <2>3, MessagesSent
  <2>7. /\ Sent(c, d, {w}, m) /\ Rest(c, d, p)
        /\ Knows(d.s, p, c.s.p_instances[p], c.s.pane_size[p], c.s.holders[p])
    BY <1>3, <2>4, <2>5, <2>6, WorkerSends
  <2>8. Rest(e, d, p)
    BY <1>3, <2>7, RestTwice
  <2>9. Fills(e, d, p, w)
    BY <1>3, <2>2, <2>3, <2>5, <2>7, <2>8 DEF Fills, Sent, Knows
  <2> QED
    BY <1>4, <2>5, <2>9 DEF Handled
<1> QED
  BY <1>6, <1>7

\* The pane-based strategy gives an open pane to another worker.
LEMMA PBMoves ==
    ASSUME strategy = "PB_RR",
           NEW e \in EmitterType, e.s.activated # {}, NEW p \in Pane, NEW W,
           W \cap e.s.activated = {}, Tracked(e, p)
    PROVE  Handled(e, PB_Repair(e, W, p), p)
<1>1. PICK d : d = PB_Repair(e, W, p)
  OBVIOUS
<1>2. CASE e.s.holders[p] \cap W = {}
  <2>1. d = e
    BY <1>1, <1>2 DEF PB_Repair
  <2> QED
    BY <1>1, <2>1 DEF Handled
<1>3. CASE e.s.holders[p] \cap W # {}
  <2>1. PICK w : w = get_rr_w(e.s)
    OBVIOUS
  <2>2. PICK n : n = e.s.p_instances[p] + 1
    OBVIOUS
  <2>3. PICK m : m = EmptyPane(p, n)
    OBVIOUS
  <2>4. d = NextTold(e, p, m, w, n)
    BY <1>1, <1>3, <2>1, <2>2, <2>3 DEF PB_Repair, NextTold
  <2>5. n \in Nat /\ e.s.pane_size[p] \in Nat
    BY <2>2 DEF EmitterType, Sched
  <2>6. /\ m \in Message /\ m.type = "EMPTYPANE" /\ Makes(m, p)
        /\ m.no_instances = n
    BY <2>3, <2>5, MessagesSent DEF EmptyPane, Makes, Making
  <2>7. /\ w \in e.s.activated /\ Sent(e, d, {w}, m) /\ Rest(e, d, p)
        /\ Knows(d.s, p, n, e.s.pane_size[p], {w})
    BY ONLY <2>1, <2>4, <2>5, <2>6, e \in EmitterType, e.s.activated # {}, p \in Pane,
            NextTakes
  <2>8. e.s.holders[p] \cap e.s.activated = {}
    BY <1>3 DEF Tracked
  <2>9. e.s.pane_size[p] # 0
    BY <1>3 DEF Tracked
  <2>10. /\ Knows(d.s, p, e.s.p_instances[p] + 1,
                 e.s.pane_size[p] + IF m.type = "REGULAR" THEN 1 ELSE 0, {w})
         /\ d.s.pane_size[p] # 0
    BY <2>2, <2>5, <2>6, <2>7, <2>9 DEF Knows
  <2>11. m.no_instances = e.s.p_instances[p] + 1
    BY <2>2, <2>6
  <2>12. Handled(e, d, p)
    BY <2>6, <2>7, <2>8, <2>10, <2>11, TakerDivides
  <2> QED
    BY <1>1, <2>12
<1> QED
  BY <1>2, <1>3

\* The holders that are activated are told that a worker gets a partition.
LEMMA TellersDivide ==
    ASSUME strategy # "PB_RR", NEW e \in EmitterType, NEW d, NEW p \in Pane, NEW H,
           H = e.s.holders[p] \cap e.s.activated,
           NEW w \in e.s.activated, w \notin H,
           NEW m \in Message, Makes(m, p), m.no_instances = e.s.p_instances[p] + 1,
           NEW t, Sent(e, t, H, NewInst(p, e.s.p_instances[p] + 1)), Sent(t, d, {w}, m),
           Rest(e, d, p),
           Knows(d.s, p, e.s.p_instances[p] + 1,
                 e.s.pane_size[p] + IF m.type = "REGULAR" THEN 1 ELSE 0, H \cup {w})
    PROVE  Handled(e, d, p)
<1>1. w \in Worker /\ w \notin e.s.holders[p]
  BY DEF EmitterType, Sched
<1>2. PICK a : a = NewInst(p, e.s.p_instances[p] + 1)
  OBVIOUS
<1>3. d.q[w] = Append(e.q[w], m)
  BY <1>1 DEF Sent
<1>4. \A v \in Worker \ {w} : d.q[v] = IF v \in H THEN Append(e.q[v], a) ELSE e.q[v]
  BY <1>2 DEF Sent
<1>5. Divides(e, d, p, w, m)
  BY <1>1, <1>2, <1>3, <1>4 DEF Divides
<1> QED
  BY <1>1, <1>5 DEF Handled

\* The tuple-based strategy gives a tuple to the next worker in turn.
LEMMA TBHandles ==
    ASSUME strategy = "TB_RR",
           NEW e \in EmitterType, e.s.activated # {}, NEW p \in Pane,
           e.s.holders[p] \subseteq e.s.activated
    PROVE  Handled(e, TB_sched_to_worker(e, p), p)
<1>1. PICK c : c = [e EXCEPT !.s.n_panes = Larger(@, p + 1), !.s.pane_size[p] = @ + 1]
  OBVIOUS
<1>2. Edits(e, c, p, e.s.p_instances[p], e.s.pane_size[p] + 1, e.s.holders[p])
  BY <1>1, CountEdits
<1>3. /\ Rest(e, c, p) /\ c \in EmitterType /\ c.s.activated = e.s.activated /\ c.q = e.q
      /\ c.s.pane_size[p] = e.s.pane_size[p] + 1
      /\ c.s.p_instances[p] = e.s.p_instances[p] /\ c.s.holders[p] = e.s.holders[p]
      /\ c.s.last_w = e.s.last_w /\ c.s.activated # {}
      /\ c.last_P = e.last_P /\ c.last_timestamp = e.last_timestamp
  BY <1>2 DEF Edits, Rest, Knows
<1>4. PICK d : d = TB_sched_to_worker(e, p)
  OBVIOUS
<1>5. e.s.p_instances[p] \in Nat /\ e.s.pane_size[p] \in Nat /\ e.s.holders[p] \in SUBSET Worker
  BY DEF EmitterType, Sched
<1>6. PICK w : w = get_rr_w(e.s)
  OBVIOUS
<1>7. w = get_rr_w(c.s)
  BY <1>3, <1>6, SameChoice
<1>8. w \in e.s.activated /\ w \in Worker
  <2>1. PICK a : a = END
    OBVIOUS
  <2>2. a \in Message
    BY <2>1, MessagesSent
  <2> QED
    BY <1>6, <2>2, RoundRobinSends
<1>9. CASE w \in e.s.holders[p]
  <2>1. PICK n \in Nat : n = e.s.p_instances[p]
    BY <1>5
  <2>2. PICK m : m = Regular(p, n)
    BY Zenon
  <2>3. d = SendRR(c, m)
    BY <1>1, <1>4, <1>6, <1>9, <2>1, <2>2 DEF TB_sched_to_worker
  <2>4. m \in Message
    BY <2>2, MessagesSent
  <2>5. /\ Sent(c, d, {w}, m) /\ Rest(c, d, p)
        /\ Knows(d.s, p, c.s.p_instances[p], c.s.pane_size[p], c.s.holders[p])
    BY <1>3, <1>7, <2>3, <2>4, RoundRobinSends
  <2>6. Rest(e, d, p)
    BY <1>3, <2>5, RestTwice
  <2>7. Fills(e, d, p, w)
    BY <1>3, <1>8, <1>9, <2>1, <2>2, <2>5, <2>6 DEF Fills, Sent, Knows
  <2> QED
    BY <1>4, <1>8, <2>7 DEF Handled
<1>10. CASE w \notin e.s.holders[p]
  <2>1. PICK n : n = e.s.p_instances[p] + 1
    OBVIOUS
  <2>2. PICK m : m = Regular(p, n)
    BY Zenon
  <2>3. n \in Nat
    BY <1>5, <2>1
  <2>4. m \in Message /\ m.type = "REGULAR" /\ Makes(m, p) /\ m.no_instances = n
    BY <2>2, <2>3, MessagesSent DEF Regular, Makes, Making
  <2>5. PICK H \in SUBSET Worker : H = e.s.holders[p]
    BY <1>5
  <2>6. PICK a : a = NewInst(p, n)
    OBVIOUS
  <2>7. PICK t : t = Multicast(c, H, a)
    OBVIOUS
  <2>8. a \in Message
    BY <2>3, <2>6, MessagesSent
  <2>9. Sent(c, t, H, a) /\ t.s = c.s
    BY <1>3, <2>7, <2>8, MulticastEffect
  <2>10. t \in EmitterType
    BY <2>9 DEF Sent
  <2>11. PICK u : u = [t EXCEPT !.s.p_instances[p] = n]
    OBVIOUS
  <2>12. Edits(t, u, p, n, t.s.pane_size[p], t.s.holders[p])
    BY ONLY p \in Pane, <2>3, <2>10, <2>11, NumberEdits
  <2>13. u \in EmitterType
    BY <2>12 DEF Edits, Rest
  <2>14. PICK G \in SUBSET Worker : G = H \cup {w}
    BY <1>8
  <2>15. PICK v : v = [u EXCEPT !.s.holders[p] = G]
    OBVIOUS
  <2>16. Edits(u, v, p, u.s.p_instances[p], u.s.pane_size[p], G)
    BY <2>13, <2>15, HoldersEdits
  <2>17. Edits(t, v, p, n, t.s.pane_size[p], G)
    <3>1. u.s.p_instances[p] = n /\ u.s.pane_size[p] = t.s.pane_size[p]
      BY <2>12 DEF Edits, Knows
    <3>2. Edits(u, v, p, n, t.s.pane_size[p], G)
      BY <2>16, <3>1
    <3> QED
      BY ONLY p \in Pane, <2>12, <3>2, EditsTwice
  <2>18. /\ v \in EmitterType /\ v.s.activated = t.s.activated /\ v.s.last_w = t.s.last_w
         /\ Rest(t, v, p) /\ Knows(v.s, p, n, t.s.pane_size[p], G) /\ v.q = t.q
         /\ v.last_P = t.last_P /\ v.last_timestamp = t.last_timestamp
    BY <2>17 DEF Edits, Rest
  <2>19. d = SendRR(v, m)
    <3>1. v = [t EXCEPT !.s.p_instances[p] = n, !.s.holders[p] = @ \cup {w}]
      <4>1. u.s.holders[p] = H
        BY <1>3, <2>5, <2>9, <2>12 DEF Edits, Knows
      <4> QED
        BY <2>11, <2>14, <2>15, <4>1
    <3> QED
      BY <1>1, <1>4, <1>6, <1>10, <2>1, <2>2, <2>5, <2>6, <2>7, <3>1
         DEF TB_sched_to_worker
  <2>20. w = get_rr_w(v.s)
    BY <1>7, <2>9, <2>18, SameChoice
  <2>21. /\ Sent(v, d, {w}, m) /\ Rest(v, d, p)
         /\ Knows(d.s, p, v.s.p_instances[p], v.s.pane_size[p], v.s.holders[p])
    <3>1. v.s.activated # {}
      BY <1>3, <2>9, <2>18
    <3> QED
      BY ONLY p \in Pane, <2>4, <2>18, <2>19, <2>20, <3>1, RoundRobinSends
  <2>22. Sent(t, d, {w}, m)
    BY <2>18, <2>21 DEF Sent
  <2>23. Sent(e, t, H, a)
    BY <1>3, <2>9 DEF Sent
  <2>24. Rest(e, d, p)
    <3>1. Rest(t, d, p)
      BY <2>18, <2>21, RestTwice
    <3>2. Rest(c, d, p)
      BY <2>9, <3>1 DEF Rest, SamePane
    <3> QED
      BY <1>3, <3>2, RestTwice
  <2>25. Knows(d.s, p, n, e.s.pane_size[p] + IF m.type = "REGULAR" THEN 1 ELSE 0, H \cup {w})
    BY <1>3, <2>4, <2>9, <2>14, <2>18, <2>21 DEF Knows
  <2>26. H = e.s.holders[p] \cap e.s.activated /\ w \notin H
    BY <1>10, <2>5
  <2>27. Handled(e, d, p)
    BY <1>8, <2>1, <2>4, <2>6, <2>22, <2>23, <2>24, <2>25, <2>26, TellersDivide
  <2> QED
    BY <1>4, <2>27
<1> QED
  BY <1>9, <1>10

\* The holders of a pane that are not activated are forgotten.
LEMMA Forgetting ==
    ASSUME strategy # "PB_RR", NEW e \in EmitterType, NEW p \in Pane, NEW live,
           live = e.s.holders[p] \cap e.s.activated, live # {},
           NEW d, Edits(e, d, p, e.s.p_instances[p], e.s.pane_size[p], live)
    PROVE  Handled(e, d, p)
BY DEF Edits, Forgets, Handled

\* The tuple-based strategy only moves a pane that has lost all its holders.
LEMMA TBMoves ==
    ASSUME strategy = "TB_RR",
           NEW e \in EmitterType, e.s.activated # {}, NEW p \in Pane, NEW W
    PROVE  Handled(e, TB_Repair(e, W, p), p)
<1>1. PICK d : d = TB_Repair(e, W, p)
  OBVIOUS
<1>2. PICK live \in SUBSET Worker : live = e.s.holders[p] \cap e.s.activated
  BY DEF EmitterType, Sched
<1>3. CASE live # {}
  <2>1. d = [e EXCEPT !.s.holders[p] = live]
    BY <1>1, <1>2, <1>3 DEF TB_Repair
  <2>2. Edits(e, d, p, e.s.p_instances[p], e.s.pane_size[p], live)
    BY <2>1, HoldersEdits
  <2>3. Handled(e, d, p)
    BY <1>2, <1>3, <2>2, Forgetting
  <2> QED
    BY <1>1, <2>3
<1>4. CASE live = {}
  <2>1. PICK w : w = get_rr_w(e.s)
    OBVIOUS
  <2>2. PICK n : n = e.s.p_instances[p] + 1
    OBVIOUS
  <2>3. PICK m : m = EmptyPane(p, n)
    OBVIOUS
  <2>4. d = NextTold(e, p, m, w, n)
    BY <1>1, <1>2, <1>4, <2>1, <2>2, <2>3 DEF TB_Repair, NextTold
  <2>5. n \in Nat /\ e.s.pane_size[p] \in Nat
    BY <2>2 DEF EmitterType, Sched
  <2>6. /\ m \in Message /\ m.type = "EMPTYPANE" /\ Makes(m, p)
        /\ m.no_instances = n
    BY <2>3, <2>5, MessagesSent DEF EmptyPane, Makes, Making
  <2>7. /\ w \in e.s.activated /\ Sent(e, d, {w}, m) /\ Rest(e, d, p)
        /\ Knows(d.s, p, n, e.s.pane_size[p], {w})
    BY ONLY <2>1, <2>4, <2>5, <2>6, e \in EmitterType, e.s.activated # {}, p \in Pane,
            NextTakes
  <2>8. Knows(d.s, p, e.s.p_instances[p] + 1,
              e.s.pane_size[p] + IF m.type = "REGULAR" THEN 1 ELSE 0, {w})
    BY <2>2, <2>5, <2>6, <2>7 DEF Knows
  <2>9. Handled(e, d, p)
    BY <1>2, <1>4, <2>2, <2>6, <2>7, <2>8, TakerDivides
  <2> QED
    BY <1>1, <2>9
<1> QED
  BY <1>3, <1>4

\* The active partition of a pane changes: nothing else does.
LEMMA ActivateEdits ==
    ASSUME NEW e \in EmitterType, NEW p \in Pane, NEW w \in Worker,
           NEW d, d = Activate(e, p, w)
    PROVE  /\ d \in EmitterType /\ d.q = e.q /\ Rest(e, d, p)
           /\ d.last_P = e.last_P /\ d.last_timestamp = e.last_timestamp
           /\ Knows(d.s, p, e.s.p_instances[p], e.s.pane_size[p], e.s.holders[p])
<1>1. Activates(e, d, p, w)
  BY ActivateEffect
<1> QED
  BY <1>1 DEF Activates, Elsewhere, Rest, Knows, SamePane

\* A worker becomes a holder and the number of the partitions is set.
LEMMA JoinEdits ==
    ASSUME NEW e \in EmitterType, NEW p \in Pane, NEW w \in Worker, NEW n \in Nat,
           NEW d, d = [e EXCEPT !.s.p_instances[p] = n, !.s.holders[p] = @ \cup {w}]
    PROVE  Edits(e, d, p, n, e.s.pane_size[p], e.s.holders[p] \cup {w})
<1>1. PICK t : t = [e EXCEPT !.s.p_instances[p] = n]
  OBVIOUS
<1>2. Edits(e, t, p, n, e.s.pane_size[p], e.s.holders[p])
  BY <1>1, NumberEdits
<1>3. t \in EmitterType /\ t.s.holders[p] = e.s.holders[p]
  BY <1>2 DEF Edits, Rest, Knows
<1>4. PICK G : G = e.s.holders[p] \cup {w}
  OBVIOUS
<1>5. G \in SUBSET Worker
  BY <1>4 DEF EmitterType, Sched
<1>6. d = [t EXCEPT !.s.holders[p] = G]
  BY <1>1, <1>3, <1>4
<1>7. Edits(t, d, p, t.s.p_instances[p], t.s.pane_size[p], G)
  BY ONLY p \in Pane, <1>3, <1>5, <1>6, HoldersEdits
<1>8. Edits(t, d, p, n, e.s.pane_size[p], G)
  BY <1>2, <1>7 DEF Edits, Knows
<1>9. Edits(e, d, p, n, e.s.pane_size[p], G)
  BY ONLY p \in Pane, <1>2, <1>8, EditsTwice
<1> QED
  BY <1>4, <1>9

\* The holders are told the new number n with message b, and worker w gets m.
SplitDoes(e, d, p, w, type) ==
    \E n, m, H, b, t :
        /\ n = e.s.p_instances[p] + 1 /\ H = e.s.holders[p] /\ b = NewInst(p, n)
        /\ Sent(e, t, H, b) /\ Sent(t, d, {w}, m) /\ Rest(e, d, p)
        /\ m \in Message /\ m.type = type /\ Makes(m, p) /\ m.no_instances = n
        /\ Knows(d.s, p, n, e.s.pane_size[p], H \cup {w})

\* Split gives a worker another partition of the pane.
LEMMA SplitMakes ==
    ASSUME NEW e \in EmitterType, NEW p \in Pane, NEW w \in Worker, NEW type \in Making,
           NEW d, d = Split(e, p, w, type)
    PROVE  SplitDoes(e, d, p, w, type)
<1>1. PICK n : n = e.s.p_instances[p] + 1
  OBVIOUS
<1>2. n \in Nat
  BY <1>1 DEF EmitterType, Sched
<1>3. PICK m : m = IF type = "REGULAR" THEN Regular(p, n) ELSE EmptyPane(p, n)
  OBVIOUS
<1>4. m \in Message /\ m.type = type /\ Makes(m, p) /\ m.no_instances = n
  <2>1. CASE type = "REGULAR"
    <3>1. m = Regular(p, n)
      BY <1>3, <2>1
    <3> QED
      BY <1>2, <2>1, <3>1, MessagesSent DEF Regular, Making, Makes
  <2>2. CASE type # "REGULAR"
    <3>1. m = EmptyPane(p, n) /\ type = "EMPTYPANE"
      BY <1>3, <2>2 DEF Making
    <3> QED
      BY <1>2, <3>1, MessagesSent DEF EmptyPane, Making, Makes
  <2> QED
    BY <2>1, <2>2
<1>5. PICK H : H = e.s.holders[p]
  OBVIOUS
<1>6. PICK a : a = NewInst(p, n)
  OBVIOUS
<1>7. PICK t : t = Multicast(e, H, a)
  OBVIOUS
<1>8. a \in Message
  BY <1>2, <1>6, MessagesSent
<1>9. Sent(e, t, H, a) /\ t.s = e.s
  BY <1>7, <1>8, MulticastEffect
<1>10. t \in EmitterType
  BY <1>9 DEF Sent
<1>11. PICK u : u = Send(t, w, m)
  OBVIOUS
<1>12. Sent(t, u, {w}, m) /\ u.s = t.s
  BY <1>4, <1>10, <1>11, SendEffect
<1>13. u \in EmitterType
  BY <1>12 DEF Sent
<1>14. d = [u EXCEPT !.s.p_instances[p] = n, !.s.holders[p] = @ \cup {w}]
  BY <1>1, <1>3, <1>5, <1>6, <1>7, <1>11 DEF Split
<1>15. Edits(u, d, p, n, u.s.pane_size[p], u.s.holders[p] \cup {w})
  BY ONLY p \in Pane, w \in Worker, <1>2, <1>13, <1>14, JoinEdits
<1>16. Edits(u, d, p, n, e.s.pane_size[p], H \cup {w})
  BY <1>5, <1>9, <1>12, <1>15
<1>17. Sent(t, d, {w}, m)
  BY <1>12, <1>16 DEF Sent, Edits, Rest
<1>18. Rest(e, d, p) /\ Knows(d.s, p, n, e.s.pane_size[p], H \cup {w})
  BY <1>9, <1>12, <1>16 DEF Edits, Rest, SamePane
<1> QED
  BY ONLY <1>1, <1>4, <1>5, <1>6, <1>9, <1>17, <1>18 DEF SplitDoes

\* The adaptive strategy splits the large partitions.
LEMMA ADHandles ==
    ASSUME Adaptive, NEW e \in EmitterType, NEW p \in Pane, Due(e, p, {}), Tracked(e, p),
           e.s.holders[p] # {} /\ e.s.pane_size[p] = 0 => p \in openedEmpty,
           NEW w \in e.s.activated, NEW large
    PROVE  Handled(e, AD_sched_to_worker(e, p, large, w), p)
<1>1. PICK c : c = [e EXCEPT !.s.n_panes = Larger(@, p + 1), !.s.pane_size[p] = @ + 1]
  OBVIOUS
<1>2. Edits(e, c, p, e.s.p_instances[p], e.s.pane_size[p] + 1, e.s.holders[p])
  BY <1>1, CountEdits
<1>3. /\ Rest(e, c, p) /\ c \in EmitterType /\ c.s.activated = e.s.activated /\ c.q = e.q
      /\ c.s.pane_size[p] = e.s.pane_size[p] + 1
      /\ c.s.p_instances[p] = e.s.p_instances[p] /\ c.s.holders[p] = e.s.holders[p]
      /\ c.last_P = e.last_P /\ c.last_timestamp = e.last_timestamp
  BY <1>2 DEF Edits, Rest, Knows
<1>4. /\ e.s.p_instances[p] \in Nat /\ e.s.pane_size[p] \in Nat
      /\ e.s.holders[p] \in SUBSET Worker /\ w \in Worker
  BY DEF EmitterType, Sched
<1>5. PICK a : a = Activate(c, p, w)
  OBVIOUS
<1>6. /\ a \in EmitterType /\ a.q = c.q /\ Rest(c, a, p)
      /\ a.last_P = c.last_P /\ a.last_timestamp = c.last_timestamp
      /\ Knows(a.s, p, c.s.p_instances[p], c.s.pane_size[p], c.s.holders[p])
  BY <1>3, <1>4, <1>5, ActivateEdits
<1>7. /\ a.q = e.q /\ Rest(e, a, p)
      /\ a.last_P = e.last_P /\ a.last_timestamp = e.last_timestamp
      /\ a.s.p_instances[p] = e.s.p_instances[p] /\ a.s.holders[p] = e.s.holders[p]
      /\ a.s.pane_size[p] = e.s.pane_size[p] + 1
  BY <1>3, <1>6, RestTwice DEF Knows
<1>8. PICK d : d = AD_sched_to_worker(e, p, large, w)
  OBVIOUS
<1>9. e.s.holders[p] \subseteq e.s.activated /\ ActiveInv(e.s, p) /\ strategy # "PB_RR"
  BY DEF Due, Adaptive
<1>10. CASE e.s.pane_size[p] = 0
  <2>1. PICK m : m = Regular(p, 1)
    BY Zenon
  <2>2. m \in Message /\ m.type = "REGULAR" /\ Makes(m, p) /\ m.no_instances = 1
    BY <2>1, MessagesSent DEF Regular, Makes, Making
  <2>3. PICK s : s = Send(a, w, m)
    OBVIOUS
  <2>4. Sent(a, s, {w}, m) /\ s.s = a.s
    BY <1>4, <1>6, <2>2, <2>3, SendEffect
  <2>5. s \in EmitterType
    BY <2>4 DEF Sent
  <2>6. d = [s EXCEPT !.s.p_instances[p] = 1, !.s.holders[p] = @ \cup {w}]
    BY <1>1, <1>5, <1>8, <1>10, <2>1, <2>3 DEF AD_sched_to_worker
  <2>7. Edits(s, d, p, 1, s.s.pane_size[p], s.s.holders[p] \cup {w})
    <3>1. 1 \in Nat
      OBVIOUS
    <3> QED
      BY ONLY p \in Pane, <1>4, <2>5, <2>6, <3>1, JoinEdits
  <2>8. Edits(s, d, p, 1, e.s.pane_size[p] + 1, e.s.holders[p] \cup {w})
    BY <1>7, <2>4, <2>7
  <2>9. Sent(e, d, {w}, m)
    BY <1>7, <2>4, <2>8 DEF Sent, Edits, Rest
  <2>10. Rest(e, d, p)
    <3>1. Rest(a, d, p)
      BY <2>4, <2>8 DEF Edits, Rest, SamePane
    <3> QED
      BY <1>7, <3>1, RestTwice
  <2>11. Knows(d.s, p, 1, e.s.pane_size[p] + 1, e.s.holders[p] \cup {w})
    BY <2>8 DEF Edits
  <2>12. CASE e.s.holders[p] = {}
    <3>1. e.s.p_instances[p] = 0
      BY <2>12 DEF Tracked
    <3>2. Knows(d.s, p, e.s.p_instances[p] + 1,
                e.s.pane_size[p] + IF m.type = "REGULAR" THEN 1 ELSE 0, {w})
      BY <2>2, <2>11, <2>12, <3>1 DEF Knows
    <3>3. m.no_instances = e.s.p_instances[p] + 1
      BY <2>2, <3>1
    <3>4. Handled(e, d, p)
      BY <1>9, <2>2, <2>9, <2>10, <2>12, <3>2, <3>3, TakerDivides
    <3> QED
      BY <1>8, <3>4
  <2>13. CASE e.s.holders[p] # {}
    <3>1. p \in openedEmpty
      BY <1>10, <2>13
    <3>2. Restarts(e, d, p, w)
      BY <2>1, <2>9, <2>10, <2>11, <3>1 DEF Restarts
    <3> QED
      BY <1>4, <1>8, <3>2 DEF Handled
  <2> QED
    BY <2>12, <2>13
<1>11. CASE e.s.pane_size[p] # 0 /\ (~large \/ e.s.warmup)
  <2>1. PICK n \in Nat : n = e.s.p_instances[p]
    BY <1>4
  <2>2. PICK m : m = Regular(p, n)
    BY Zenon
  <2>3. m \in Message
    BY <2>2, MessagesSent
  <2>4. PICK v : v = e.s.a_worker[p]
    OBVIOUS
  <2>5. v \in e.s.holders[p] /\ v \in e.s.activated /\ v \in Worker
    <3>1. e.s.pane_size[p] > 0
      BY <1>4, <1>11
    <3> QED
      BY <1>4, <1>9, <2>4, <3>1 DEF ActiveInv
  <2>6. d = Send(c, v, m)
    BY <1>1, <1>8, <1>11, <2>1, <2>2, <2>4 DEF AD_sched_to_worker
  <2>7. /\ Sent(c, d, {v}, m) /\ Rest(c, d, p)
        /\ Knows(d.s, p, c.s.p_instances[p], c.s.pane_size[p], c.s.holders[p])
    BY <1>3, <2>3, <2>5, <2>6, WorkerSends
  <2>8. Rest(e, d, p)
    BY <1>3, <2>7, RestTwice
  <2>9. Fills(e, d, p, v)
    BY <1>3, <2>1, <2>2, <2>5, <2>7, <2>8 DEF Fills, Sent, Knows
  <2> QED
    BY <1>8, <2>5, <2>9 DEF Handled
<1>12. CASE e.s.pane_size[p] # 0 /\ ~(~large \/ e.s.warmup) /\ w \in e.s.holders[p]
  <2>1. PICK n \in Nat : n = e.s.p_instances[p]
    BY <1>4
  <2>2. PICK m : m = Regular(p, n)
    BY Zenon
  <2>3. m \in Message
    BY <2>2, MessagesSent
  <2>4. d = Send(a, w, m)
    BY <1>1, <1>5, <1>8, <1>12, <2>1, <2>2 DEF AD_sched_to_worker
  <2>5. /\ Sent(a, d, {w}, m) /\ Rest(a, d, p)
        /\ Knows(d.s, p, a.s.p_instances[p], a.s.pane_size[p], a.s.holders[p])
    BY <1>4, <1>6, <2>3, <2>4, WorkerSends
  <2>6. Rest(e, d, p)
    BY <1>7, <2>5, RestTwice
  <2>7. Fills(e, d, p, w)
    BY <1>7, <1>12, <2>1, <2>2, <2>5, <2>6 DEF Fills, Sent, Knows
  <2> QED
    BY <1>4, <1>8, <2>7 DEF Handled
<1>13. CASE e.s.pane_size[p] # 0 /\ ~(~large \/ e.s.warmup) /\ w \notin e.s.holders[p]
  <2> PICK type : type = "REGULAR"
    OBVIOUS
  <2>1. d = Split(a, p, w, type) /\ type \in Making
    BY <1>1, <1>5, <1>8, <1>13 DEF AD_sched_to_worker, Making
  <2>2. SplitDoes(a, d, p, w, type)
    <3>1. w \in Worker /\ a \in EmitterType
      BY <1>4, <1>6
    <3> QED
      BY <2>1, <3>1, SplitMakes
  <2>3. PICK n, m, H, b, t :
            /\ n = a.s.p_instances[p] + 1 /\ H = a.s.holders[p] /\ b = NewInst(p, n)
            /\ Sent(a, t, H, b) /\ Sent(t, d, {w}, m) /\ Rest(a, d, p)
            /\ m \in Message /\ m.type = type /\ Makes(m, p) /\ m.no_instances = n
            /\ Knows(d.s, p, n, a.s.pane_size[p], H \cup {w})
    BY ONLY <2>2 DEF SplitDoes
  <2>8. Sent(e, t, H, b)
    BY <1>7, <2>3 DEF Sent
  <2>9. H = e.s.holders[p] \cap e.s.activated /\ w \notin H /\ n = e.s.p_instances[p] + 1
    BY <1>7, <1>9, <1>13, <2>3
  <2>10. Rest(e, d, p)
    BY <1>7, <2>3, RestTwice
  <2>11. Knows(d.s, p, n, e.s.pane_size[p] + IF m.type = "REGULAR" THEN 1 ELSE 0, H \cup {w})
    BY <1>7, <2>3
  <2>12. Handled(e, d, p)
    BY <1>9, <2>3, <2>8, <2>9, <2>10, <2>11, TellersDivide
  <2> QED
    BY <1>8, <2>12
<1> QED
  BY <1>10, <1>11, <1>12, <1>13

\* The adaptive strategy replaces an active partition that is lost.
LEMMA ADMoves ==
    ASSUME Adaptive, NEW e \in EmitterType, NEW p \in Pane, NEW w \in e.s.activated
    PROVE  Handled(e, AD_Repair(e, p, w), p)
<1>1. PICK d : d = AD_Repair(e, p, w)
  OBVIOUS
<1>2. PICK live \in SUBSET Worker : live = e.s.holders[p] \cap e.s.activated
  BY DEF EmitterType, Sched
<1>3. PICK k : k = [e EXCEPT !.s.holders[p] = live]
  OBVIOUS
<1>4. PICK lost : lost = (live = {} \/ e.s.a_worker[p] \notin e.s.activated)
  OBVIOUS
<1>5. d = IF ~lost THEN k ELSE IF w \in live THEN Activate(k, p, w)
          ELSE Split(Activate(k, p, w), p, w, "EMPTYPANE")
  BY <1>1, <1>2, <1>3, <1>4 DEF AD_Repair, Live, ActiveLost
<1>6. w \in Worker /\ strategy # "PB_RR" /\ e.s.pane_size[p] \in Nat
  BY DEF EmitterType, Sched, Adaptive
<1>7. Edits(e, k, p, e.s.p_instances[p], e.s.pane_size[p], live)
  BY <1>3, HoldersEdits
<1>8. k \in EmitterType
  BY <1>7 DEF Edits, Rest
<1>9. PICK a : a = Activate(k, p, w)
  OBVIOUS
<1>10. /\ a \in EmitterType /\ a.q = k.q /\ Rest(k, a, p)
       /\ a.last_P = k.last_P /\ a.last_timestamp = k.last_timestamp
       /\ Knows(a.s, p, k.s.p_instances[p], k.s.pane_size[p], k.s.holders[p])
  BY <1>6, <1>8, <1>9, ActivateEdits
<1>11. /\ a.q = e.q /\ Rest(e, a, p)
       /\ a.last_P = e.last_P /\ a.last_timestamp = e.last_timestamp
       /\ Knows(a.s, p, e.s.p_instances[p], e.s.pane_size[p], live)
  BY <1>7, <1>10, RestTwice DEF Edits, Knows
<1>12. CASE ~lost
  <2>1. d = k /\ live # {}
    BY <1>4, <1>5, <1>12
  <2>2. Handled(e, k, p)
    BY <1>2, <1>6, <1>7, <2>1, Forgetting
  <2> QED
    BY <1>1, <2>1, <2>2
<1>13. CASE lost /\ w \in live
  <2>1. d = a /\ live # {}
    BY <1>5, <1>9, <1>13
  <2>2. Forgets(e, a, p)
    BY <1>2, <1>6, <1>11, <2>1 DEF Forgets
  <2> QED
    BY <1>1, <2>1, <2>2 DEF Handled
<1>14. CASE lost /\ w \notin live
  <2> PICK type : type = "EMPTYPANE"
    OBVIOUS
  <2>1. d = Split(a, p, w, type) /\ type \in Making /\ type # "REGULAR"
    BY <1>5, <1>9, <1>14 DEF Making
  <2>2. SplitDoes(a, d, p, w, type)
    BY <1>6, <1>10, <2>1, SplitMakes
  <2>3. PICK n, m, H, b, t :
            /\ n = a.s.p_instances[p] + 1 /\ H = a.s.holders[p] /\ b = NewInst(p, n)
            /\ Sent(a, t, H, b) /\ Sent(t, d, {w}, m) /\ Rest(a, d, p)
            /\ m \in Message /\ m.type = type /\ Makes(m, p) /\ m.no_instances = n
            /\ Knows(d.s, p, n, a.s.pane_size[p], H \cup {w})
    BY ONLY <2>2 DEF SplitDoes
  <2>8. Sent(e, t, H, b)
    BY <1>11, <2>3 DEF Sent
  <2>9. H = e.s.holders[p] \cap e.s.activated /\ w \notin H /\ n = e.s.p_instances[p] + 1
    BY <1>2, <1>11, <1>14, <2>3 DEF Knows
  <2>10. Rest(e, d, p)
    BY <1>11, <2>3, RestTwice
  <2>11. Knows(d.s, p, n, e.s.pane_size[p] + IF m.type = "REGULAR" THEN 1 ELSE 0, H \cup {w})
    BY <1>6, <1>11, <2>1, <2>3 DEF Knows
  <2>12. Handled(e, d, p)
    BY <1>6, <2>3, <2>8, <2>9, <2>10, <2>11, TellersDivide
  <2> QED
    BY <1>1, <2>12
<1> QED
  BY <1>12, <1>13, <1>14

\* A tuple of an open pane is scheduled.
LEMMA ScheduleHandles ==
    ASSUME strategy \in {"PB_RR", "TB_RR", "ADAPTIVE"},
           NEW e \in EmitterType, e.s.activated # {}, NEW p \in Pane, Due(e, p, {}),
           Tracked(e, p),
           Adaptive /\ e.s.holders[p] # {} /\ e.s.pane_size[p] = 0 => p \in openedEmpty,
           NEW large, NEW llw, Adaptive => llw \in e.s.activated
    PROVE  Handled(e, sched_to_worker(e, p, large, llw), p)
<1>1. e.s.holders[p] \subseteq e.s.activated
  BY DEF Due
<1>2. CASE strategy = "PB_RR"
  <2>1. sched_to_worker(e, p, large, llw) = PB_sched_to_worker(e, p)
    BY <1>2 DEF sched_to_worker, Adaptive
  <2> QED
    BY <1>1, <1>2, <2>1, PBHandles
<1>3. CASE strategy = "TB_RR"
  <2>1. sched_to_worker(e, p, large, llw) = TB_sched_to_worker(e, p)
    BY <1>3 DEF sched_to_worker, Adaptive
  <2> QED
    BY <1>1, <1>3, <2>1, TBHandles
<1>4. CASE Adaptive
  <2>1. sched_to_worker(e, p, large, llw) = AD_sched_to_worker(e, p, large, llw)
    BY <1>4 DEF sched_to_worker, Adaptive
  <2> QED
    BY <1>4, <2>1, ADHandles
<1> QED
  BY <1>2, <1>3, <1>4 DEF Adaptive

\* A pane is repaired after the workers W were removed.
LEMMA RepairHandles ==
    ASSUME strategy \in {"PB_RR", "TB_RR", "ADAPTIVE"},
           NEW e \in EmitterType, e.s.activated # {}, NEW p \in Pane, NEW W,
           W \cap e.s.activated = {}, Tracked(e, p),
           NEW llw, Adaptive => llw \in e.s.activated
    PROVE  Handled(e, Repair(e, W, p, llw), p)
<1>1. CASE strategy = "PB_RR"
  <2>1. Repair(e, W, p, llw) = PB_Repair(e, W, p)
    BY <1>1 DEF Repair, Adaptive
  <2> QED
    BY <1>1, <2>1, PBMoves
<1>2. CASE strategy = "TB_RR"
  <2>1. Repair(e, W, p, llw) = TB_Repair(e, W, p)
    BY <1>2 DEF Repair, Adaptive
  <2> QED
    BY <1>2, <2>1, TBMoves
<1>3. CASE Adaptive
  <2>1. Repair(e, W, p, llw) = AD_Repair(e, p, llw)
    BY <1>3 DEF Repair, Adaptive
  <2> QED
    BY <1>3, <2>1, ADMoves
<1> QED
  BY <1>1, <1>2, <1>3 DEF Adaptive

-----------------------------------------------------------------------------
(* The accounts along the stream                                           *)

\* A tuple of an open pane is scheduled.
LEMMA ScheduleAccounts ==
    ASSUME StageInv, strategy \in {"PB_RR", "TB_RR", "ADAPTIVE"},
           NEW e, EmitterInv(e, FALSE), AccountsUpTo(e, e.s.next_pane_id),
           NEW p \in Pane, p >= e.s.next_pane_id, iop => p = e.s.next_pane_id,
           Adaptive /\ e.s.holders[p] # {} /\ e.s.pane_size[p] = 0 => p \in openedEmpty,
           NEW large, NEW llw, Adaptive => llw \in e.s.activated,
           NEW d, d = sched_to_worker(e, p, large, llw)
    PROVE  AccountsUpTo(d, d.s.next_pane_id)
<1>1. /\ e \in EmitterType /\ QueuesInv(e, FALSE) /\ e.s.activated # {}
      /\ Due(e, p, {})
  BY DEF EmitterInv, SchedInv, Due, PaneInv
<1>2. QueuesInv(d, FALSE)
  <2>1. LET s == sched_to_worker(e, p, large, llw)
        IN EmitterInv(s, FALSE) /\ s.s.activated = e.s.activated
    BY ScheduleKeeps
  <2> QED
    BY <2>1 DEF EmitterInv
<1>3. Tracked(e, p)
  <2>1. Account(e, p, p < e.s.next_pane_id, FALSE)
    BY DEF AccountsUpTo
  <2>2. ~(p < e.s.next_pane_id)
    <3>1. PICK next : next = e.s.next_pane_id
      OBVIOUS
    <3>2. next \in Nat /\ p \in Nat /\ p >= next
      BY <1>1, <3>1, WorkersAreNumbers DEF EmitterType, Sched
    <3> QED
      BY <3>1, <3>2
  <2> QED
    BY <2>1, <2>2 DEF Account
<1>4. Handled(e, d, p)
  BY <1>1, <1>3, ScheduleHandles
<1> QED
  BY <1>1, <1>2, <1>4, HandledAccounts

\* Out of order: a punctuation, which may be broadcast.
LEMMA ProgressedAccounts ==
    ASSUME StageInv, ~iop, NEW e, EmitterInv(e, FALSE), AccountsUpTo(e, e.s.next_pane_id),
           NEW punct \in Timestamp \cup {NoPunct}, NEW elapsed
    PROVE  LET d == Progressed(e, punct, elapsed)
           IN /\ AccountsUpTo(d, d.s.next_pane_id)
              /\ d.s.holders = e.s.holders /\ d.s.pane_size = e.s.pane_size
<1> SUFFICES ASSUME NEW d, d = Progressed(e, punct, elapsed)
             PROVE  /\ AccountsUpTo(d, d.s.next_pane_id)
                    /\ d.s.holders = e.s.holders /\ d.s.pane_size = e.s.pane_size
  OBVIOUS
<1>1. PICK l : l = Larger(e.last_P, punct)
  OBVIOUS
<1>2. PICK k : k = [e EXCEPT !.last_P = l]
  OBVIOUS
<1>3. e \in EmitterType /\ e.last_P \in Timestamp
  BY DEF EmitterInv, EmitterType
<1>4. l \in Timestamp /\ e.last_P <= l
  <2>1. Timestamp \subseteq Nat /\ e.last_P \in Nat /\ punct \in Int
    BY <1>3, PLQAssumption DEF Timestamp, NoPunct
  <2>2. punct = NoPunct => ~(punct > e.last_P) /\ l = e.last_P
    BY <1>1, <2>1 DEF NoPunct, Larger
  <2> QED
    BY <1>1, <1>3, <2>1, <2>2 DEF Larger
<1>5. /\ k \in EmitterType /\ k.s = e.s /\ k.q = e.q /\ k.last_P = l
      /\ k.last_timestamp = e.last_timestamp
  BY <1>2, <1>3, <1>4 DEF EmitterType
<1>6. EmitterInv(k, FALSE)
  <2>1. e.last_timestamp <= k.last_timestamp
    <3>1. e.last_timestamp \in Nat
      BY <1>3, PLQAssumption DEF EmitterType, Timestamp
    <3> QED
      BY <1>5, <3>1
  <2> QED
    BY <1>4, <1>5, <2>1, LaterKeeps
<1>7. AccountsUpTo(k, k.s.next_pane_id)
  <2>1. AccountsUpTo(e, k.s.next_pane_id) /\ \A p \in Pane : SamePane(e.s, k.s, p)
    BY <1>5 DEF SamePane
  <2> QED
    BY <1>5, <2>1, SameAccounts
<1>8. CASE punct # NoPunct /\ elapsed
  <2>1. PICK p : p = PaneOf(punct)
    OBVIOUS
  <2>2. p \in Pane
    <3>1. punct \in Timestamp
      BY <1>8
    <3> QED
      BY <2>1, <3>1, PanesInOrder
  <2>3. d = executeStreamProgress(k, p)
    BY <1>1, <1>2, <1>8, <2>1 DEF Progressed
  <2>4. /\ AccountsUpTo(d, d.s.next_pane_id)
        /\ d.s.holders = k.s.holders /\ d.s.pane_size = k.s.pane_size
    BY <1>6, <1>7, <2>2, <2>3, ProgressAccounts
  <2> QED
    BY <1>5, <2>4
<1>9. CASE ~(punct # NoPunct /\ elapsed)
  <2>1. d = k
    BY <1>1, <1>2, <1>9 DEF Progressed
  <2> QED
    BY <1>5, <1>7, <2>1
<1> QED
  BY <1>8, <1>9

\* The warmup flag does not change what is to come.
LEMMA WarmupAccounts ==
    ASSUME NEW e \in EmitterType, AccountsUpTo(e, e.s.next_pane_id),
           NEW punct, NEW elapsed \in BOOLEAN,
           NEW d, d = AdaptiveProgressed(e, punct, elapsed)
    PROVE  /\ AccountsUpTo(d, d.s.next_pane_id)
           /\ d.s.holders = e.s.holders /\ d.s.pane_size = e.s.pane_size
<1>1. PICK b : b = (e.s.warmup /\ ~(punct # NoPunct /\ elapsed
                                      /\ PaneOf(punct) > WarmupPanes))
  OBVIOUS
<1>2. d = [e EXCEPT !.s.warmup = b]
  BY <1>1 DEF AdaptiveProgressed
<1>3. /\ d.q = e.q
      /\ d.s.activated = e.s.activated /\ d.s.next_pane_id = e.s.next_pane_id
      /\ d.s.holders = e.s.holders /\ d.s.pane_size = e.s.pane_size
      /\ d.s.p_instances = e.s.p_instances
  BY <1>2 DEF EmitterType, Sched
<1>4. \A p \in Pane : SamePane(e.s, d.s, p)
  BY <1>3 DEF SamePane
<1> QED
  BY <1>3, <1>4, SameAccounts

\* In order: the emitter takes a tuple.
LEMMA TupleAccounts ==
    ASSUME StageInv, iop, strategy \in {"PB_RR", "TB_RR", "ADAPTIVE"}, ~Adaptive,
           NEW e, EmitterInv(e, FALSE), AccountsUpTo(e, e.s.next_pane_id),
           NEW ts \in Timestamp, NEW d, d = Take(e, ts)
    PROVE  AccountsUpTo(d, d.s.next_pane_id)
<1>1. CASE Late(e, ts)
  BY <1>1 DEF Take
<1>2. CASE ~Late(e, ts)
  <2>1. e \in EmitterType /\ e.last_timestamp \in Timestamp /\ Timestamp \subseteq Nat
    BY PLQAssumption DEF EmitterInv, EmitterType, Timestamp
  <2>2. e.last_timestamp <= ts
    <3>1. PICK l : l = e.last_timestamp
      OBVIOUS
    <3>2. ~(ts < l)
      BY <1>2, <3>1 DEF Late
    <3>3. l \in Nat /\ ts \in Nat
      BY ONLY <2>1, <3>1, ts \in Timestamp
    <3>4. l <= ts
      BY ONLY <3>2, <3>3
    <3> QED
      BY <3>1, <3>4
  <2>3. PICK k : k = [e EXCEPT !.last_timestamp = ts]
    OBVIOUS
  <2>4. /\ k \in EmitterType /\ k.s = e.s /\ k.q = e.q /\ k.last_P = e.last_P
        /\ k.last_timestamp = ts
    BY <2>1, <2>3 DEF EmitterType
  <2>5. EmitterInv(k, FALSE)
    <3>1. e.last_P <= k.last_P
      <4>1. e.last_P \in Nat
        BY <2>1, PLQAssumption DEF EmitterType, Timestamp
      <4> QED
        BY <2>4, <4>1
    <3> QED
      BY <2>2, <2>4, <3>1, LaterKeeps
  <2>6. AccountsUpTo(k, k.s.next_pane_id)
    <3>1. AccountsUpTo(e, k.s.next_pane_id) /\ \A q \in Pane : SamePane(e.s, k.s, q)
      BY <2>4 DEF SamePane
    <3> QED
      BY <2>4, <3>1, SameAccounts
  <2>7. PICK p : p = PaneOf(ts)
    OBVIOUS
  <2>8. p \in Pane /\ p \in Nat
    BY <2>7, PanesInOrder, WorkersAreNumbers
  <2>9. p <= PaneOf(IF iop THEN k.last_timestamp ELSE k.last_P)
    BY <2>4, <2>7, <2>8
  <2>10. PICK a : a = executeStreamProgress(k, p)
    OBVIOUS
  <2>11. /\ EmitterInv(a, FALSE)
         /\ a.s.next_pane_id = IF p < k.s.next_pane_id THEN k.s.next_pane_id ELSE p
    BY ONLY <2>5, <2>8, <2>9, <2>10, ProgressKeeps
  <2>12. AccountsUpTo(a, a.s.next_pane_id)
    BY <2>5, <2>6, <2>8, <2>10, ProgressAccounts
  <2>13. a.s.next_pane_id = p
    <3>1. k.s.next_pane_id <= p
      BY <2>4, <2>5, <2>7 DEF EmitterInv, SchedInv
    <3>2. PICK next : next = k.s.next_pane_id
      OBVIOUS
    <3>3. next \in Nat
      BY <2>4, <3>2, WorkersAreNumbers DEF EmitterType, Sched
    <3> QED
      BY <2>8, <2>11, <3>1, <3>2, <3>3
  <2>14. d = sched_to_worker(a, p, FALSE, NoWorker)
    BY <1>2, <2>3, <2>7, <2>10 DEF Take, Advanced
  <2>15. p >= a.s.next_pane_id /\ p = a.s.next_pane_id
    BY <2>8, <2>13
  <2>16. PICK large : large = FALSE
    OBVIOUS
  <2>17. PICK llw : llw = NoWorker
    OBVIOUS
  <2>18. d = sched_to_worker(a, p, large, llw)
    BY <2>14, <2>16, <2>17
  <2> QED
    BY <2>8, <2>11, <2>12, <2>15, <2>18, ScheduleAccounts
<1> QED
  BY <1>1, <1>2

\* In order: the emitter takes tuples one after the other.
LEMMA TakenAccounts ==
    ASSUME StageInv, strategy \in {"PB_RR", "TB_RR", "ADAPTIVE"}, Adaptive => ~iop,
           EmitterInv(Emitter, FALSE), AccountsUpTo(Emitter, sched.next_pane_id),
           NEW x \in Seq(Timestamp), iop \/ x = <<>>
    PROVE  AccountsUpTo(Taken(x), Taken(x).s.next_pane_id)
<1> DEFINE n == Len(x)
           Y == {d \in EmitterType : EmitterInv(d, FALSE) /\ AccountsUpTo(d, d.s.next_pane_id)}
           F == [u \in Y \X (1..n) |-> Take(u[1], x[u[2]])]
<1>1. n \in Nat /\ DOMAIN x = 1..n /\ \A i \in 1..n : x[i] \in Timestamp
  OBVIOUS
<1>2. PICK e : e = Emitter
  OBVIOUS
<1>3. e \in Y
  <2>1. e.s.next_pane_id = sched.next_pane_id
    BY <1>2 DEF Emitter
  <2> QED
    BY <1>2, <2>1 DEF EmitterInv
<1>4. ASSUME NEW d \in Y, NEW i \in 1..n PROVE Take(d, x[i]) \in Y
  <2>1. EmitterInv(d, FALSE) /\ AccountsUpTo(d, d.s.next_pane_id)
    OBVIOUS
  <2>2. iop /\ ~Adaptive
    BY <1>1
  <2>3. PICK ts \in Timestamp : ts = x[i]
    BY <1>1
  <2>4. PICK f : f = Take(d, ts)
    OBVIOUS
  <2>5. EmitterInv(f, FALSE)
    BY <2>1, <2>2, <2>4, TupleKeeps
  <2>6. AccountsUpTo(f, f.s.next_pane_id)
    BY <2>1, <2>2, <2>4, TupleAccounts
  <2>7. f \in Y
    BY <2>5, <2>6 DEF EmitterInv
  <2> QED
    BY <2>3, <2>4, <2>7
<1> HIDE DEF Y, n
<1>5. F \in [Y \X (1..n) -> Y]
  BY <1>4
<1> HIDE DEF F
<1>6. PICK h \in [SUBSET (1..n) -> Y] : FoldValues(h, F, e, n)
  BY <1>1, <1>3, <1>5, FoldExists
<1>7. h = [t \in SUBSET (1..n) |->
             IF t = {} THEN e ELSE Take(h[t \ {Max(t)}], x[Max(t)])]
  <2>1. ASSUME NEW t \in SUBSET (1..n), t # {}
        PROVE  F[<<h[t \ {Max(t)}], Max(t)>>] = Take(h[t \ {Max(t)}], x[Max(t)])
    <3>1. t \in SUBSET (0..n)
      OBVIOUS
    <3>2. Max(t) \in 1..n
      BY <1>1, <2>1, <3>1, GreatestElement
    <3>3. PICK a : a = Max(t)
      OBVIOUS
    <3>4. PICK d : d = h[t \ {a}]
      OBVIOUS
    <3>5. d \in Y /\ a \in 1..n
      BY <3>2, <3>3, <3>4
    <3>6. F[<<d, a>>] = Take(d, x[a])
      BY <3>5 DEF F
    <3> QED
      BY <3>3, <3>4, <3>6
  <2> QED
    BY <1>6, <2>1 DEF FoldValues
<1>8. PICK g : g = CHOOSE f : f = [t \in SUBSET (1..n) |->
                  IF t = {} THEN e ELSE Take(f[t \ {Max(t)}], x[Max(t)])]
  OBVIOUS
<1>9. g = [t \in SUBSET (1..n) |->
             IF t = {} THEN e ELSE Take(g[t \ {Max(t)}], x[Max(t)])]
  BY <1>7, <1>8
<1>10. Taken(x) = g[1..n]
  BY <1>1, <1>2, <1>8 DEF Taken, FoldLeft, MapThenFoldSet
<1>11. g[1..n] \in Y
  <2> DEFINE Z == [k \in 0..n |-> Y]
  <2>1. g[{}] \in Z[0]
    BY <1>1, <1>3, <1>9
  <2>2. ASSUME NEW k \in 1..n, g[1..(k - 1)] \in Z[k - 1] PROVE g[1..k] \in Z[k]
    <3>1. g[1..(k - 1)] \in Y
      BY <1>1, <2>2
    <3>2. /\ 1..k \in SUBSET (1..n) /\ 1..k # {}
          /\ Max(1..k) = k /\ (1..k) \ {k} = 1..(k - 1)
      BY <1>1, Segments
    <3>3. g[1..k] = Take(g[1..(k - 1)], x[k])
      BY <1>9, <3>2
    <3>4. Take(g[1..(k - 1)], x[k]) \in Y
      BY <1>4, <3>1
    <3> QED
      BY <1>1, <3>3, <3>4
  <2> HIDE DEF Z
  <2>3. g[1..n] \in Z[n]
    BY <1>1, <2>1, <2>2, SegmentsInduction
  <2> QED
    BY <1>1, <2>3 DEF Z
<1> QED
  BY <1>10, <1>11 DEF Y

-----------------------------------------------------------------------------
(* The steps of the emitter                                                *)

\* The emitter is e after the step, and the stream is over or not.
LEMMA UpdateAccounts ==
    ASSUME NEW e, NEW over, AccountsInv(e, over), Update(e),
           plqTerminated' = over, openedEmpty \subseteq openedEmpty',
           UNCHANGED <<paneSet, results, iop, strategy>>
    PROVE  AccountsInv(Emitter, plqTerminated)'
<1>1. /\ Emitter'.s = e.s /\ Emitter'.q = e.q /\ paneSet' = paneSet /\ results' = results
      /\ iop' = iop /\ strategy' = strategy
  BY DEF Update, Emitter
<1>2. \A x, p : Anonymous(x, p)' <=> Anonymous(x, p)
  BY <1>1 DEF Anonymous
<1>3. ASSUME NEW p \in Pane
      PROVE  Account(Emitter, p, p < Emitter.s.next_pane_id, plqTerminated)'
  <2>1. PICK closed : closed = (p < e.s.next_pane_id)
    BY Zenon
  <2>2. Account(e, p, closed, over)
    BY <2>1 DEF AccountsInv
  <2>3. /\ PartsToCome(Emitter, p)' = PartsToCome(e, p)
        /\ TuplesToCome(Emitter, p)' = TuplesToCome(e, p)
    BY <1>1 DEF PartsToCome, TuplesToCome
  <2>4. Sound(Emitter, p, closed)' => Sound(e, p, closed)
    BY <1>1 DEF Sound, Adaptive
  <2>5. Balanced(e, p) => Balanced(Emitter, p)'
    BY <1>1, <2>3 DEF Balanced
  <2>6. Agreed(e, p) => Agreed(Emitter, p)'
    BY <1>1 DEF Agreed, Anonymous
  <2>7. Announced(e, p, closed \/ over) => Announced(Emitter, p, closed \/ plqTerminated)'
    BY <1>1 DEF Announced, WillTell, Anonymous
  <2>8. Tracked(e, p) => Tracked(Emitter, p)'
    BY <1>1 DEF Tracked
  <2>9. LullsClosed(e, p, closed) => LullsClosed(Emitter, p, closed)'
    BY <1>1 DEF LullsClosed
  <2>10. Account(Emitter, p, closed, plqTerminated)'
    BY <1>1, <2>2, <2>4, <2>5, <2>6, <2>7, <2>8, <2>9 DEF Account
  <2>11. closed = (p < Emitter'.s.next_pane_id)
    BY <1>1, <2>1
  <2> QED
    BY <2>10, <2>11
<1>4. ASSUME NEW w \in Worker
      PROVE  Flushes(DOMAIN paneSet[w], Emitter.q[w], Emitter.s.next_pane_id)'
  <2>1. Flushes(DOMAIN paneSet[w], e.q[w], e.s.next_pane_id)
    BY DEF AccountsInv
  <2> QED
    BY <1>1, <2>1 DEF Flushes
<1> QED
  BY <1>3, <1>4 DEF AccountsInv

\* The emitter is e after the step, and the stream goes on.
LEMMA EmitterAccounts ==
    ASSUME NEW e, AccountsUpTo(e, e.s.next_pane_id), Update(e),
           plqTerminated' = FALSE, openedEmpty \subseteq openedEmpty',
           UNCHANGED <<paneSet, results, iop, strategy>>
    PROVE  AccountsInv(Emitter, plqTerminated)'
<1>1. AccountsInv(e, FALSE)
  BY DEF AccountsInv, AccountsUpTo
<1>2. PICK over : over = FALSE
  OBVIOUS
<1> QED
  BY <1>1, <1>2, UpdateAccounts

\* What the steps of the emitter start from.
LEMMA AccountsStart ==
    ASSUME StageInv, PanesInv, ~plqTerminated
    PROVE  AccountsUpTo(Emitter, sched.next_pane_id) /\ Emitter.s = sched
<1>1. plqTerminated = FALSE /\ Emitter.s = sched
  BY EmitterStart
<1>2. AccountsInv(Emitter, plqTerminated)
  BY DEF PanesInv
<1> QED
  BY <1>1, <1>2 DEF AccountsInv, AccountsUpTo

\* A tuple in the out-of-order build.
LEMMA StreamOOPAccounts ==
    ASSUME StageInv, PanesInv, StreamOOP, strategy' = strategy,
           openedEmpty \subseteq openedEmpty'
    PROVE  AccountsInv(Emitter, plqTerminated)'
<1>1. PICK ts \in Timestamp, elapsed \in BOOLEAN, large \in Sizes, llw \in LeastLoaded :
      \E punct \in Progress(kslack, ts) :
        LET progressed == Progressed(Emitter, punct, elapsed)
            e == IF Adaptive THEN AdaptiveProgressed(progressed, punct, elapsed)
                 ELSE progressed
        IN /\ ~iop
           /\ processNewTuple(Seen(kslack, ts),
                  IF Late(e, ts) THEN e
                  ELSE sched_to_worker(e, PaneOf(ts), large, llw))
  BY DEF StreamOOP
<1>2. PICK punct \in Progress(kslack, ts) :
        LET progressed == Progressed(Emitter, punct, elapsed)
            e == IF Adaptive THEN AdaptiveProgressed(progressed, punct, elapsed)
                 ELSE progressed
        IN /\ ~iop
           /\ processNewTuple(Seen(kslack, ts),
                  IF Late(e, ts) THEN e
                  ELSE sched_to_worker(e, PaneOf(ts), large, llw))
  BY <1>1
<1>3. PICK f : f = Progressed(Emitter, punct, elapsed)
  OBVIOUS
<1>4. PICK e : e = IF Adaptive THEN AdaptiveProgressed(f, punct, elapsed) ELSE f
  OBVIOUS
<1>5. PICK d : d = IF Late(e, ts) THEN e ELSE sched_to_worker(e, PaneOf(ts), large, llw)
  OBVIOUS
<1>6. ~iop /\ processNewTuple(Seen(kslack, ts), d)
  BY <1>2, <1>3, <1>4, <1>5
<1>7. ~plqTerminated /\ Update(d) /\ UNCHANGED <<iop, plqTerminated, workerVars>>
  BY <1>6 DEF processNewTuple
<1>8. /\ EmitterInv(Emitter, FALSE) /\ Slack(kslack)
      /\ strategy \in {"PB_RR", "TB_RR", "ADAPTIVE"}
      /\ plqTerminated = FALSE
      /\ AccountsUpTo(Emitter, sched.next_pane_id) /\ Emitter.s = sched
  BY <1>6, <1>7, EmitterStart, AccountsStart
<1>9. punct \in Timestamp \cup {NoPunct}
  BY <1>8, ProgressType
<1>10. /\ EmitterInv(f, FALSE) /\ f.s.activated = sched.activated
       /\ AccountsUpTo(f, f.s.next_pane_id)
       /\ f.s.holders = sched.holders /\ f.s.pane_size = sched.pane_size
  <2>1. PICK b : b = Emitter
    OBVIOUS
  <2>2. EmitterInv(b, FALSE) /\ AccountsUpTo(b, b.s.next_pane_id) /\ b.s = sched
    BY <1>8, <2>1
  <2>3. f = Progressed(b, punct, elapsed)
    BY <1>3, <2>1
  <2>4. EmitterInv(f, FALSE) /\ f.s.activated = b.s.activated
    BY <1>6, <1>9, <2>2, <2>3, ProgressedKeeps
  <2>5. /\ AccountsUpTo(f, f.s.next_pane_id)
        /\ f.s.holders = b.s.holders /\ f.s.pane_size = b.s.pane_size
    BY <1>6, <1>9, <2>2, <2>3, ProgressedAccounts
  <2> QED
    BY <2>2, <2>4, <2>5
<1>11. /\ EmitterInv(e, FALSE) /\ e.s.activated = sched.activated
       /\ AccountsUpTo(e, e.s.next_pane_id)
       /\ e.s.holders = sched.holders /\ e.s.pane_size = sched.pane_size
  <2>1. CASE Adaptive
    <3>1. e = AdaptiveProgressed(f, punct, elapsed)
      BY <1>4, <2>1
    <3>2. EmitterInv(e, FALSE) /\ e.s.activated = f.s.activated
      BY <1>10, <3>1, WarmupKeeps
    <3>3. f \in EmitterType
      BY <1>10 DEF EmitterInv
    <3>4. /\ AccountsUpTo(e, e.s.next_pane_id)
          /\ e.s.holders = f.s.holders /\ e.s.pane_size = f.s.pane_size
      BY <1>10, <3>1, <3>3, WarmupAccounts
    <3> QED
      BY <1>10, <3>2, <3>4
  <2>2. CASE ~Adaptive
    BY <1>4, <1>10, <2>2
  <2> QED
    BY <2>1, <2>2
<1>12. AccountsUpTo(d, d.s.next_pane_id)
  <2>1. CASE Late(e, ts)
    BY <1>5, <1>11, <2>1
  <2>2. CASE ~Late(e, ts)
    <3>1. PICK l : l = e.last_P
      OBVIOUS
    <3>2. PICK next : next = e.s.next_pane_id
      OBVIOUS
    <3>3. e \in EmitterType /\ SchedInv(e)
      BY <1>11 DEF EmitterInv
    <3>4. l \in Timestamp /\ next \in Pane
      BY <3>1, <3>2, <3>3 DEF EmitterType, Sched
    <3>5. ~(ts < l)
      BY <1>6, <2>2, <3>1 DEF Late
    <3>6. l <= ts
      <4>1. l \in Nat /\ ts \in Nat
        BY <3>4, PLQAssumption DEF Timestamp
      <4> QED
        BY ONLY <3>5, <4>1
    <3>7. PICK p : p = PaneOf(ts)
      OBVIOUS
    <3>8. p \in Pane /\ PaneOf(l) \in Pane /\ PaneOf(l) <= p
      BY <3>4, <3>6, <3>7, PanesInOrder
    <3>9. next <= PaneOf(l)
      BY <1>6, <3>1, <3>2, <3>3 DEF SchedInv
    <3>10. p >= next
      <4>1. PICK z : z = PaneOf(l)
        OBVIOUS
      <4>2. next \in Nat /\ z \in Nat /\ p \in Nat /\ next <= z /\ z <= p
        BY <3>4, <3>8, <3>9, <4>1, WorkersAreNumbers
      <4> QED
        BY ONLY <4>2
    <3>11. Adaptive => llw \in e.s.activated
      BY <1>11 DEF LeastLoaded
    <3>12. d = sched_to_worker(e, p, large, llw)
      BY <1>5, <2>2, <3>7
    <3>13. e.s.holders[p] # {} /\ e.s.pane_size[p] = 0 => p \in openedEmpty
      BY <1>11, <3>8 DEF PanesInv, OpenedInv
    <3>14. p >= e.s.next_pane_id /\ (iop => p = e.s.next_pane_id)
      BY <1>6, <3>2, <3>10
    <3> QED
      BY <1>8, <1>11, <3>8, <3>11, <3>12, <3>13, <3>14, ScheduleAccounts
  <2> QED
    BY <2>1, <2>2
<1>13. plqTerminated' = FALSE /\ UNCHANGED <<paneSet, results, iop, strategy>>
  BY <1>7, <1>8 DEF workerVars
<1> QED
  BY <1>7, <1>12, <1>13, EmitterAccounts

\* A tuple in the in-order build, with all that leave the buffer for it.
LEMMA StreamIOPAccounts ==
    ASSUME StageInv, PanesInv, StreamIOP, strategy' = strategy,
           openedEmpty \subseteq openedEmpty'
    PROVE  AccountsInv(Emitter, plqTerminated)'
<1>1. PICK ts \in Timestamp : \E limit \in Progress(kslack, ts) :
        LET k == Inserted(kslack, ts)
        IN /\ iop
           /\ processNewTuple(Remaining(k, limit), Taken(Extracted(k, limit)))
  BY DEF StreamIOP
<1>2. PICK k : k = Inserted(kslack, ts)
  OBVIOUS
<1>3. PICK limit : iop /\ processNewTuple(Remaining(k, limit), Taken(Extracted(k, limit)))
  BY <1>1, <1>2
<1>4. PICK x : x = Extracted(k, limit)
  OBVIOUS
<1>5. PICK d : d = Taken(x)
  OBVIOUS
<1>6. ~plqTerminated /\ Update(d) /\ UNCHANGED <<iop, plqTerminated, workerVars>>
  BY <1>3, <1>4, <1>5 DEF processNewTuple
<1>7. /\ EmitterInv(Emitter, FALSE) /\ Slack(kslack)
      /\ strategy \in {"PB_RR", "TB_RR", "ADAPTIVE"} /\ (Adaptive => ~iop)
      /\ plqTerminated = FALSE
      /\ AccountsUpTo(Emitter, sched.next_pane_id)
  BY <1>6, EmitterStart, AccountsStart
<1>8. Slack(k)
  BY <1>2, <1>7, InsertedKeeps
<1>9. x \in Seq(Timestamp)
  BY <1>4, <1>8, RemainingKeeps
<1>10. AccountsUpTo(d, d.s.next_pane_id)
  BY <1>3, <1>5, <1>7, <1>9, TakenAccounts
<1>11. plqTerminated' = FALSE /\ UNCHANGED <<paneSet, results, iop, strategy>>
  BY <1>6, <1>7 DEF workerVars
<1> QED
  BY <1>6, <1>10, <1>11, EmitterAccounts

-----------------------------------------------------------------------------
(* Workers are removed                                                     *)

\* One change of what is on the way after the other.
LEMMA SameTwice ==
    ASSUME NEW r, NEW x, NEW y, NEW z, NEW p, NEW final,
           Same(r, x, y, p, final), Same(r, y, z, p, final)
    PROVE  Same(r, x, z, p, final)
<1>1. \A j \in About(z, "LULL", p) : \E i \in About(x, "LULL", p) : x[i] = z[j]
  <2>1. ASSUME NEW j \in About(z, "LULL", p)
        PROVE  \E i \in About(x, "LULL", p) : x[i] = z[j]
    <3>1. PICK k \in About(y, "LULL", p) : y[k] = z[j]
      BY DEF Same
    <3>2. PICK i \in About(x, "LULL", p) : x[i] = y[k]
      BY <3>1 DEF Same
    <3> QED
      BY <3>1, <3>2
  <2> QED
    BY <2>1
<1> QED
  BY <1>1 DEF Same

\* The order to flush makes the partition of an open pane anonymous; those of the
\* closed panes still tell how many there are.
LEMMA AppendFlush ==
    ASSUME NEW r, NEW x \in Seq(Message), NEW p \in Pane, NEW final, NEW next \in Pane,
           NEW held, OnTheWay(DOMAIN r, x, next, held),
           \A i \in DOMAIN x : x[i].type \in Ordinary,
           final => p < next
    PROVE  Same(r, x, Append(x, FLUSH(next)), p, final)
<1>1. PICK m \in Message : m = FLUSH(next)
  BY MessagesSent
<1>2. PICK y : y = Append(x, m)
  OBVIOUS
<1>3. m.type = "FLUSH" /\ m.pane_id = next /\ ~Makes(m, p) /\ ~Names(m, p)
  BY <1>1 DEF FLUSH, Makes, Names, Making, Naming
<1>4. Has(DOMAIN r, y, p) <=> Has(DOMAIN r, x, p)
  BY <1>2, <1>3, AppendHas
<1>5. /\ Cardinality(About(y, "LULL", p)) = Cardinality(About(x, "LULL", p))
      /\ Cardinality(About(y, "REGULAR", p)) = Cardinality(About(x, "REGULAR", p))
      /\ About(y, "LULL", p) = {} <=> About(x, "LULL", p) = {}
  <2>1. y \in Seq(Message)
    BY <1>2, AppendQueue
  <2>2. /\ Cardinality(About(x, "LULL", p)) \in Nat
        /\ Cardinality(About(x, "REGULAR", p)) \in Nat
        /\ About(y, "LULL", p) = {} <=> Cardinality(About(y, "LULL", p)) = 0
        /\ About(x, "LULL", p) = {} <=> Cardinality(About(x, "LULL", p)) = 0
    BY <2>1, AboutCount
  <2>3. /\ Cardinality(About(y, "LULL", p)) = Cardinality(About(x, "LULL", p)) + 0
        /\ Cardinality(About(y, "REGULAR", p)) = Cardinality(About(x, "REGULAR", p)) + 0
    BY <1>2, <1>3, AppendAbout
  <2> QED
    BY <2>2, <2>3
<1>6. /\ Len(x) \in Nat /\ DOMAIN x = 1..Len(x) /\ DOMAIN y = 1..(Len(x) + 1)
      /\ \A i \in 1..Len(x) : y[i] = x[i]
      /\ y[Len(x) + 1] = m
  BY <1>2, AppendQueue
<1>7. \A j \in DOMAIN y : (j \in DOMAIN x /\ y[j] = x[j]) \/ y[j] = m
  BY <1>6
<1>8. ~Anonymous(x, p)
  BY DEF Anonymous, Ordinary
<1>9. ASSUME NEW n, Tells(r, x, p, n) PROVE Tells(r, y, p, n)
  BY <1>2, <1>3, <1>9, AppendTells
<1>10. ASSUME final, Has(DOMAIN r, x, p) PROVE ~Anonymous(y, p)
  <2>1. p \in Nat /\ next \in Nat /\ p < next
    BY <1>10, WorkersAreNumbers
  <2>2. CASE iop
    <3>1. \A i \in DOMAIN y : y[i].type = "FLUSH" => y[i].pane_id = next
      BY <1>3, <1>7 DEF Ordinary
    <3>2. ~(next <= p)
      BY ONLY <2>1
    <3> QED
      BY <2>2, <3>1, <3>2 DEF Anonymous
  <2>3. CASE ~iop
    <3>1. \E j \in DOMAIN x : Closes(x[j], p)
      BY <1>10, <2>1, <2>3 DEF OnTheWay, Punctuated, Has
    <3>2. \E j \in DOMAIN x : x[j].type = "PUNCT" /\ x[j].pane_id > p
      BY <3>1 DEF Closes, Ordinary
    <3>3. \E j \in DOMAIN y : y[j].type = "PUNCT" /\ y[j].pane_id > p
      BY <1>6, <3>2
    <3> QED
      BY <2>3, <3>3 DEF Anonymous
  <2> QED
    BY <2>2, <2>3
<1>11. \A j \in About(y, "LULL", p) : j \in About(x, "LULL", p) /\ x[j] = y[j]
  BY <1>3, <1>7 DEF About
<1> QED
  BY <1>1, <1>2, <1>4, <1>5, <1>8, <1>9, <1>10, <1>11 DEF Same, WillTell, PartsAt, TuplesAt

\* The worker is told to flush and to freeze.
LEMMA RetireSame ==
    ASSUME NEW r, NEW x \in Seq(Message), NEW p \in Pane, NEW final, NEW next \in Pane,
           NEW held, OnTheWay(DOMAIN r, x, next, held),
           \A i \in DOMAIN x : x[i].type \in Ordinary,
           final => p < next,
           NEW y, y = Append(Append(x, FLUSH(next)), GO_OUT)
    PROVE  Same(r, x, y, p, final)
<1>1. PICK z : z = Append(x, FLUSH(next))
  OBVIOUS
<1>2. Same(r, x, z, p, final)
  BY <1>1, AppendFlush
<1>3. PICK m \in Message : m = GO_OUT
  BY MessagesSent
<1>4. z \in Seq(Message)
  <2>1. FLUSH(next) \in Message
    BY MessagesSent
  <2> QED
    BY <1>1, <2>1, AppendQueue
<1>5. /\ m.type # "FLUSH" /\ m.type # "PUNCT" /\ ~Names(m, p)
      /\ ~(m.type = "LULL" /\ m.pane_id = p)
  BY <1>3 DEF GO_OUT, Names, Naming
<1>6. Same(r, z, Append(z, m), p, final)
  BY <1>4, <1>5, AppendElsewhere
<1>7. y = Append(z, m)
  BY <1>1, <1>3
<1> QED
  BY <1>2, <1>6, <1>7, SameTwice

\* It is told so with the first pane that is not closed.
LEMMA RetireFlushes ==
    ASSUME NEW D, NEW x \in Seq(Message), NEW next \in Pane, NEW held,
           OnTheWay(D, x, next, held), Flushes(D, x, next),
           \A i \in DOMAIN x : x[i].type \in Ordinary,
           NEW y, y = Append(Append(x, FLUSH(next)), GO_OUT)
    PROVE  Flushes(D, y, next)
<1>1. PICK m \in Message : m = FLUSH(next)
  BY MessagesSent
<1>2. m.type = "FLUSH" /\ m.pane_id = next /\ \A p : ~Names(m, p)
  BY <1>1 DEF FLUSH, Names, Naming
<1>3. PICK g \in Message : g = GO_OUT
  BY MessagesSent
<1>4. g.type # "FLUSH" /\ \A p : ~Names(g, p)
  BY <1>3 DEF GO_OUT, Names, Naming
<1>5. PICK z : z = Append(x, m)
  OBVIOUS
<1>6. z \in Seq(Message) /\ \A j \in DOMAIN z : (j \in DOMAIN x /\ z[j] = x[j]) \/ z[j] = m
  BY <1>5, AppendQueue
<1>7. y = Append(z, g)
  BY <1>1, <1>3, <1>5
<1>8. \A j \in DOMAIN y : (j \in DOMAIN z /\ y[j] = z[j]) \/ y[j] = g
  BY <1>6, <1>7, AppendQueue
<1>9. \A j \in DOMAIN y : (j \in DOMAIN x /\ y[j] = x[j]) \/ y[j] = m \/ y[j] = g
  BY <1>6, <1>8
<1>10. next <= next
  BY WorkersAreNumbers
<1>11. ASSUME NEW i \in DOMAIN y, y[i].type = "FLUSH" PROVE y[i].pane_id = next
  BY <1>2, <1>4, <1>9, <1>11 DEF Ordinary
<1>12. ASSUME iop, NEW j \in DOMAIN y, NEW p \in Pane, Names(y[j], p) PROVE p <= next
  <2>1. j \in DOMAIN x /\ Names(x[j], p)
    BY <1>2, <1>4, <1>9, <1>12
  <2> QED
    BY <1>12, <2>1 DEF OnTheWay, InPaneOrder
<1> QED
  BY <1>10, <1>11, <1>12 DEF Flushes

\* The accounts before the panes are repaired.
LEMMA RemovedAccounts ==
    ASSUME EmitterInv(Emitter, FALSE), AccountsUpTo(Emitter, sched.next_pane_id),
           NEW W \in SUBSET Worker, CanRemove(W), NEW d, d = Removed(W)
    PROVE  AccountsUpTo(d, sched.next_pane_id)
<1>1. PICK e : e = Emitter
  OBVIOUS
<1>2. PICK next : next = sched.next_pane_id
  OBVIOUS
<1>3. /\ e.s = sched /\ e.q = queue
  BY <1>1 DEF Emitter
<1>4. /\ e \in EmitterType /\ QueuesInv(e, FALSE) /\ next \in Pane
      /\ AccountsUpTo(e, next) /\ e.s.activated \subseteq Worker
  BY <1>1, <1>2, <1>3 DEF EmitterInv, EmitterType, Sched
<1>5. /\ \A w \in Worker :
            d.q[w] = IF w \in W THEN Append(Append(e.q[w], FLUSH(next)), GO_OUT)
                     ELSE e.q[w]
      /\ W \subseteq e.s.activated
      /\ d.s.activated \subseteq e.s.activated /\ d.s.next_pane_id = next
      /\ d.s.holders = e.s.holders /\ d.s.pane_size = e.s.pane_size
      /\ d.s.p_instances = e.s.p_instances
  BY <1>2, <1>3, RemovedEffect
<1>6. ASSUME NEW w \in W
      PROVE  /\ OnTheWay(DOMAIN paneSet[w], e.q[w], next, HeldBy(e.s, w))
             /\ \A i \in DOMAIN e.q[w] : e.q[w][i].type \in Ordinary
             /\ e.q[w] \in Seq(Message)
             /\ d.q[w] = Append(Append(e.q[w], FLUSH(next)), GO_OUT)
  <2>1. w \in e.s.activated
    BY <1>5
  <2>2. \A i \in DOMAIN e.q[w] : e.q[w][i].type \in Ordinary
    BY <1>4, <2>1, OfActive
  <2>3. OnTheWay(DOMAIN paneSet[w], e.q[w], e.s.next_pane_id, HeldBy(e.s, w))
    BY <1>4 DEF QueuesInv
  <2> QED
    BY <1>2, <1>3, <1>4, <1>5, <2>2, <2>3 DEF EmitterType
<1>7. ASSUME NEW p \in Pane PROVE Account(d, p, p < next, FALSE)
  <2>1. PICK closed : closed = (p < next)
    BY Zenon
  <2>2. Account(e, p, closed, FALSE)
    BY <1>4, <2>1 DEF AccountsUpTo
  <2>3. ASSUME NEW w \in Worker
        PROVE  Same(paneSet[w], e.q[w], d.q[w], p, closed \/ FALSE)
    <3>1. CASE w \in W
      <4>1. PICK r : r = paneSet[w]
        OBVIOUS
      <4>2. PICK x \in Seq(Message) : x = e.q[w]
        BY <1>6, <3>1
      <4>3. PICK held : held = HeldBy(e.s, w)
        OBVIOUS
      <4>4. PICK final : final = (closed \/ FALSE)
        BY Zenon
      <4>5. /\ OnTheWay(DOMAIN r, x, next, held)
            /\ \A i \in DOMAIN x : x[i].type \in Ordinary
        BY <1>6, <3>1, <4>1, <4>2, <4>3
      <4>6. PICK y : y = Append(Append(x, FLUSH(next)), GO_OUT)
        OBVIOUS
      <4>7. final => p < next
        BY <2>1, <4>4
      <4>8. Same(r, x, y, p, final)
        BY <1>4, <4>2, <4>5, <4>6, <4>7, RetireSame
      <4>9. d.q[w] = y
        BY <1>6, <3>1, <4>2, <4>6
      <4> QED
        BY <4>1, <4>2, <4>4, <4>8, <4>9
    <3>2. CASE w \notin W
      <4>1. d.q[w] = e.q[w]
        BY <1>5, <3>2
      <4> QED
        BY <4>1, SameQueue
    <3> QED
      BY <3>1, <3>2
  <2>4. Account(d, p, closed, FALSE)
    BY <1>4, <1>5, <2>2, <2>3, AccountKept
  <2> QED
    BY <2>1, <2>4
<1>8. ASSUME NEW w \in Worker PROVE Flushes(DOMAIN paneSet[w], d.q[w], d.s.next_pane_id)
  <2>1. Flushes(DOMAIN paneSet[w], e.q[w], next)
    BY <1>2, <1>3, <1>4 DEF AccountsUpTo
  <2>2. CASE w \in W
    <3>1. PICK D : D = DOMAIN paneSet[w]
      OBVIOUS
    <3>2. PICK x \in Seq(Message) : x = e.q[w]
      BY <1>6, <2>2
    <3>3. PICK held : held = HeldBy(e.s, w)
      OBVIOUS
    <3>4. /\ OnTheWay(D, x, next, held) /\ Flushes(D, x, next)
          /\ \A i \in DOMAIN x : x[i].type \in Ordinary
      BY <1>6, <2>1, <2>2, <3>1, <3>2, <3>3
    <3>5. PICK y : y = Append(Append(x, FLUSH(next)), GO_OUT)
      OBVIOUS
    <3>6. Flushes(D, y, next)
      BY <1>4, <3>2, <3>4, <3>5, RetireFlushes
    <3>7. d.q[w] = y
      BY <1>6, <2>2, <3>2, <3>5
    <3> QED
      BY <1>5, <3>1, <3>6, <3>7
  <2>3. CASE w \notin W
    BY <1>5, <2>1, <2>3
  <2> QED
    BY <2>2, <2>3
<1> QED
  BY <1>2, <1>7, <1>8 DEF AccountsUpTo

\* A pane is repaired.
LEMMA RepairAccounts ==
    ASSUME StageInv, strategy \in {"PB_RR", "TB_RR", "ADAPTIVE"},
           NEW W, NEW d, Retired(d, W), AccountsUpTo(d, sched.next_pane_id),
           NEW p \in Pane, p >= sched.next_pane_id, p < sched.n_panes,
           iop => p = sched.next_pane_id,
           NEW llw, Adaptive => llw \in sched.activated \ W,
           NEW f, f = Repair(d, W, p, llw)
    PROVE  AccountsUpTo(f, sched.next_pane_id)
<1>1. /\ d \in EmitterType /\ QueuesInv(d, FALSE)
      /\ d.s.activated = sched.activated \ W /\ d.s.activated # {}
      /\ d.s.next_pane_id = sched.next_pane_id
  BY DEF Retired
<1>2. Retired(f, W)
  <2>1. LET r == Repair(d, W, p, llw)
        IN /\ Retired(r, W) /\ PaneInv(r.s, p)
           /\ \A q \in Pane : q # p /\ PaneInv(d.s, q) => PaneInv(r.s, q)
    BY RepairKeeps
  <2> QED
    BY <2>1
<1>3. QueuesInv(f, FALSE) /\ f.s.next_pane_id = sched.next_pane_id
  BY <1>2 DEF Retired
<1>4. Tracked(d, p)
  <2>1. Account(d, p, p < sched.next_pane_id, FALSE)
    BY DEF AccountsUpTo
  <2>2. ~(p < sched.next_pane_id)
    <3>1. PICK next : next = sched.next_pane_id
      OBVIOUS
    <3>2. next \in Nat /\ p \in Nat /\ p >= next
      BY <1>1, <3>1, WorkersAreNumbers DEF EmitterType, Sched
    <3> QED
      BY <3>1, <3>2
  <2> QED
    BY <2>1, <2>2 DEF Account
<1>5. W \cap d.s.activated = {} /\ (Adaptive => llw \in d.s.activated)
  BY <1>1
<1>6. Handled(d, f, p)
  BY <1>1, <1>4, <1>5, RepairHandles
<1>7. p >= d.s.next_pane_id /\ AccountsUpTo(d, d.s.next_pane_id)
  BY <1>1
<1>8. AccountsUpTo(f, f.s.next_pane_id)
  BY <1>1, <1>3, <1>6, <1>7, HandledAccounts
<1> QED
  BY <1>3, <1>8

\* The panes that are not closed are repaired one after the other.
LEMMA RepairedAccounts ==
    ASSUME StageInv, strategy \in {"PB_RR", "TB_RR", "ADAPTIVE"},
           EmitterInv(Emitter, FALSE), AccountsUpTo(Emitter, sched.next_pane_id),
           NEW W \in SUBSET Worker, CanRemove(W),
           NEW llw, \A p \in Pane : Adaptive => llw[p] \in sched.activated \ W
    PROVE  LET d == Repaired(W, llw) IN AccountsUpTo(d, d.s.next_pane_id)
<1> DEFINE next == sched.next_pane_id
           np == sched.n_panes
           n == IF np > next THEN np - next ELSE 0
           x == OpenPanes(sched)
           Y == {d \in EmitterType : Retired(d, W) /\ AccountsUpTo(d, next)}
           F == [u \in Y \X (1..n) |-> Repair(u[1], W, x[u[2]], llw[x[u[2]]])]
<1>1. /\ SchedInv(Emitter) /\ next \in Pane /\ next \in Nat
      /\ np \in 0..(PaneOf(MaxTs) + 1) /\ np \in Nat
  <2>1. SchedInv(Emitter) /\ Emitter \in EmitterType
    BY DEF EmitterInv
  <2>2. next \in Pane /\ np \in 0..(PaneOf(MaxTs) + 1)
    BY <2>1 DEF Emitter, EmitterType, Sched
  <2>3. PICK k : k = np
    OBVIOUS
  <2>4. k \in Nat
    BY ONLY <2>2, <2>3, WorkersAreNumbers
  <2> QED
    BY <2>1, <2>2, <2>3, <2>4, WorkersAreNumbers
<1>2. n \in Nat /\ DOMAIN x = 1..n
  <2>1. x = [i \in 1..((np - 1) - next + 1) |-> next + i - 1]
    BY DEF OpenPanes, PanesFrom
  <2>2. PICK k : k = np
    OBVIOUS
  <2>3. PICK l : l = next
    OBVIOUS
  <2>4. k \in Nat /\ l \in Nat
    BY <1>1, <2>2, <2>3
  <2>5. 1..((k - 1) - l + 1) = 1..(IF k > l THEN k - l ELSE 0)
    BY ONLY <2>4
  <2>6. (IF k > l THEN k - l ELSE 0) \in Nat
    BY ONLY <2>4
  <2> QED
    BY <2>1, <2>2, <2>3, <2>5, <2>6
<1>3. ASSUME NEW i \in 1..n
      PROVE  /\ x[i] = next + i - 1 /\ x[i] \in Pane
             /\ x[i] >= next /\ x[i] < np /\ (iop => x[i] = next)
  <2>1. x[i] = next + i - 1
    BY <1>2 DEF OpenPanes, PanesFrom
  <2>2. PICK k : k = np
    OBVIOUS
  <2>3. PICK l : l = next
    OBVIOUS
  <2>4. PICK z : z = PaneOf(MaxTs)
    OBVIOUS
  <2>5. k \in 0..(z + 1) /\ l \in Nat /\ z \in Nat /\ Pane = 0..z
    BY <1>1, <2>2, <2>3, <2>4, WorkersAreNumbers DEF Pane
  <2>6. i \in 1..(IF k > l THEN k - l ELSE 0)
    BY <2>2, <2>3
  <2>7. l + i - 1 \in 0..z /\ l + i - 1 >= l /\ l + i - 1 < k
    BY ONLY <2>5, <2>6
  <2>8. iop => k <= l + 1
    BY <1>1, <2>2, <2>3 DEF SchedInv, Emitter
  <2>9. iop => l + i - 1 = l
    BY ONLY <2>5, <2>6, <2>8
  <2> QED
    BY ONLY <2>1, <2>2, <2>3, <2>5, <2>7, <2>9
<1>4. PICK e : e = Removed(W)
  OBVIOUS
<1>5. e \in Y
  <2>1. Retired(e, W)
    BY <1>4, RemovedRetires
  <2>2. AccountsUpTo(e, sched.next_pane_id)
    BY <1>4, RemovedAccounts
  <2> QED
    BY <2>1, <2>2 DEF Retired
<1> HIDE DEF x, n
<1>6. ASSUME NEW d \in Y, NEW i \in 1..n
      PROVE  Repair(d, W, x[i], llw[x[i]]) \in Y
  <2>1. Retired(d, W) /\ AccountsUpTo(d, sched.next_pane_id)
    OBVIOUS
  <2>2. PICK p \in Pane : p = x[i]
    BY <1>3
  <2>3. p >= sched.next_pane_id /\ p < sched.n_panes /\ (iop => p = sched.next_pane_id)
    BY <1>3, <2>2
  <2>4. PICK l : l = llw[p]
    OBVIOUS
  <2>5. Adaptive => l \in sched.activated \ W
    BY <2>4
  <2>6. PICK f : f = Repair(d, W, p, l)
    OBVIOUS
  <2>7. Retired(f, W)
    <3>1. LET r == Repair(d, W, p, l)
          IN /\ Retired(r, W) /\ PaneInv(r.s, p)
             /\ \A q \in Pane : q # p /\ PaneInv(d.s, q) => PaneInv(r.s, q)
      BY <2>1, <2>3, <2>5, RepairKeeps
    <3> QED
      BY <2>6, <3>1
  <2>8. AccountsUpTo(f, sched.next_pane_id)
    BY <2>1, <2>3, <2>5, <2>6, RepairAccounts
  <2>9. f \in Y
    BY <2>7, <2>8 DEF Retired
  <2> QED
    BY <2>2, <2>4, <2>6, <2>9
<1> HIDE DEF Y
<1>7. F \in [Y \X (1..n) -> Y]
  BY <1>6
<1> HIDE DEF F
<1>8. PICK h \in [SUBSET (1..n) -> Y] : FoldValues(h, F, e, n)
  BY <1>2, <1>5, <1>7, FoldExists
<1>9. h = [t \in SUBSET (1..n) |->
             IF t = {} THEN e ELSE Repair(h[t \ {Max(t)}], W, x[Max(t)], llw[x[Max(t)]])]
  <2>1. ASSUME NEW t \in SUBSET (1..n), t # {}
        PROVE  F[<<h[t \ {Max(t)}], Max(t)>>]
                  = Repair(h[t \ {Max(t)}], W, x[Max(t)], llw[x[Max(t)]])
    <3>1. t \in SUBSET (0..n)
      OBVIOUS
    <3>2. Max(t) \in 1..n
      BY <1>2, <2>1, <3>1, GreatestElement
    <3>3. PICK a : a = Max(t)
      OBVIOUS
    <3>4. PICK d : d = h[t \ {a}]
      OBVIOUS
    <3>5. d \in Y /\ a \in 1..n
      BY <3>2, <3>3, <3>4
    <3>6. F[<<d, a>>] = Repair(d, W, x[a], llw[x[a]])
      BY <3>5 DEF F
    <3> QED
      BY <3>3, <3>4, <3>6
  <2> QED
    BY <1>8, <2>1 DEF FoldValues
<1>10. PICK g : g = CHOOSE f : f = [t \in SUBSET (1..n) |->
             IF t = {} THEN e ELSE Repair(f[t \ {Max(t)}], W, x[Max(t)], llw[x[Max(t)]])]
  OBVIOUS
<1>11. g = [t \in SUBSET (1..n) |->
             IF t = {} THEN e ELSE Repair(g[t \ {Max(t)}], W, x[Max(t)], llw[x[Max(t)]])]
  BY <1>9, <1>10
<1>12. Repaired(W, llw) = g[1..n]
  BY <1>2, <1>4, <1>10 DEF Repaired, FoldLeft, MapThenFoldSet, x
<1>13. g[1..n] \in Y
  <2> DEFINE Z == [k \in 0..n |-> Y]
  <2>1. g[{}] \in Z[0]
    BY <1>2, <1>5, <1>11
  <2>2. ASSUME NEW k \in 1..n, g[1..(k - 1)] \in Z[k - 1] PROVE g[1..k] \in Z[k]
    <3>1. g[1..(k - 1)] \in Y
      BY <1>2, <2>2
    <3>2. /\ 1..k \in SUBSET (1..n) /\ 1..k # {}
          /\ Max(1..k) = k /\ (1..k) \ {k} = 1..(k - 1)
      BY <1>2, Segments
    <3>3. g[1..k] = Repair(g[1..(k - 1)], W, x[k], llw[x[k]])
      BY <1>11, <3>2
    <3>4. Repair(g[1..(k - 1)], W, x[k], llw[x[k]]) \in Y
      BY <1>6, <3>1
    <3> QED
      BY <1>2, <3>3, <3>4
  <2> HIDE DEF Z
  <2>3. g[1..n] \in Z[n]
    BY <1>2, <2>1, <2>2, SegmentsInduction
  <2> QED
    BY <1>2, <2>3 DEF Z
<1>14. PICK d : d = g[1..n]
  OBVIOUS
<1>15. Retired(d, W) /\ AccountsUpTo(d, sched.next_pane_id)
  BY <1>13, <1>14 DEF Y
<1>16. d.s.next_pane_id = sched.next_pane_id
  BY <1>15 DEF Retired
<1> QED
  BY <1>12, <1>14, <1>15, <1>16

\* Workers are removed.
LEMMA RemoveWorkersAccounts ==
    ASSUME StageInv, PanesInv, NEW W \in SUBSET Worker,
           NEW llw \in [Pane -> IF Adaptive THEN sched.activated \ W ELSE LeastLoaded],
           RemoveWorkers(W, Repaired(W, llw)), strategy' = strategy,
           openedEmpty \subseteq openedEmpty'
    PROVE  AccountsInv(Emitter, plqTerminated)'
<1>1. PICK d : d = Repaired(W, llw)
  OBVIOUS
<1>2. /\ ~plqTerminated /\ CanRemove(W) /\ Update(d)
      /\ UNCHANGED <<iop, plqTerminated, workerVars>>
  BY <1>1 DEF RemoveWorkers
<1>3. /\ EmitterInv(Emitter, FALSE) /\ plqTerminated = FALSE
      /\ AccountsUpTo(Emitter, sched.next_pane_id)
      /\ strategy \in {"PB_RR", "TB_RR", "ADAPTIVE"}
  BY <1>2, EmitterStart, AccountsStart
<1>4. \A p \in Pane : Adaptive => llw[p] \in sched.activated \ W
  OBVIOUS
<1>5. AccountsUpTo(d, d.s.next_pane_id)
  BY <1>1, <1>2, <1>3, <1>4, RepairedAccounts
<1>6. plqTerminated' = FALSE /\ UNCHANGED <<paneSet, results, iop, strategy>>
  BY <1>2, <1>3 DEF workerVars
<1> QED
  BY <1>2, <1>5, <1>6, EmitterAccounts

\* Workers are added: they are frozen, with nothing on the way.
LEMMA AddWorkersAccounts ==
    ASSUME StageInv, PanesInv, NEW W \in SUBSET Worker, AddWorkers(W),
           strategy' = strategy, openedEmpty \subseteq openedEmpty'
    PROVE  AccountsInv(Emitter, plqTerminated)'
<1>1. /\ ~plqTerminated /\ W \cap sched.activated = {}
      /\ (\A w \in W : status[w] = "frozen")
      /\ sched' = [sched EXCEPT !.nw_plq = @ + Cardinality(W),
                                !.activated = @ \cup W]
      /\ UNCHANGED <<queue, paneSet, results, iop, last_P, last_timestamp, plqTerminated>>
  BY DEF AddWorkers
<1>2. /\ EmitterInv(Emitter, FALSE) /\ plqTerminated = FALSE
      /\ AccountsUpTo(Emitter, sched.next_pane_id)
  BY <1>1, EmitterStart, AccountsStart
<1>3. PICK e : e = Emitter
  OBVIOUS
<1>4. /\ e.s = sched /\ e.q = queue
      /\ e.last_P = last_P /\ e.last_timestamp = last_timestamp
  BY <1>3 DEF Emitter
<1>5. e \in EmitterType /\ QueuesInv(e, FALSE) /\ AccountsUpTo(e, sched.next_pane_id)
  BY <1>2, <1>3 DEF EmitterInv
<1>6. sched \in Sched
  BY <1>4, <1>5 DEF EmitterType
<1>7. PICK s : s = sched'
  OBVIOUS
<1>8. PICK k : k = Cardinality(W)
  OBVIOUS
<1>9. PICK z : z = sched.nw_plq + k
  OBVIOUS
<1>10. PICK A : A = sched.activated \cup W
  OBVIOUS
<1>11. s = [sched EXCEPT !.nw_plq = z, !.activated = A]
  BY <1>1, <1>7, <1>8, <1>9, <1>10
<1>12. /\ s.activated = A /\ s.next_pane_id = sched.next_pane_id
       /\ s.holders = sched.holders /\ s.pane_size = sched.pane_size
       /\ s.p_instances = sched.p_instances
  BY <1>6, <1>11 DEF Sched
<1>13. PICK d : d = [e EXCEPT !.s = s]
  OBVIOUS
<1>14. /\ d.s = s /\ d.q = e.q
       /\ d.last_P = e.last_P /\ d.last_timestamp = e.last_timestamp
  BY <1>5, <1>13 DEF EmitterType
<1>15. ASSUME NEW w \in W, NEW p \in Pane PROVE ~Has(DOMAIN paneSet[w], e.q[w], p)
  <2>1. PICK D : D = DOMAIN paneSet[w]
    OBVIOUS
  <2>2. PICK x : x = e.q[w]
    OBVIOUS
  <2>3. Phase(status[w], D, x, FALSE, w \in e.s.activated)
    BY <1>5, <2>1, <2>2 DEF QueuesInv
  <2>4. D = {} /\ x = <<>>
    <3>1. (w \in e.s.activated) = FALSE /\ status[w] = "frozen"
      BY <1>1, <1>4
    <3> QED
      BY <2>3, <3>1 DEF Phase
  <2> QED
    BY <2>1, <2>2, <2>4 DEF Has
<1>16. AccountsUpTo(d, d.s.next_pane_id)
  <2>1. \A w \in d.s.activated \ e.s.activated :
           \A p \in Pane : ~Has(DOMAIN paneSet[w], d.q[w], p)
    BY <1>4, <1>10, <1>12, <1>14, <1>15
  <2>2. \A p \in Pane : SamePane(e.s, d.s, p)
    BY <1>4, <1>12, <1>14 DEF SamePane
  <2>3. d.s.next_pane_id = e.s.next_pane_id /\ AccountsUpTo(e, d.s.next_pane_id)
    BY <1>4, <1>5, <1>12, <1>14
  <2> QED
    BY <1>14, <2>1, <2>2, <2>3, WiderAccounts
<1>17. Update(d)
  BY <1>1, <1>4, <1>7, <1>14 DEF Update
<1>18. plqTerminated' = FALSE /\ UNCHANGED <<paneSet, results, iop, strategy>>
  BY <1>1, <1>2
<1> QED
  BY <1>16, <1>17, <1>18, EmitterAccounts

-----------------------------------------------------------------------------
(* The end of the stream                                                   *)

\* A worker is told that the stream has ended.
LEMMA EndSame ==
    ASSUME NEW r, NEW x \in Seq(Message), NEW D, NEW next, Flushes(D, x, next),
           NEW y, y = x \o <<END, EOS>>
    PROVE  /\ y \in Seq(Message)
           /\ \A p, final : Same(r, x, y, p, final)
           /\ Flushes(D, y, next)
<1>1. PICK m \in Message : m = END
  BY MessagesSent
<1>2. PICK g \in Message : g = EOS
  BY MessagesSent
<1>3. /\ m.type \notin Naming \cup {"LULL", "PUNCT", "FLUSH"}
      /\ g.type \notin Naming \cup {"LULL", "PUNCT", "FLUSH"}
  BY <1>1, <1>2 DEF END, EOS, Naming
<1>4. PICK z : z = Append(x, m)
  OBVIOUS
<1>5. z \in Seq(Message) /\ \A j \in DOMAIN z : (j \in DOMAIN x /\ z[j] = x[j]) \/ z[j] = m
  BY <1>4, AppendQueue
<1>6. y = Append(z, g)
  BY <1>1, <1>2, <1>4
<1>7. y \in Seq(Message) /\ \A j \in DOMAIN y : (j \in DOMAIN z /\ y[j] = z[j]) \/ y[j] = g
  <2>1. PICK v : v = Append(z, g)
    OBVIOUS
  <2>2. v \in Seq(Message) /\ \A j \in DOMAIN v : (j \in DOMAIN z /\ v[j] = z[j]) \/ v[j] = g
    BY ONLY <1>2, <1>5, <2>1, AppendQueue
  <2> QED
    BY ONLY <1>6, <2>1, <2>2
<1>8. \A j \in DOMAIN y : (j \in DOMAIN x /\ y[j] = x[j]) \/ y[j] = m \/ y[j] = g
  BY <1>5, <1>7
<1>9. ASSUME NEW p, NEW final PROVE Same(r, x, y, p, final)
  <2>1. Same(r, x, z, p, final)
    BY <1>3, <1>4, AppendElsewhere DEF Names
  <2>2. Same(r, z, y, p, final)
    BY <1>3, <1>5, <1>6, AppendElsewhere DEF Names
  <2> QED
    BY <2>1, <2>2, SameTwice
<1>10. ASSUME NEW i \in DOMAIN y, y[i].type = "FLUSH" PROVE i \in DOMAIN x /\ x[i] = y[i]
  BY <1>3, <1>8, <1>10
<1>11. ASSUME NEW j \in DOMAIN y, NEW p, Names(y[j], p) PROVE j \in DOMAIN x /\ x[j] = y[j]
  BY <1>3, <1>8, <1>11 DEF Names
<1>12. Flushes(D, y, next)
  BY <1>10, <1>11 DEF Flushes
<1> QED
  BY <1>7, <1>9, <1>12

\* The account of a pane that is not closed is closed by the end of the stream.
LEMMA AccountEnds ==
    ASSUME NEW e \in EmitterType, NEW d, QueuesInv(e, FALSE), NEW p \in Pane,
           NEW closed, Account(e, p, closed, FALSE),
           ~closed => p >= e.s.next_pane_id /\ e.s.holders[p] \subseteq e.s.activated,
           \A w \in Worker : \A final : Same(paneSet[w], e.q[w], d.q[w], p, final),
           SamePane(e.s, d.s, p)
    PROVE  Account(d, p, closed, TRUE)
<1>1. \A w \in Worker : Same(paneSet[w], e.q[w], d.q[w], p, TRUE)
  OBVIOUS
<1>2. Sound(d, p, closed) => Sound(e, p, closed)
  BY DEF Sound, SamePane
<1>3. PartsToCome(d, p) = PartsToCome(e, p) /\ TuplesToCome(d, p) = TuplesToCome(e, p)
  BY <1>1 DEF PartsToCome, TuplesToCome, Same
<1>4. Balanced(e, p) => Balanced(d, p)
  BY <1>3 DEF Balanced, SamePane
<1>5. Agreed(e, p) => Agreed(d, p)
  BY <1>1 DEF Agreed, Same, SamePane
<1>6. ASSUME Announced(e, p, closed \/ FALSE) PROVE Announced(d, p, closed \/ TRUE)
  <2>1. ASSUME e.s.p_instances[p] > 0, results[p].counts = {}
        PROVE  \E w \in Worker : WillTell(DOMAIN paneSet[w], e.q[w], p)
    <3>1. CASE closed
      BY <1>6, <2>1, <3>1 DEF Announced
    <3>2. CASE ~closed
      <4>1. Tracked(e, p) /\ p >= e.s.next_pane_id
        BY <3>2 DEF Account
      <4>2. PICK w : w \in e.s.holders[p] /\ w \in e.s.activated
        <5>1. PICK n : n = e.s.p_instances[p]
          OBVIOUS
        <5>2. n > 0 /\ n \in Nat
          BY <2>1, <5>1 DEF EmitterType, Sched
        <5>3. n # 0
          BY ONLY <5>2
        <5> QED
          BY <3>2, <4>1, <5>1, <5>3 DEF Tracked
      <4>3. w \in Worker /\ Has(DOMAIN paneSet[w], e.q[w], p) /\ ~Anonymous(e.q[w], p)
        BY <4>1, <4>2, OfActive
      <4> QED
        BY <4>3 DEF WillTell
    <3> QED
      BY <3>1, <3>2
  <2> QED
    BY <1>1, <1>6, <2>1 DEF Announced, Same, SamePane
<1>7. LullsClosed(e, p, closed) => LullsClosed(d, p, closed)
  <2> SUFFICES ASSUME LullsClosed(e, p, closed), NEW w \in Worker,
                      NEW j \in About(d.q[w], "LULL", p)
               PROVE  closed /\ d.s.p_instances[p] = 1 /\ d.q[w][j].no_instances = 1
    BY DEF LullsClosed
  <2>1. PICK i \in About(e.q[w], "LULL", p) : e.q[w][i] = d.q[w][j]
    BY <1>1 DEF Same
  <2> QED
    BY <2>1 DEF LullsClosed, SamePane
<1> QED
  BY <1>2, <1>4, <1>5, <1>6, <1>7 DEF Account, SamePane

\* The stream ends.
LEMMA EndOfStreamAccounts ==
    ASSUME StageInv, PanesInv, EndOfStream(Taken(kslack.buffer)), strategy' = strategy,
           openedEmpty \subseteq openedEmpty'
    PROVE  AccountsInv(Emitter, plqTerminated)'
<1>1. PICK x : x = kslack.buffer
  OBVIOUS
<1>2. PICK e : e = Taken(x)
  OBVIOUS
<1>3. PICK qs : qs = [w \in Worker |-> e.q[w] \o <<END, EOS>>]
  OBVIOUS
<1>4. /\ ~plqTerminated /\ plqTerminated' = TRUE
      /\ Update([e EXCEPT !.s.activated = Worker, !.q = qs])
      /\ UNCHANGED <<paneSet, results, iop>>
  BY <1>1, <1>2, <1>3 DEF EndOfStream
<1>5. /\ EmitterInv(Emitter, FALSE) /\ Slack(kslack)
      /\ (~iop => kslack.buffer = <<>>)
      /\ strategy \in {"PB_RR", "TB_RR", "ADAPTIVE"} /\ (Adaptive => ~iop)
      /\ AccountsUpTo(Emitter, sched.next_pane_id)
  BY <1>4, EmitterStart, AccountsStart
<1>6. x \in Seq(Timestamp) /\ (iop \/ x = <<>>)
  BY <1>1, <1>5 DEF Slack, KSlackType
<1>7. EmitterInv(e, FALSE)
  BY <1>2, <1>5, <1>6, TakenKeeps
<1>8. AccountsUpTo(e, e.s.next_pane_id)
  BY <1>2, <1>5, <1>6, TakenAccounts
<1>9. /\ e \in EmitterType /\ QueuesInv(e, FALSE)
      /\ \A p \in Pane : p >= e.s.next_pane_id => PaneInv(e.s, p)
  BY <1>7 DEF EmitterInv
<1>10. PICK t : t = [e EXCEPT !.s.activated = Worker]
  OBVIOUS
<1>11. /\ t \in EmitterType
       /\ t.last_P = e.last_P /\ t.last_timestamp = e.last_timestamp
       /\ t.s.next_pane_id = e.s.next_pane_id /\ t.s.holders = e.s.holders
       /\ t.s.pane_size = e.s.pane_size /\ t.s.p_instances = e.s.p_instances
  BY <1>9, <1>10 DEF EmitterType, Sched
<1>12. PICK d : d = [t EXCEPT !.q = qs]
  OBVIOUS
<1>13. d.s = t.s /\ d.q = qs
  BY <1>11, <1>12 DEF EmitterType
<1>14. Update(d)
  BY <1>4, <1>10, <1>12
<1>15. ASSUME NEW w \in Worker
       PROVE  /\ \A p, final : Same(paneSet[w], e.q[w], d.q[w], p, final)
              /\ Flushes(DOMAIN paneSet[w], d.q[w], e.s.next_pane_id)
  <2>1. PICK r : r = paneSet[w]
    OBVIOUS
  <2>2. PICK y \in Seq(Message) : y = e.q[w]
    BY <1>9 DEF EmitterType
  <2>3. PICK D : D = DOMAIN paneSet[w]
    OBVIOUS
  <2>4. PICK next : next = e.s.next_pane_id
    OBVIOUS
  <2>5. PICK z : z = y \o <<END, EOS>>
    OBVIOUS
  <2>6. Flushes(D, y, next)
    BY <1>8, <2>2, <2>3, <2>4 DEF AccountsUpTo
  <2>7. Flushes(D, z, next) /\ \A p, final : Same(r, y, z, p, final)
    BY ONLY <2>2, <2>5, <2>6, EndSame
  <2>8. d.q[w] = z
    BY <1>3, <1>13, <2>2, <2>5
  <2> QED
    BY <2>1, <2>2, <2>3, <2>4, <2>7, <2>8
<1>16. d.s.next_pane_id = e.s.next_pane_id
  BY <1>11, <1>13
<1>17. ASSUME NEW p \in Pane PROVE Account(d, p, p < d.s.next_pane_id, TRUE)
  <2>1. PICK next : next = e.s.next_pane_id
    OBVIOUS
  <2>2. next \in Nat /\ p \in Nat
    BY <1>9, <2>1, WorkersAreNumbers DEF EmitterType, Sched
  <2>3. PICK closed : closed = (p < next)
    BY Zenon
  <2>4. Account(e, p, closed, FALSE)
    BY <1>8, <2>1, <2>3 DEF AccountsUpTo
  <2>5. ~closed => p >= next
    <3>1. ~closed => ~(p < next)
      BY <2>3, Zenon
    <3> QED
      BY ONLY <2>2, <3>1
  <2>6. ~closed => p >= e.s.next_pane_id /\ e.s.holders[p] \subseteq e.s.activated
    BY <1>9, <2>1, <2>5 DEF PaneInv
  <2>7. SamePane(e.s, d.s, p)
    BY <1>11, <1>13 DEF SamePane
  <2>8. \A w \in Worker : \A final : Same(paneSet[w], e.q[w], d.q[w], p, final)
    BY <1>15
  <2>9. Account(d, p, closed, TRUE)
    BY <1>9, <2>4, <2>6, <2>7, <2>8, AccountEnds
  <2> QED
    BY <1>16, <2>1, <2>3, <2>9
<1>18. AccountsInv(d, TRUE)
  BY <1>15, <1>16, <1>17 DEF AccountsInv
<1>19. PICK over : over = TRUE
  OBVIOUS
<1> QED
  BY <1>4, <1>14, <1>18, <1>19, UpdateAccounts

-----------------------------------------------------------------------------
(* The theorems                                                            *)

\* A worker that has been sent nothing but the order to freeze is to deliver
\* nothing.
LEMMA NothingSent ==
    ASSUME NEW x, x = <<>> \/ x = <<GO_OUT>>, NEW p
    PROVE  /\ PartsAt(EmptyDeque, x, p) = 0 /\ TuplesAt(EmptyDeque, x, p) = 0
           /\ \A n : Tells(EmptyDeque, x, p, n)
           /\ ~Has(DOMAIN EmptyDeque, x, p) /\ About(x, "LULL", p) = {}
           /\ \A next : Flushes(DOMAIN EmptyDeque, x, next)
<1>1. \A i \in DOMAIN x : x[i].type = "GO_OUT"
  BY DEF GO_OUT
<1>2. DOMAIN EmptyDeque = {}
  BY EmptyDequeIsDeque
<1>3. About(x, "LULL", p) = {} /\ About(x, "REGULAR", p) = {}
  BY <1>1 DEF About
<1>4. Cardinality({}) = 0
  BY FS_EmptySet
<1>5. ~Has(DOMAIN EmptyDeque, x, p)
  BY <1>1, <1>2 DEF Has, Makes, Making
<1>6. \A n : Tells(EmptyDeque, x, p, n)
  BY <1>1, <1>2 DEF Tells, Names, Naming
<1>7. \A next : Flushes(DOMAIN EmptyDeque, x, next)
  BY <1>1, <1>2 DEF Flushes
<1>8. PartsAt(EmptyDeque, x, p) = 0 /\ TuplesAt(EmptyDeque, x, p) = 0
  <2>1. /\ Cardinality(About(x, "LULL", p)) = 0
        /\ Cardinality(About(x, "REGULAR", p)) = 0
    BY ONLY <1>3, <1>4
  <2>2. p \notin DOMAIN EmptyDeque
    BY <1>2
  <2>3. PartsAt(EmptyDeque, x, p) = 0
    BY <1>5, <2>1 DEF PartsAt
  <2>4. TuplesAt(EmptyDeque, x, p) = 0
    BY ONLY <2>1, <2>2 DEF TuplesAt
  <2> QED
    BY <2>3, <2>4
<1> QED
  BY <1>3, <1>5, <1>6, <1>7, <1>8

\* The accounts are empty initially.
LEMMA InitAccounts == Init => PanesInv
<1> SUFFICES ASSUME Init PROVE PanesInv
  OBVIOUS
<1>1. PICK s : s = IF Adaptive THEN AdaptiveInit ELSE SchedInit
  OBVIOUS
<1>2. InitWith(s)
  BY <1>1 DEF Init
<1>3. /\ sched = s /\ plqTerminated = FALSE
      /\ queue = [w \in Worker |-> IF w < NW_PLQ THEN <<>> ELSE <<GO_OUT>>]
      /\ paneSet = [w \in Worker |-> EmptyDeque]
      /\ results = [p \in Pane |-> [parts |-> 0, tuples |-> 0, counts |-> {}]]
  BY <1>2 DEF InitWith
<1>4. Emitter.s = s /\ Emitter.q = queue
  BY <1>3 DEF Emitter
<1>5. /\ s.next_pane_id = 0
      /\ \A p \in Pane : s.holders[p] = {} /\ s.pane_size[p] = 0 /\ s.p_instances[p] = 0
  <2>1. s = SchedInit \/ s = [SchedInit EXCEPT !.warmup = TRUE]
    BY <1>1 DEF AdaptiveInit
  <2> QED
    BY <2>1 DEF SchedInit
<1>6. \A p \in Pane : (p < Emitter.s.next_pane_id) = FALSE
  <2>1. ASSUME NEW p \in Pane PROVE ~(p < 0)
    BY WorkersAreNumbers
  <2> QED
    BY <1>4, <1>5, <2>1
<1>7. ASSUME NEW w \in Worker, NEW p
      PROVE  /\ PartsAt(paneSet[w], queue[w], p) = 0 /\ TuplesAt(paneSet[w], queue[w], p) = 0
             /\ \A n : Tells(paneSet[w], queue[w], p, n)
             /\ ~Has(DOMAIN paneSet[w], queue[w], p) /\ About(queue[w], "LULL", p) = {}
             /\ \A next : Flushes(DOMAIN paneSet[w], queue[w], next)
  <2>1. PICK x : x = queue[w]
    OBVIOUS
  <2>2. x = <<>> \/ x = <<GO_OUT>>
    BY <1>3, <2>1
  <2>3. paneSet[w] = EmptyDeque
    BY <1>3
  <2> QED
    BY <2>1, <2>2, <2>3, NothingSent
<1>8. ASSUME NEW p \in Pane PROVE Account(Emitter, p, FALSE, FALSE)
  <2>1. PICK f : f = PartsToCome(Emitter, p)
    OBVIOUS
  <2>2. PICK g : g = TuplesToCome(Emitter, p)
    OBVIOUS
  <2>3. /\ f \in [Worker -> Nat] /\ \A w \in Worker : f[w] = 0
        /\ g \in [Worker -> Nat] /\ \A w \in Worker : g[w] = 0
    BY <1>4, <1>7, <2>1, <2>2 DEF PartsToCome, TuplesToCome
  <2>4. SumFunction(f) = 0
    BY ONLY <2>3, FiniteWorkers, SumZero
  <2>5. SumFunction(g) = 0
    BY ONLY <2>3, FiniteWorkers, SumZero
  <2>6. Balanced(Emitter, p)
    BY <1>3, <1>4, <1>5, <2>1, <2>2, <2>4, <2>5 DEF Balanced
  <2>7. Agreed(Emitter, p)
    BY <1>4, <1>7 DEF Agreed
  <2>8. Announced(Emitter, p, FALSE)
    BY <1>3 DEF Announced
  <2>9. Tracked(Emitter, p)
    <3>1. Emitter.s.holders[p] = {} /\ Emitter.s.pane_size[p] = 0
          /\ Emitter.s.p_instances[p] = 0
      BY <1>4, <1>5
    <3>2. \A w \in Emitter.s.activated : ~Has(DOMAIN paneSet[w], Emitter.q[w], p)
      <4>1. StageInv
        BY InitKeeps
      <4>2. Emitter.s.activated \subseteq Worker
        BY <4>1 DEF StageInv, EmitterInv, EmitterType, Sched
      <4> QED
        BY <1>4, <1>7, <4>2
    <3> QED
      BY <3>1, <3>2 DEF Tracked
  <2>10. LullsClosed(Emitter, p, FALSE)
    BY <1>4, <1>7 DEF LullsClosed
  <2> QED
    BY <2>6, <2>7, <2>8, <2>9, <2>10 DEF Account
<1>9. \A w \in Worker :
         Flushes(DOMAIN paneSet[w], Emitter.q[w], Emitter.s.next_pane_id)
  BY <1>4, <1>7
<1>10. AccountsInv(Emitter, plqTerminated)
  BY <1>3, <1>6, <1>8, <1>9 DEF AccountsInv
<1>11. OpenedInv
  BY <1>3, <1>5 DEF OpenedInv
<1> QED
  BY <1>10, <1>11 DEF PanesInv

\* The accounts are kept when nothing changes.
LEMMA StutterAccounts ==
    ASSUME PanesInv, UNCHANGED <<vars, strategy>>, openedEmpty \subseteq openedEmpty'
    PROVE  AccountsInv(Emitter, plqTerminated)'
<1>1. PICK e : e = Emitter
  OBVIOUS
<1>2. PICK over : over = plqTerminated
  OBVIOUS
<1>3. AccountsInv(e, over)
  BY <1>1, <1>2 DEF PanesInv
<1>4. /\ sched' = e.s /\ queue' = e.q /\ last_P' = e.last_P
      /\ last_timestamp' = e.last_timestamp
  BY <1>1 DEF vars, emitterVars, workerVars, Emitter
<1>5. Update(e)
  BY <1>4 DEF Update
<1>6. plqTerminated' = over /\ UNCHANGED <<paneSet, results, iop, strategy>>
  BY <1>2 DEF vars, emitterVars, workerVars
<1> QED
  BY <1>3, <1>5, <1>6, UpdateAccounts

\* The accounts are kept by every step.
LEMMA NextAccounts ==
    ASSUME StageInv, PanesInv, [Next]_stageVars
    PROVE  PanesInv'
<1>1. CASE UNCHANGED stageVars
  <2>1. /\ UNCHANGED <<vars, strategy>> /\ openedEmpty' = openedEmpty
        /\ sched' = sched
    BY <1>1 DEF stageVars, vars, emitterVars
  <2>2. AccountsInv(Emitter, plqTerminated)'
    BY <2>1, StutterAccounts
  <2>3. OpenedInv'
    BY <2>1 DEF PanesInv, OpenedInv
  <2> QED
    BY <2>2, <2>3 DEF PanesInv
<1>2. CASE Next
  <2>1. /\ strategy' = strategy
        /\ openedEmpty' = openedEmpty \cup
              {p \in Pane : sched'.holders[p] # {} /\ sched'.pane_size[p] = 0}
    BY <1>2 DEF Next
  <2>2. openedEmpty \subseteq openedEmpty'
    BY <2>1
  <2>3. OpenedInv'
    BY <2>1 DEF OpenedInv
  <2> SUFFICES AccountsInv(Emitter, plqTerminated)'
    BY <2>3 DEF PanesInv
  <2>4. CASE StreamOOP
    BY <2>1, <2>2, <2>4, StreamOOPAccounts
  <2>5. CASE StreamIOP
    BY <2>1, <2>2, <2>5, StreamIOPAccounts
  <2>6. CASE EndOfStream(Taken(kslack.buffer))
    BY <2>1, <2>2, <2>6, EndOfStreamAccounts
  <2>7. CASE Reconfigure
    <3>1. CASE \E W \in SUBSET Worker : AddWorkers(W)
      BY <2>1, <2>2, <3>1, AddWorkersAccounts
    <3>2. CASE \E W \in SUBSET Worker :
                 \E llw \in [Pane -> IF Adaptive THEN sched.activated \ W ELSE LeastLoaded] :
                   RemoveWorkers(W, Repaired(W, llw))
      BY <2>1, <2>2, <3>2, RemoveWorkersAccounts
    <3> QED
      BY <2>7, <3>1, <3>2 DEF Reconfigure
  <2>8. CASE \E w \in Worker : WorkerStep(w)
    <3>1. AccountsInv(Emitter, plqTerminated)
      BY DEF PanesInv
    <3> QED
      BY <2>1, <2>2, <2>8, <3>1, WorkerAccounts
  <2>9. CASE Done
    BY <2>1, <2>2, <2>9, StutterAccounts DEF Done
  <2> QED
    BY <1>2, <2>4, <2>5, <2>6, <2>7, <2>8, <2>9 DEF Next, StageNext
<1> QED
  BY <1>1, <1>2

\* The accounts hold at every moment of every execution.
THEOREM AccountsAreKept == Spec => [](StageInv /\ PanesInv)
<1>1. Init => StageInv /\ PanesInv
  BY InitKeeps, InitAccounts
<1>2. (StageInv /\ PanesInv) /\ [Next]_stageVars => (StageInv /\ PanesInv)'
  BY NextKeeps, NextAccounts
<1> QED
  BY <1>1, <1>2, PTL DEF Spec

\* Of a pane that has left the stage nothing is to come.
LEMMA NothingToCome ==
    ASSUME StageInv, NEW p \in Pane, ~InFlight(p)
    PROVE  /\ SumFunction(PartsToCome(Emitter, p)) = 0
           /\ SumFunction(TuplesToCome(Emitter, p)) = 0
           /\ \A w \in Worker : ~WillTell(DOMAIN paneSet[w], Emitter.q[w], p)
<1>1. Emitter.q = queue
  BY DEF Emitter
<1>2. ASSUME NEW w \in Worker
      PROVE  /\ PartsAt(paneSet[w], queue[w], p) = 0 /\ TuplesAt(paneSet[w], queue[w], p) = 0
             /\ ~WillTell(DOMAIN paneSet[w], queue[w], p)
  <2>1. \A i \in DOMAIN queue[w] :
           ~(queue[w][i].type \in PartitionTypes /\ queue[w][i].pane_id = p)
    BY DEF InFlight, ToSet
  <2>2. p \notin DOMAIN paneSet[w]
    BY DEF InFlight
  <2>3. About(queue[w], "LULL", p) = {} /\ About(queue[w], "REGULAR", p) = {}
    BY <2>1 DEF About, PartitionTypes
  <2>4. ~Has(DOMAIN paneSet[w], queue[w], p)
    BY <2>1, <2>2 DEF Has, Makes, Making, PartitionTypes
  <2>5. Cardinality({}) = 0
    BY FS_EmptySet
  <2>6. PartsAt(paneSet[w], queue[w], p) = 0 /\ TuplesAt(paneSet[w], queue[w], p) = 0
    BY <2>2, <2>3, <2>4, <2>5 DEF PartsAt, TuplesAt
  <2> QED
    BY <2>3, <2>4, <2>6 DEF WillTell
<1>3. PICK f : f = PartsToCome(Emitter, p)
  OBVIOUS
<1>4. PICK g : g = TuplesToCome(Emitter, p)
  OBVIOUS
<1>5. /\ f \in [Worker -> Nat] /\ \A w \in Worker : f[w] = 0
      /\ g \in [Worker -> Nat] /\ \A w \in Worker : g[w] = 0
  BY <1>1, <1>2, <1>3, <1>4 DEF PartsToCome, TuplesToCome
<1>6. SumFunction(f) = 0
  BY ONLY <1>5, FiniteWorkers, SumZero
<1>7. SumFunction(g) = 0
  BY ONLY <1>5, FiniteWorkers, SumZero
<1> QED
  BY <1>1, <1>2, <1>3, <1>4, <1>6, <1>7

\* Every pane is delivered whole, whatever splits, removals and additions of
\* workers it went through while it was open: when the last of it has left the
\* stage, the next stage has got all its partitions and all its tuples, and has
\* been told the number of the partitions and no other (p_instances of sched_plq.hpp).
THEOREM PanesAreComplete == Spec => []PaneComplete
<1>1. StageInv /\ PanesInv => PaneComplete
  <2> SUFFICES ASSUME StageInv, PanesInv, NEW p \in Pane, Promised(p), ~InFlight(p),
                      p < sched.next_pane_id \/ (plqTerminated /\ sched.p_instances[p] > 0)
               PROVE  results[p] = [parts  |-> sched.p_instances[p],
                                    tuples |-> sched.pane_size[p],
                                    counts |-> {sched.p_instances[p]}]
    BY DEF PaneComplete, DeliveredWhole
  <2>1. Emitter.s = sched
    BY DEF Emitter
  <2>2. PICK closed : closed = (p < sched.next_pane_id)
    BY Zenon
  <2>3. Account(Emitter, p, closed, plqTerminated)
    BY <2>1, <2>2 DEF PanesInv, AccountsInv
  <2>4. Sound(Emitter, p, closed)
    <3>1. ASSUME Adaptive PROVE strategy # "PB_RR"
      BY <3>1 DEF Adaptive
    <3> QED
      BY <2>1, <3>1 DEF Sound, Promised
  <2>5. /\ Balanced(Emitter, p) /\ Announced(Emitter, p, closed \/ plqTerminated)
        /\ closed => sched.p_instances[p] > 0
    BY <2>1, <2>3, <2>4 DEF Account
  <2>6. PICK r : r = results[p]
    OBVIOUS
  <2>7. r \in [parts : Nat, tuples : Nat, counts : SUBSET Nat]
    BY <2>6 DEF StageInv, TypeInv
  <2>8. PICK n : n = sched.p_instances[p]
    OBVIOUS
  <2>9. PICK k : k = sched.pane_size[p]
    OBVIOUS
  <2>10. r.parts = n /\ r.tuples = k
    <3>1. r.parts + 0 = n /\ r.tuples + 0 = k
      BY <2>1, <2>5, <2>6, <2>8, <2>9, NothingToCome DEF Balanced
    <3>2. r.parts \in Nat /\ r.tuples \in Nat
      BY <2>7
    <3> QED
      BY ONLY <3>1, <3>2
  <2>11. n > 0 /\ (closed \/ plqTerminated)
    BY <2>2, <2>5, <2>8
  <2>12. r.counts = {n}
    <3>1. r.counts \subseteq {n}
      BY <2>1, <2>5, <2>6, <2>8 DEF Announced
    <3>2. r.counts # {}
      BY <2>1, <2>5, <2>6, <2>8, <2>11, NothingToCome DEF Announced
    <3> QED
      BY <3>1, <3>2
  <2>13. r = [parts |-> n, tuples |-> k, counts |-> {n}]
    BY ONLY <2>7, <2>10, <2>12
  <2> QED
    BY <2>6, <2>8, <2>9, <2>13
<1> QED
  BY <1>1, AccountsAreKept, PTL

-----------------------------------------------------------------------------
(* The refinement                                                          *)

\* What the next stage has got of pane p has not changed, or is one more
\* partition and what it tells.
OnePart(p) ==
    \/ results'[p] = results[p]
    \/ /\ results'[p].parts = results[p].parts + 1
       /\ results[p].counts \subseteq results'[p].counts

\* A step delivers at most one partition of each pane.
LEMMA StepDelivers ==
    ASSUME StageInv, [Next]_stageVars, NEW p \in Pane
    PROVE  OnePart(p)
<1>1. ASSUME NEW rs, Deliver(rs) PROVE OnePart(p)
  BY <1>1 DEF Deliver, OnePart
<1>2. ASSUME results' = results PROVE OnePart(p)
  BY <1>2 DEF OnePart
<1>3. CASE UNCHANGED stageVars
  BY <1>2, <1>3 DEF stageVars, vars, workerVars
<1>4. CASE StreamOOP \/ StreamIOP
  BY <1>2, <1>4 DEF StreamOOP, StreamIOP, processNewTuple, workerVars
<1>5. CASE EndOfStream(Taken(kslack.buffer))
  BY <1>2, <1>5 DEF EndOfStream
<1>6. CASE Reconfigure
  BY <1>2, <1>6 DEF Reconfigure, AddWorkers, RemoveWorkers, workerVars
<1>7. CASE Done
  BY <1>2, <1>7 DEF Done, vars, workerVars
<1>8. CASE \E w \in Worker : WorkerStep(w)
  <2>1. PICK w \in Worker : WorkerStep(w)
    BY <1>8
  <2>2. CASE RcvPunct(w) \/ RcvEnd(w) \/ RcvFlush(w) \/ RcvLull(w) \/ RcvInOrder(w)
    BY <1>1, <2>2 DEF RcvPunct, RcvEnd, RcvFlush, RcvLull, RcvInOrder
  <2>3. CASE RcvNewInst(w) \/ RcvTuple(w) \/ Leave(w)
    BY <1>2, <2>3 DEF RcvNewInst, RcvTuple, Leave
  <2> QED
    BY <2>1, <2>2, <2>3 DEF WorkerStep
<1> QED
  BY <1>3, <1>4, <1>5, <1>6, <1>7, <1>8 DEF Next, StageNext

\* By panes: there is a number that is not exceeded, and no other is told.
Within ==
    strategy = "PB_RR" =>
        \A p \in Pane : /\ results[p].parts \in Nat
                        /\ \E n \in Nat : /\ results[p].counts \subseteq {n}
                                          /\ results[p].parts <= n

LEMMA AccountsWithin == StageInv /\ PanesInv => Within
<1> SUFFICES ASSUME StageInv, PanesInv, strategy = "PB_RR", NEW p \in Pane
             PROVE  /\ results[p].parts \in Nat
                    /\ \E n \in Nat : /\ results[p].counts \subseteq {n}
                                      /\ results[p].parts <= n
  BY DEF Within
<1>1. Emitter.s = sched /\ Emitter.q = queue
  BY DEF Emitter
<1>2. PICK closed : closed = (p < sched.next_pane_id)
  BY Zenon
<1>3. Account(Emitter, p, closed, plqTerminated)
  BY <1>1, <1>2 DEF PanesInv, AccountsInv
<1>4. Sound(Emitter, p, closed)
  BY DEF Sound, Adaptive
<1>5. Balanced(Emitter, p) /\ results[p].counts \subseteq {sched.p_instances[p]}
  BY <1>1, <1>3, <1>4 DEF Account, Announced
<1>6. PICK n \in Nat : n = sched.p_instances[p]
  BY <1>1 DEF StageInv, EmitterInv, EmitterType, Sched
<1>7. PICK k \in Nat : k = results[p].parts
  BY DEF StageInv, TypeInv
<1>8. PICK f : f = PartsToCome(Emitter, p)
  OBVIOUS
<1>9. f \in [Worker -> Nat]
  <2>1. \A w \in Worker : paneSet[w] \in Deque /\ Emitter.q[w] \in Seq(Message)
    BY DEF StageInv, EmitterInv, EmitterType, TypeInv
  <2> QED
    BY <1>8, <2>1, ToComeType DEF PartsToCome
<1>10. PICK h : h = SumFunction(f)
  OBVIOUS
<1>11. h \in Nat
  BY ONLY <1>9, <1>10, FiniteWorkers, SumIsCount, FS_CardinalityType
<1>12. k + h = n
  BY <1>1, <1>5, <1>6, <1>7, <1>8, <1>10 DEF Balanced
<1>13. k <= n
  BY ONLY k \in Nat, n \in Nat, <1>11, <1>12
<1> QED
  BY <1>5, <1>6, <1>7, <1>13

\* With the pane-based strategy the stage keeps the promise on which
\* Win_Descr_t::updateCount and toFinalize of wlq.hpp rely: the numbers of
\* partitions that are announced of a pane agree, and no more partitions than
\* that are delivered.
THEOREM StageKeepsPromise == Spec => RefinesPartitions
<1> DEFINE delivered == [p \in Pane |-> IF strategy = "PB_RR" THEN results[p].parts ELSE 0]
           announced == [p \in Pane |-> IF strategy = "PB_RR" THEN results[p].counts ELSE {}]
<1>1. Init => Partitions!Init
  BY DEF Init, InitWith, Partitions!Init
<1>2. StageInv /\ Within' /\ [Next]_stageVars => [Partitions!Next]_(Partitions!vars)
  <2> SUFFICES ASSUME StageInv, Within', [Next]_stageVars, NEW p \in Pane
               PROVE  Partitions!Deliver(p) \/ Partitions!Keep(p)
    BY DEF Partitions!Next
  <2>1. strategy' = strategy
    BY DEF Next, stageVars
  <2>2. CASE strategy # "PB_RR"
    BY <2>1, <2>2 DEF Partitions!Keep
  <2>3. CASE strategy = "PB_RR"
    <3>1. PICK r : r = results[p]
      OBVIOUS
    <3>2. PICK t : t = results'[p]
      OBVIOUS
    <3>3. /\ delivered[p] = r.parts /\ announced[p] = r.counts
          /\ delivered'[p] = t.parts /\ announced'[p] = t.counts
      BY <2>1, <2>3, <3>1, <3>2
    <3>4. t = r \/ (t.parts = r.parts + 1 /\ r.counts \subseteq t.counts)
      BY <3>1, <3>2, StepDelivers DEF OnePart
    <3>5. PICK n \in Nat : t.counts \subseteq {n} /\ t.parts <= n
      BY <2>1, <2>3, <3>2 DEF Within
    <3>6. Cardinality(t.counts) <= 1
      <4>1. t.counts = {} \/ t.counts = {n}
        BY <3>5
      <4>2. Cardinality({}) = 0 /\ Cardinality({n}) = 1
        BY FS_EmptySet, FS_Singleton
      <4> QED
        BY <4>1, <4>2
    <3>7. \A m \in t.counts : t.parts <= m
      BY <3>5
    <3>8. \A S : Partitions!Cardinality(S) = Cardinality(S)
      BY DEF Partitions!Cardinality, Cardinality
    <3> HIDE DEF delivered, announced
    <3>9. \/ delivered'[p] = delivered[p] /\ announced'[p] = announced[p]
          \/ /\ delivered'[p] = delivered[p] + 1
             /\ announced[p] \subseteq announced'[p]
             /\ Partitions!Cardinality(announced'[p]) <= 1
             /\ \A m \in announced'[p] : delivered'[p] <= m
      BY <3>3, <3>4, <3>6, <3>7, <3>8
    <3> QED
      BY <3>9 DEF Partitions!Deliver, Partitions!Keep, delivered, announced
  <2> QED
    BY <2>2, <2>3
<1>3. StageInv /\ PanesInv => Within
  BY AccountsWithin
<1> QED
  BY <1>1, <1>2, <1>3, AccountsAreKept, PTL DEF Spec, RefinesPartitions, Partitions!Spec

=============================================================================
