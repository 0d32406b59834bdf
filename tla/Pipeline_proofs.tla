-------------------------- MODULE Pipeline_proofs --------------------------
(***************************************************************************)
(* Proofs about the elastic controller and the emitters of the two stages, *)
(* for any number of threads, any parallelism degrees and any number of    *)
(* commands on their way: the emitters never receive a command that their  *)
(* asserts forbid, and what they do in the end is what the pool says.      *)
(* NUM_WORKER_CORES has to be NUM_WORKER_THREADS: with more contexts than  *)
(* cores the initial workers of the WLQ are not those the pool gives it.   *)
(***************************************************************************)
EXTENDS Pipeline, FiniteSetTheorems, SequenceTheorems, TLAPS

-----------------------------------------------------------------------------
(* The degrees that the fuzzy strategy asks for: no stage that has a worker is
   asked to give up all of them, also after the proportional reduction and its
   two roundings. *)

\* The factors that the rules may give.
Factor == 500..1500

\* The quotient and the rest.
LEMMA Quotient ==
    ASSUME NEW a \in Nat, NEW b \in Nat \ {0}
    PROVE  /\ a \div b \in Nat /\ a % b \in 0..(b - 1)
           /\ a = b * (a \div b) + (a % b)
OBVIOUS

\* A rounded quotient is a natural number, within a half of the quotient.
LEMMA RoundedBounds ==
    ASSUME NEW a \in Nat, NEW b \in Nat \ {0}, NEW up \in BOOLEAN
    PROVE  /\ Rounded(a, b, up) \in Nat
           /\ 2 * a > b => Rounded(a, b, up) >= 1
           /\ (2 * Rounded(a, b, up) - 1) * b <= 2 * a
<1> DEFINE q == a \div b
           p == (2 * a + b) \div (2 * b)
<1>1. q \in Nat /\ a % b \in 0..(b - 1) /\ a = b * q + (a % b)
  BY Quotient
<1>2. p \in Nat /\ 2 * b * p <= 2 * a + b /\ 2 * a + b < 2 * b * p + 2 * b
  <2> DEFINE x == 2 * a + b
             y == 2 * b
             r == x % y
  <2>1. x \in Nat /\ y \in Nat \ {0} /\ p = x \div y
    OBVIOUS
  <2> HIDE DEF x, y, p
  <2>2. p \in Nat /\ r \in 0..(y - 1) /\ x = y * p + r
    BY <2>1, Quotient
  <2>3. y * p \in Nat /\ y * p <= x /\ x < y * p + y
    <3> HIDE DEF r
    <3> QED
      BY <2>1, <2>2
  <2>4. y * p = 2 * b * p
    BY <2>2 DEF y
  <2> QED
    BY <2>2, <2>3, <2>4 DEF x, y
<1> HIDE DEF q, p
<1> QED
  BY <1>1, <1>2 DEF Rounded

\* The degree asked for a stage: at least one, and within half of the present
\* one, up to the rounding.
LEMMA DegreeBounds ==
    ASSUME NEW n \in Nat, NEW v \in Factor
    PROVE  /\ Degree(n, v) \in Nat \ {0}
           /\ n # 0 => 2 * Degree(n, v) <= 3 * n + 1
           /\ n = 0 => Degree(n, v) = 1
<1> DEFINE r == Rounded(n * v, 1000, TRUE)
<1>1. n * v \in Nat /\ n * v <= n * 1500
  BY DEF Factor
<1>2. r \in Nat /\ (2 * r - 1) * 1000 <= 2 * (n * v)
  <2> DEFINE m == n * v
             k == 1000
  <2>1. m \in Nat /\ k \in Nat \ {0} /\ TRUE \in BOOLEAN
    BY <1>1
  <2>2. r = Rounded(m, k, TRUE)
    OBVIOUS
  <2> HIDE DEF m, k, r
  <2>3. r \in Nat /\ (2 * r - 1) * k <= 2 * m
    BY <2>1, <2>2, RoundedBounds
  <2> QED
    BY <2>3 DEF m, k
<1>3. \/ n = 1 /\ Degree(n, v) = 2
      \/ n = 2 /\ Degree(n, v) = 2
      \/ n = 3 /\ Degree(n, v) = 3
      \/ Degree(n, v) = AtLeastOne(r)
  <2> v \in Int
    BY DEF Factor
  <2>1. CASE n = 1 /\ v >= 1250
    BY <2>1 DEF Degree
  <2>2. CASE n = 2 /\ v >= 563 /\ v < 1250
    BY <2>2 DEF Degree
  <2>3. CASE n = 3 /\ v >= 793 /\ v < 1170
    BY <2>3 DEF Degree
  <2>4. CASE /\ ~(n = 1 /\ v >= 1250)
             /\ ~(n = 2 /\ v >= 563 /\ v < 1250)
             /\ ~(n = 3 /\ v >= 793 /\ v < 1170)
    <3> DEFINE m == n * v
    <3>1. m \in Nat
      BY <1>1
    <3> HIDE DEF m
    <3>3. Degree(n, v) = AtLeastOne((2 * m + 1000) \div (2 * 1000))
      BY <2>4, <3>1 DEF Degree, Rounded, m
    <3>4. r = (2 * m + 1000) \div (2 * 1000)
      BY <3>1 DEF Rounded, m
    <3> HIDE DEF r
    <3> QED
      BY <3>3, <3>4
  <2> HIDE DEF r
  <2> QED
    BY <2>1, <2>2, <2>3, <2>4
<1> HIDE DEF r
<1>4. 2 * r <= 3 * n + 1
  <2> DEFINE m == n * v
  <2> HIDE DEF m
  <2>1. m \in Nat /\ m <= n * 1500 /\ (2 * r - 1) * 1000 <= 2 * m
    BY <1>1, <1>2 DEF m
  <2> QED
    BY <2>1, <1>2
<1>5. n = 0 => r = 0
  BY <1>2, <1>4
<1>6. AtLeastOne(r) = r \/ (r = 0 /\ AtLeastOne(r) = 1)
  BY <1>2 DEF AtLeastOne
<1>7. AtLeastOne(r) # 0
  BY <1>2 DEF AtLeastOne
<1> QED
  BY <1>2, <1>3, <1>4, <1>5, <1>6, <1>7

\* The share of the threads that a stage gets by the reduction: a and b are the
\* degrees asked for the stage and for the other one.
LEMMA ShareBounds ==
    ASSUME NEW T \in Nat \ {0, 1}, NEW a \in Nat \ {0}, NEW b \in Nat \ {0},
           NEW up \in BOOLEAN, 2 * b <= 3 * T - 2 \/ b = 1
    PROVE  LET share == Rounded(T * a, a + b, up)
           IN  /\ share \in Nat \ {0}
               /\ 2 * share * (a + b) - (a + b) <= 2 * T * a
<1> DEFINE x == T * a
           y == a + b
           share == Rounded(x, y, up)
<1>1. x \in Nat /\ y \in Nat \ {0}
  OBVIOUS
<1>2. 2 * x > y
  <2>1. x >= a + T - 1
    <3>1. (T - 1) * (a - 1) \in Nat
      OBVIOUS
    <3>2. x = (T - 1) * (a - 1) + a + T - 1
      OBVIOUS
    <3> HIDE DEF x
    <3> QED
      BY <3>1, <3>2
  <2> HIDE DEF x
  <2>2. CASE b = 1
    BY <1>1, <2>1, <2>2
  <2>3. CASE 2 * b <= 3 * T - 2
    BY <1>1, <2>1, <2>3
  <2> QED
    BY <2>2, <2>3
<1>3. /\ share \in Nat /\ share >= 1
      /\ (2 * share - 1) * y <= 2 * x
  <2> HIDE DEF x, y
  <2> QED
    BY <1>1, <1>2, RoundedBounds
<1> HIDE DEF share
<1>4. 2 * share * (a + b) - (a + b) <= 2 * T * a
  BY <1>3
<1> QED
  BY <1>3, <1>4 DEF share

\* A stage that has a worker keeps one, if the degrees are within the threads:
\* FuzzyStrategy::evaluate, also when it reduces the degrees in proportion.
THEOREM KeepsWorkers ==
    ASSUME NEW n \in [{"PLQ", "WLQ"} -> Nat],
           n["PLQ"] + n["WLQ"] <= NUM_WORKER_THREADS,
           NEW v \in [{"PLQ", "WLQ"} -> Factor],
           NEW up \in [{"PLQ", "WLQ"} -> BOOLEAN],
           NEW st \in {"PLQ", "WLQ"}, n[st] # 0
    PROVE  evaluate(n, v, up)[st] \in Nat \ {0}
<1> DEFINE T == NUM_WORKER_THREADS
           a == Degree(n["PLQ"], v["PLQ"])
           b == Degree(n["WLQ"], v["WLQ"])
           p == Rounded(T * a, a + b, up["PLQ"])
           w == Rounded(T * b, a + b, up["WLQ"])
<1>1. T \in Nat \ {0, 1}
  BY FuzzyAssumption
<1>2. /\ n["PLQ"] \in Nat /\ n["WLQ"] \in Nat
      /\ up["PLQ"] \in BOOLEAN /\ up["WLQ"] \in BOOLEAN
      /\ v["PLQ"] \in Factor /\ v["WLQ"] \in Factor
  OBVIOUS
<1>3. /\ a \in Nat \ {0}
      /\ n["PLQ"] # 0 => 2 * a <= 3 * n["PLQ"] + 1
      /\ n["PLQ"] = 0 => a = 1
  BY <1>2, DegreeBounds
<1>4. /\ b \in Nat \ {0}
      /\ n["WLQ"] # 0 => 2 * b <= 3 * n["WLQ"] + 1
      /\ n["WLQ"] = 0 => b = 1
  BY <1>2, DegreeBounds
<1>5. Asked(n, v) = [t \in {"PLQ", "WLQ"} |-> IF t = "PLQ" THEN a ELSE b]
  BY DEF Asked
<1> HIDE DEF a, b
<1>6. CASE Fits(Asked(n, v))
  BY <1>3, <1>4, <1>5, <1>6 DEF evaluate
<1>7. CASE ~Fits(Asked(n, v))
  <2> DEFINE A == Asked(n, v)
  <2>1. A["PLQ"] = a /\ A["WLQ"] = b
    BY <1>5
  <2>2. evaluate(n, v, up) = Reduced(A, up)
    BY <1>7 DEF evaluate
  <2> HIDE DEF A
  <2>3. /\ Reduced(A, up)["PLQ"] = p - (IF p + w > T THEN 1 ELSE 0)
        /\ Reduced(A, up)["WLQ"] = w
    BY <2>1 DEF Reduced
  <2>4. CASE st = "PLQ"
    <3>1. 2 * b <= 3 * T - 2 \/ b = 1
      BY <2>4, <1>1, <1>2, <1>4
    <3>2. p \in Nat \ {0}
      BY <3>1, <1>1, <1>2, <1>3, <1>4, ShareBounds
    <3>3. w \in Nat /\ (2 * w - 1) * (a + b) <= 2 * (T * b)
      <4> DEFINE x == T * b
                 y == a + b
      <4>1. x \in Nat /\ y \in Nat \ {0}
        BY <1>1, <1>3, <1>4
      <4> HIDE DEF x, y
      <4>2. Rounded(x, y, up["WLQ"]) \in Nat
            /\ (2 * Rounded(x, y, up["WLQ"]) - 1) * y <= 2 * x
        BY <4>1, <1>2, RoundedBounds
      <4> QED
        BY <4>2 DEF x, y
    <3> HIDE DEF p, w
    <3>4. ASSUME w >= T PROVE FALSE
      <4>1. (2 * T - 1) * (a + b) <= (2 * w - 1) * (a + b)
        <5>1. (2 * w - 1) * (a + b) = (2 * T - 1) * (a + b) + 2 * ((w - T) * (a + b))
          BY <3>3, <1>1, <1>3, <1>4
        <5>2. (w - T) * (a + b) \in Nat
          BY <3>4, <3>3, <1>1, <1>3, <1>4
        <5> QED
          BY <5>1, <5>2, <3>3, <1>1, <1>3, <1>4
      <4>2. (2 * T - 1) * (a + b) = (2 * T - 1) * a + 2 * (T * b) - b
        BY <1>1, <1>3, <1>4
      <4>3. (2 * T - 1) * a <= b
        BY <4>1, <4>2, <3>3, <1>1, <1>3, <1>4
      <4>4. (2 * T - 1) * a >= 2 * T - 1
        BY <1>1, <1>3
      <4> QED
        BY <4>3, <4>4, <3>1, <1>1, <1>3, <1>4
    <3> QED
      BY <2>2, <2>3, <2>4, <3>2, <3>3, <3>4, <1>1
  <2>5. CASE st = "WLQ"
    <3>1. 2 * a <= 3 * T - 2 \/ a = 1
      BY <2>5, <1>1, <1>2, <1>3
    <3>2. Rounded(T * b, b + a, up["WLQ"]) \in Nat \ {0}
      BY <3>1, <1>1, <1>2, <1>3, <1>4, ShareBounds
    <3>3. b + a = a + b
      BY <1>3, <1>4
    <3> QED
      BY <2>2, <2>3, <2>5, <3>2, <3>3
  <2> QED
    BY <2>4, <2>5
<1> QED
  BY <1>6, <1>7

-----------------------------------------------------------------------------
(* The controller and the emitters. *)

Pool == [Worker -> Stage \cup {"NONE"}]
Command == [type : {"ADD", "REMOVE"}, w_ids : SUBSET Worker]

\* The commands of the sequence ch that mention worker w.
Mentions(ch, w) == {i \in DOMAIN ch : w \in ch[i].w_ids}

\* The commands ch take the workers from the set A, the activated ones, to the
\* set O, the owned ones: those that mention a worker add and remove it in turn.
Follows(ch, A, O) ==
    \A w \in Worker :
        /\ Mentions(ch, w) = {} => (w \in A <=> w \in O)
        /\ \A i \in Mentions(ch, w) :
              /\ (\A j \in Mentions(ch, w) : j <= i) =>
                    (ch[i].type = "ADD" <=> w \in O)
              /\ (\A j \in Mentions(ch, w) : i <= j) =>
                    (ch[i].type = "ADD" <=> w \notin A)
              /\ \A k \in Mentions(ch, w) :
                    i < k /\ (\A j \in Mentions(ch, w) : j <= i \/ k <= j) =>
                        (ch[i].type = "ADD" <=> ch[k].type # "ADD")

ViewType ==
    /\ owner \in Pool
    /\ nw \in [Stage -> Int]
    /\ channel \in [Stage -> Seq(Command)]
    /\ activated \in [Stage -> SUBSET Worker]

CountsRight == \A st \in Stage : nw[st] = Cardinality(Owned(owner, st))

CommandsFollow ==
    \A st \in Stage \ terminated :
        Follows(channel[st], activated[st], Owned(owner, st))

IInv == ViewType /\ CountsRight /\ CommandsFollow

-----------------------------------------------------------------------------
(* Lemmas about commands                                                   *)

\* What a decision about stage st does to the pool: the new resources of the
\* stage were not its own, those it gives up were, and the others stay.
LEMMA ReconfEffect ==
    ASSUME NEW pool \in Pool, NEW st \in Stage, NEW n, NEW cmd \in Reconfs(pool, st, n)
    PROVE  /\ cmd.type \in {"NORECONF", "ADD", "REMOVE"}
           /\ cmd.w_ids \in SUBSET Worker
           /\ cmd.pool \in Pool
           /\ cmd.type = "NORECONF" => cmd.w_ids = {}
           /\ IF cmd.type = "ADD"
              THEN /\ cmd.w_ids \cap Owned(pool, st) = {}
                   /\ Owned(cmd.pool, st) = Owned(pool, st) \cup cmd.w_ids
              ELSE /\ cmd.w_ids \subseteq Owned(pool, st)
                   /\ Owned(cmd.pool, st) = Owned(pool, st) \ cmd.w_ids
           /\ \A t \in Stage \ {st} : Owned(cmd.pool, t) = Owned(pool, t)
<1> st # "NONE" /\ \A t \in Stage : t # "NONE"
  BY DEF Stage
<1>1. CASE n = nw[st]
  <2>1. cmd = [type |-> "NORECONF", w_ids |-> {}, pool |-> pool]
    BY <1>1 DEF Reconfs
  <2> QED
    BY <2>1
<1>2. CASE n # nw[st] /\ n < nw[st]
  <2>1. PICK W \in kSubset(nw[st] - n, Owned(pool, st)) :
           cmd = [type |-> "REMOVE", w_ids |-> W, pool |-> Give(pool, W, "NONE")]
    BY <1>2 DEF Reconfs
  <2>2. W \subseteq Owned(pool, st)
    BY DEF kSubset
  <2>3. Give(pool, W, "NONE") \in Pool
    BY DEF Give, Pool
  <2>4. Owned(Give(pool, W, "NONE"), st) = Owned(pool, st) \ W
    BY DEF Give, Owned, Pool
  <2>5. \A t \in Stage \ {st} : Owned(Give(pool, W, "NONE"), t) = Owned(pool, t)
    BY <2>2 DEF Give, Owned, Pool
  <2>6. W \subseteq Worker
    BY <2>2 DEF Owned
  <2> QED
    BY <2>1, <2>2, <2>3, <2>4, <2>5, <2>6
<1>3. CASE n # nw[st] /\ ~(n < nw[st])
  <2> DEFINE W == Acquired(pool, n - nw[st])
  <2>1. cmd = [type |-> IF W = {} THEN "NORECONF" ELSE "ADD", w_ids |-> W,
               pool |-> Give(pool, W, st)]
    BY <1>3 DEF Reconfs
  <2>2. W \subseteq Available(pool)
    BY DEF Acquired
  <2> HIDE DEF W
  <2>3. Give(pool, W, st) \in Pool
    BY DEF Give, Pool
  <2>4. Owned(Give(pool, W, st), st) = Owned(pool, st) \cup W
    BY <2>2 DEF Give, Owned, Pool, Available
  <2>5. \A t \in Stage \ {st} : Owned(Give(pool, W, st), t) = Owned(pool, t)
    BY <2>2 DEF Give, Owned, Pool, Available
  <2>6. W \subseteq Worker /\ W \cap Owned(pool, st) = {}
    BY <2>2 DEF Owned, Available
  <2> QED
    BY <2>1, <2>3, <2>4, <2>5, <2>6
<1> QED
  BY <1>1, <1>2, <1>3

\* A command sent to the stage, the last of those on the way.
LEMMA FollowsSent ==
    ASSUME NEW ch \in Seq(Command), NEW A, NEW O, NEW P, NEW c \in Command,
           Follows(ch, A, O),
           IF c.type = "ADD" THEN c.w_ids \cap O = {} /\ P = O \cup c.w_ids
           ELSE c.w_ids \subseteq O /\ P = O \ c.w_ids
    PROVE  Follows(Append(ch, c), A, P)
<1> DEFINE new == Append(ch, c)
           n == Len(ch) + 1
<1>1. /\ new \in Seq(Command) /\ Len(new) = n /\ Len(ch) \in Nat
      /\ DOMAIN ch = 1..Len(ch) /\ DOMAIN new = 1..n
      /\ new[n] = c
      /\ \A i \in 1..Len(ch) : new[i] = ch[i]
  BY AppendProperties
<1> HIDE DEF new
<1> SUFFICES ASSUME NEW w \in Worker
             PROVE
        /\ Mentions(new, w) = {} => (w \in A <=> w \in P)
        /\ \A i \in Mentions(new, w) :
              /\ (\A j \in Mentions(new, w) : j <= i) =>
                    (new[i].type = "ADD" <=> w \in P)
              /\ (\A j \in Mentions(new, w) : i <= j) =>
                    (new[i].type = "ADD" <=> w \notin A)
              /\ \A k \in Mentions(new, w) :
                    i < k /\ (\A j \in Mentions(new, w) : j <= i \/ k <= j) =>
                        (new[i].type = "ADD" <=> new[k].type # "ADD")
  BY DEF Follows, new
<1> DEFINE M == Mentions(ch, w)
           N == Mentions(new, w)
<1>2. /\ M \subseteq 1..Len(ch)
      /\ N = IF w \in c.w_ids THEN M \cup {n} ELSE M
  BY <1>1 DEF Mentions
<1>3. /\ M = {} => (w \in A <=> w \in O)
      /\ \A i \in M :
            /\ (\A j \in M : j <= i) => (ch[i].type = "ADD" <=> w \in O)
            /\ (\A j \in M : i <= j) => (ch[i].type = "ADD" <=> w \notin A)
            /\ \A k \in M :
                  i < k /\ (\A j \in M : j <= i \/ k <= j) =>
                      (ch[i].type = "ADD" <=> ch[k].type # "ADD")
  BY DEF Follows
<1> HIDE DEF M, N, n
<1>4. CASE w \notin c.w_ids
  <2>1. w \in P <=> w \in O
    BY <1>4
  <2>2. N = M /\ \A i \in M : new[i] = ch[i]
    BY <1>1, <1>2, <1>4
  <2>3. /\ N = {} => (w \in A <=> w \in P)
        /\ \A i \in N :
              /\ (\A j \in N : j <= i) => (new[i].type = "ADD" <=> w \in P)
              /\ (\A j \in N : i <= j) => (new[i].type = "ADD" <=> w \notin A)
              /\ \A k \in N :
                    i < k /\ (\A j \in N : j <= i \/ k <= j) =>
                        (new[i].type = "ADD" <=> new[k].type # "ADD")
    BY <2>1, <2>2, <1>3
  <2> QED
    BY <2>3 DEF N
<1>5. CASE w \in c.w_ids
  <2>1. /\ c.type = "ADD" <=> w \notin O
        /\ c.type = "ADD" <=> w \in P
    BY <1>5
  <2>2. /\ N = M \cup {n} /\ n \notin M
        /\ n \in Int
        /\ \A i \in M : i \in Int /\ i < n /\ new[i] = ch[i]
    BY <1>1, <1>2, <1>5 DEF n
  <2>3. N # {}
    BY <2>2
  <2>4. ASSUME NEW i \in N, \A j \in N : j <= i
        PROVE  new[i].type = "ADD" <=> w \in P
    <3>1. i = n
      BY <2>2, <2>4
    <3> QED
      BY <3>1, <2>1, <1>1
  <2>5. ASSUME NEW i \in N, \A j \in N : i <= j
        PROVE  new[i].type = "ADD" <=> w \notin A
    <3>1. CASE i = n
      <4>1. M = {}
        BY <3>1, <2>2, <2>5
      <4> QED
        BY <4>1, <3>1, <2>1, <1>1, <1>3
    <3>2. CASE i # n
      <4>1. i \in M /\ new[i] = ch[i] /\ \A j \in M : i <= j
        BY <3>2, <2>2, <2>5
      <4> QED
        BY <4>1, <1>3
    <3> QED
      BY <3>1, <3>2
  <2>6. ASSUME NEW i \in N, NEW k \in N, i < k, \A j \in N : j <= i \/ k <= j
        PROVE  new[i].type = "ADD" <=> new[k].type # "ADD"
    <3>1. i \in M /\ new[i] = ch[i]
      BY <2>2, <2>6
    <3>2. CASE k = n
      <4>1. \A j \in M : j <= i
        BY <3>2, <2>2, <2>6
      <4>2. ch[i].type = "ADD" <=> w \in O
        BY <4>1, <3>1, <1>3
      <4> QED
        BY <4>2, <3>1, <3>2, <2>1, <1>1
    <3>3. CASE k # n
      <4>1. k \in M /\ new[k] = ch[k] /\ \A j \in M : j <= i \/ k <= j
        BY <3>3, <2>2, <2>6
      <4> QED
        BY <4>1, <3>1, <2>6, <1>3
    <3> QED
      BY <3>2, <3>3
  <2> QED
    BY <2>3, <2>4, <2>5, <2>6 DEF N
<1> QED
  BY <1>4, <1>5

\* The first command on the way is one that the emitter accepts.
LEMMA FollowsAccepts ==
    ASSUME NEW ch \in Seq(Command), NEW A, NEW O, Follows(ch, A, O), ch # <<>>
    PROVE  IF Head(ch).type = "ADD" THEN Head(ch).w_ids \cap A = {}
           ELSE Head(ch).w_ids \subseteq A
<1>1. 1 \in DOMAIN ch /\ DOMAIN ch \subseteq Nat \ {0} /\ Head(ch) = ch[1]
  BY EmptySeq
<1>2. Head(ch) \in Command
  BY HeadTailProperties
<1>3. ASSUME NEW w \in Head(ch).w_ids
      PROVE  Head(ch).type = "ADD" <=> w \notin A
  <2>1. w \in Worker
    BY <1>2 DEF Command
  <2>2. 1 \in Mentions(ch, w) /\ \A j \in Mentions(ch, w) : 1 <= j
    BY <1>1 DEF Mentions
  <2> QED
    BY <1>1, <2>1, <2>2 DEF Follows
<1> QED
  BY <1>3

\* The first command is executed: the workers it mentions change their state.
LEMMA FollowsObeyed ==
    ASSUME NEW ch \in Seq(Command), NEW A, NEW O, NEW B, Follows(ch, A, O), ch # <<>>,
           B = IF Head(ch).type = "ADD" THEN A \cup Head(ch).w_ids
               ELSE A \ Head(ch).w_ids
    PROVE  Follows(Tail(ch), B, O)
<1> DEFINE rest == Tail(ch)
           c == Head(ch)
<1>1. /\ rest \in Seq(Command) /\ Len(ch) \in Nat /\ Len(rest) = Len(ch) - 1
      /\ DOMAIN ch = 1..Len(ch) /\ DOMAIN rest = 1..(Len(ch) - 1)
      /\ c = ch[1] /\ 1 \in DOMAIN ch
      /\ \A i \in DOMAIN rest : i + 1 \in DOMAIN ch /\ rest[i] = ch[i + 1]
  BY HeadTailProperties, EmptySeq
<1>2. IF c.type = "ADD" THEN c.w_ids \cap A = {} ELSE c.w_ids \subseteq A
  BY FollowsAccepts
<1> HIDE DEF rest, c
<1> SUFFICES ASSUME NEW w \in Worker
             PROVE
        /\ Mentions(rest, w) = {} => (w \in B <=> w \in O)
        /\ \A i \in Mentions(rest, w) :
              /\ (\A j \in Mentions(rest, w) : j <= i) =>
                    (rest[i].type = "ADD" <=> w \in O)
              /\ (\A j \in Mentions(rest, w) : i <= j) =>
                    (rest[i].type = "ADD" <=> w \notin B)
              /\ \A k \in Mentions(rest, w) :
                    i < k /\ (\A j \in Mentions(rest, w) : j <= i \/ k <= j) =>
                        (rest[i].type = "ADD" <=> rest[k].type # "ADD")
  BY DEF Follows, rest
<1> DEFINE M == Mentions(ch, w)
           N == Mentions(rest, w)
<1>3. /\ M \subseteq 1..Len(ch)
      /\ N \subseteq 1..(Len(ch) - 1)
      /\ \A i \in N : i + 1 \in M /\ rest[i] = ch[i + 1]
      /\ \A j \in M : j = 1 \/ j - 1 \in N
      /\ 1 \in M <=> w \in c.w_ids
  <2>1. M \subseteq 1..Len(ch) /\ N \subseteq 1..(Len(ch) - 1)
    BY <1>1 DEF Mentions
  <2>2. \A i \in N : i + 1 \in M /\ rest[i] = ch[i + 1]
    BY <1>1 DEF Mentions
  <2>3. ASSUME NEW j \in M, j # 1 PROVE j - 1 \in N
    <3>1. j \in 1..Len(ch) /\ w \in ch[j].w_ids
      BY <2>1 DEF Mentions
    <3>2. j - 1 \in DOMAIN rest /\ (j - 1) + 1 = j
      BY <3>1, <2>3, <1>1
    <3> QED
      BY <3>1, <3>2, <1>1 DEF Mentions
  <2>4. 1 \in M <=> w \in c.w_ids
    BY <1>1 DEF Mentions
  <2> QED
    BY <2>1, <2>2, <2>3, <2>4
<1>4. /\ M = {} => (w \in A <=> w \in O)
      /\ \A i \in M :
            /\ (\A j \in M : j <= i) => (ch[i].type = "ADD" <=> w \in O)
            /\ (\A j \in M : i <= j) => (ch[i].type = "ADD" <=> w \notin A)
            /\ \A k \in M :
                  i < k /\ (\A j \in M : j <= i \/ k <= j) =>
                      (ch[i].type = "ADD" <=> ch[k].type # "ADD")
  BY DEF Follows
<1>5. w \in B <=> IF w \in c.w_ids THEN c.type = "ADD" ELSE w \in A
  BY DEF c
<1> HIDE DEF M, N
<1>6. ASSUME N = {} PROVE w \in B <=> w \in O
  <2>1. CASE w \in c.w_ids
    <3>1. 1 \in M /\ \A j \in M : j <= 1
      BY <2>1, <1>3, <1>6
    <3>2. ch[1].type = "ADD" <=> w \in O
      BY <3>1, <1>4
    <3> QED
      BY <3>2, <2>1, <1>1, <1>5
  <2>2. CASE w \notin c.w_ids
    <3>1. M = {}
      BY <2>2, <1>3, <1>6
    <3> QED
      BY <3>1, <2>2, <1>4, <1>5
  <2> QED
    BY <2>1, <2>2
<1>7. ASSUME NEW i \in N, \A j \in N : j <= i
      PROVE  rest[i].type = "ADD" <=> w \in O
  <2>1. i + 1 \in M /\ rest[i] = ch[i + 1] /\ \A j \in M : j <= i + 1
    BY <1>3, <1>7
  <2> QED
    BY <2>1, <1>4
<1>8. ASSUME NEW i \in N, \A j \in N : i <= j
      PROVE  rest[i].type = "ADD" <=> w \notin B
  <2>1. /\ i \in Nat \ {0} /\ i + 1 \in M /\ rest[i] = ch[i + 1]
        /\ \A j \in M : j = 1 \/ i + 1 <= j
    BY <1>3, <1>8
  <2>2. CASE w \in c.w_ids
    <3>1. 1 \in M /\ 1 < i + 1 /\ \A j \in M : j <= 1 \/ i + 1 <= j
      BY <2>1, <2>2, <1>3
    <3>2. ch[1].type = "ADD" <=> ch[i + 1].type # "ADD"
      BY <3>1, <2>1, <1>4
    <3> QED
      BY <3>2, <2>1, <2>2, <1>1, <1>5
  <2>3. CASE w \notin c.w_ids
    <3>1. \A j \in M : i + 1 <= j
      BY <2>1, <2>3, <1>3
    <3> QED
      BY <3>1, <2>1, <2>3, <1>4, <1>5
  <2> QED
    BY <2>2, <2>3
<1>9. ASSUME NEW i \in N, NEW k \in N, i < k, \A j \in N : j <= i \/ k <= j
      PROVE  rest[i].type = "ADD" <=> rest[k].type # "ADD"
  <2>1. /\ i \in Nat \ {0} /\ k \in Nat
        /\ i + 1 \in M /\ rest[i] = ch[i + 1]
        /\ k + 1 \in M /\ rest[k] = ch[k + 1]
    BY <1>3
  <2>2. \A j \in M : j <= i + 1 \/ k + 1 <= j
    BY <2>1, <1>3, <1>9
  <2>3. i + 1 < k + 1
    BY <2>1, <1>9
  <2> QED
    BY <2>1, <2>2, <2>3, <1>4
<1> QED
  BY <1>6, <1>7, <1>8, <1>9 DEF N

-----------------------------------------------------------------------------
(* The invariant                                                           *)

\* The resources of a stage are finitely many.
LEMMA OwnedFinite ==
    ASSUME NEW pool, NEW st
    PROVE  /\ IsFiniteSet(Owned(pool, st))
           /\ Cardinality(Owned(pool, st)) \in Nat
<1>1. NUM_WORKER_THREADS \in Nat
  BY FuzzyAssumption
<1>2. IsFiniteSet(Worker)
  BY <1>1, FS_Interval DEF Worker
<1>3. Owned(pool, st) \subseteq Worker
  BY DEF Owned
<1> QED
  BY <1>2, <1>3, FS_Subset, FS_CardinalityType

\* The controller and the emitters start with the same workers.
LEMMA IInvInit ==
    ASSUME NUM_WORKER_CORES = NUM_WORKER_THREADS, Init
    PROVE  IInv
<1> DEFINE T == NUM_WORKER_THREADS
<1>1. /\ T \in Nat /\ NW_PLQ \in Nat \ {0} /\ NW_WLQ \in Nat \ {0}
      /\ NW_PLQ + NW_WLQ <= T /\ plq_only \in BOOLEAN
  BY FuzzyAssumption, ControllerAssumption DEF Init, ControllerInit
<1>2. /\ owner = [j \in Worker |-> InitialOwner(j)]
      /\ nw = [st \in Stage |->
                  IF st = "PLQ" THEN NW_PLQ ELSE IF plq_only THEN 0 ELSE NW_WLQ]
      /\ channel = [st \in Stage |-> <<>>]
      /\ activated = [st \in Stage |->
                         IF st = "PLQ" THEN 0..(NW_PLQ - 1)
                         ELSE IF plq_only THEN {} ELSE (T - NW_WLQ)..(T - 1)]
      /\ terminated = {}
  BY DEF Init, ControllerInit
<1>3. \A j \in Worker : InitialOwner(j) =
         IF j < NW_PLQ THEN "PLQ"
         ELSE IF ~plq_only /\ j >= T - NW_WLQ THEN "WLQ" ELSE "NONE"
  BY <1>1 DEF InitialOwner
<1> \A j \in Worker : j \in Int /\ 0 <= j /\ j < T
  BY <1>1 DEF Worker
<1>4. Owned(owner, "PLQ") = 0..(NW_PLQ - 1)
  <2>1. \A j \in Worker : owner[j] = "PLQ" <=> j < NW_PLQ
    BY <1>2, <1>3
  <2>2. \A j \in 0..(NW_PLQ - 1) : j \in Worker /\ j < NW_PLQ
    BY <1>1 DEF Worker
  <2>3. \A j \in Worker : j < NW_PLQ => j \in 0..(NW_PLQ - 1)
    BY <1>1
  <2> QED
    BY <2>1, <2>2, <2>3 DEF Owned
<1>5. Owned(owner, "WLQ") = IF plq_only THEN {} ELSE (T - NW_WLQ)..(T - 1)
  <2>1. \A j \in Worker : owner[j] = "WLQ" <=> ~plq_only /\ j >= T - NW_WLQ
    BY <1>1, <1>2, <1>3
  <2>2. \A j \in (T - NW_WLQ)..(T - 1) : j \in Worker /\ j >= T - NW_WLQ
    BY <1>1 DEF Worker
  <2>3. \A j \in Worker : j >= T - NW_WLQ => j \in (T - NW_WLQ)..(T - 1)
    BY <1>1
  <2> QED
    BY <2>1, <2>2, <2>3 DEF Owned
<1>6. ViewType
  <2>1. owner \in Pool
    BY <1>2, <1>3 DEF Pool, Stage
  <2>2. nw \in [Stage -> Int]
    BY <1>1, <1>2
  <2>3. channel \in [Stage -> Seq(Command)]
    BY <1>2
  <2>4. activated \in [Stage -> SUBSET Worker]
    BY <1>1, <1>2 DEF Worker
  <2> QED
    BY <2>1, <2>2, <2>3, <2>4 DEF ViewType
<1>7. CountsRight
  <2>1. Cardinality(0..(NW_PLQ - 1)) = NW_PLQ
    BY <1>1, FS_Interval
  <2>2. Cardinality((T - NW_WLQ)..(T - 1)) = NW_WLQ
    <3>1. /\ T - NW_WLQ \in Int /\ T - 1 \in Int /\ T - NW_WLQ <= T - 1
          /\ (T - 1) - (T - NW_WLQ) + 1 = NW_WLQ
      BY <1>1
    <3> QED
      BY <3>1, FS_Interval
  <2>3. nw["PLQ"] = NW_PLQ /\ nw["WLQ"] = IF plq_only THEN 0 ELSE NW_WLQ
    BY <1>2 DEF Stage
  <2>4. nw["WLQ"] = Cardinality(Owned(owner, "WLQ"))
    BY <2>2, <2>3, <1>5, FS_EmptySet
  <2>5. nw["PLQ"] = Cardinality(Owned(owner, "PLQ"))
    BY <2>1, <2>3, <1>4
  <2> QED
    BY <2>4, <2>5 DEF CountsRight, Stage
<1>8. CommandsFollow
  <2>1. \A st \in Stage : activated[st] = Owned(owner, st) /\ channel[st] = <<>>
    BY <1>2, <1>4, <1>5 DEF Stage
  <2>2. \A w : Mentions(<<>>, w) = {}
    BY DEF Mentions
  <2>3. \A A : Follows(<<>>, A, A)
    BY <2>2 DEF Follows
  <2> QED
    BY <2>1, <2>3 DEF CommandsFollow
<1> QED
  BY <1>6, <1>7, <1>8 DEF IInv

\* A control step: the two commands are sent and the pool is changed for them.
LEMMA IInvControlStep ==
    ASSUME IInv, ControlStep
    PROVE  IInv'
<1>1. PICK v \in [Stage -> Variation], up \in [Stage -> BOOLEAN] :
        LET n == Target(evaluate(nw, v, up)) IN
        \E plq \in Reconfs(owner, "PLQ", n["PLQ"]) :
        \E wlq \in Reconfs(plq.pool, "WLQ", n["WLQ"]) :
           LET cmd == [st \in Stage |-> IF st = "PLQ" THEN plq ELSE wlq] IN
           /\ owner' = wlq.pool
           /\ nw' = [st \in Stage |-> NewDegree(nw[st], cmd[st], n[st])]
           /\ channel' = [st \in Stage |-> Sent(st, cmd[st])]
  BY DEF ControlStep
<1> DEFINE n == Target(evaluate(nw, v, up))
<1> HIDE DEF n
<1>2. PICK plq \in Reconfs(owner, "PLQ", n["PLQ"]) :
        \E wlq \in Reconfs(plq.pool, "WLQ", n["WLQ"]) :
           LET cmd == [st \in Stage |-> IF st = "PLQ" THEN plq ELSE wlq] IN
           /\ owner' = wlq.pool
           /\ nw' = [st \in Stage |-> NewDegree(nw[st], cmd[st], n[st])]
           /\ channel' = [st \in Stage |-> Sent(st, cmd[st])]
  BY <1>1 DEF n
<1>3. PICK wlq \in Reconfs(plq.pool, "WLQ", n["WLQ"]) :
        /\ owner' = wlq.pool
        /\ nw' = [st \in Stage |->
                     NewDegree(nw[st], IF st = "PLQ" THEN plq ELSE wlq, n[st])]
        /\ channel' = [st \in Stage |-> Sent(st, IF st = "PLQ" THEN plq ELSE wlq)]
  BY <1>2
<1> DEFINE cmd(st) == IF st = "PLQ" THEN plq ELSE wlq
<1>4. /\ owner \in Pool /\ nw \in [Stage -> Int]
      /\ channel \in [Stage -> Seq(Command)]
      /\ activated \in [Stage -> SUBSET Worker]
      /\ activated' = activated /\ terminated' = terminated
  BY DEF IInv, ViewType, ControlStep, stageVars
<1>5. plq.pool \in Pool
  BY <1>4, ReconfEffect DEF Stage
<1>6. ASSUME NEW st \in Stage
      PROVE  /\ cmd(st).type \in {"NORECONF", "ADD", "REMOVE"}
             /\ cmd(st).w_ids \in SUBSET Worker
             /\ cmd(st).type = "NORECONF" => cmd(st).w_ids = {}
             /\ owner' \in Pool
             /\ IF cmd(st).type = "ADD"
                THEN /\ cmd(st).w_ids \cap Owned(owner, st) = {}
                     /\ Owned(owner', st) = Owned(owner, st) \cup cmd(st).w_ids
                ELSE /\ cmd(st).w_ids \subseteq Owned(owner, st)
                     /\ Owned(owner', st) = Owned(owner, st) \ cmd(st).w_ids
  <2>1. owner' \in Pool
    BY <1>3, <1>5, ReconfEffect DEF Stage
  <2>2. CASE st = "PLQ"
    <3>1. Owned(owner', "PLQ") = Owned(plq.pool, "PLQ")
      <4>1. "PLQ" \in Stage \ {"WLQ"} /\ "WLQ" \in Stage
        BY DEF Stage
      <4>2. \A t \in Stage \ {"WLQ"} : Owned(wlq.pool, t) = Owned(plq.pool, t)
        BY <4>1, <1>5, ReconfEffect
      <4> QED
        BY <4>1, <4>2, <1>3
    <3> QED
      BY <2>1, <2>2, <3>1, <1>4, ReconfEffect
  <2>3. CASE st # "PLQ"
    <3>1. st = "WLQ" /\ "PLQ" \in Stage /\ st \in Stage \ {"PLQ"}
      BY <2>3 DEF Stage
    <3>2. Owned(plq.pool, st) = Owned(owner, st)
      BY <3>1, <1>4, ReconfEffect
    <3> QED
      BY <2>1, <2>3, <3>1, <3>2, <1>3, <1>5, ReconfEffect
  <2> QED
    BY <2>2, <2>3
<1> HIDE DEF cmd
<1>7. \A st \in Stage : channel'[st] = Sent(st, cmd(st))
                     /\ nw'[st] = NewDegree(nw[st], cmd(st), n[st])
  BY <1>3 DEF cmd
<1>8. ASSUME NEW st \in Stage
      PROVE  nw'[st] = Cardinality(Owned(owner', st)) /\ nw'[st] \in Int
  <2> DEFINE O == Owned(owner, st)
             W == cmd(st).w_ids
  <2>1. IsFiniteSet(O) /\ IsFiniteSet(W)
        /\ Cardinality(O) \in Nat /\ Cardinality(W) \in Nat
    <3>1. W \subseteq Owned([j \in Worker |-> IF j \in W THEN st ELSE owner[j]], st)
      BY <1>6 DEF Owned
    <3> QED
      BY <3>1, OwnedFinite, FS_Subset, FS_CardinalityType
  <2>2. nw[st] = Cardinality(O)
    BY DEF IInv, CountsRight
  <2>3. CASE cmd(st).type = "ADD"
    <3>1. Cardinality(O \cup W) = Cardinality(O) + Cardinality(W)
      <4>1. O \cap W = {}
        BY <1>6, <2>3
      <4>2. Cardinality(O \cap W) = 0
        BY <4>1, FS_EmptySet
      <4> HIDE DEF O, W
      <4>3. Cardinality(O \cup W) = Cardinality(O) + Cardinality(W) - Cardinality(O \cap W)
        BY <2>1, FS_Union
      <4> QED
        BY <4>2, <4>3, <2>1
    <3>2. Owned(owner', st) = O \cup W
      BY <1>6, <2>3
    <3>3. nw'[st] = nw[st] + Cardinality(W)
      BY <1>7, <2>3 DEF NewDegree
    <3> QED
      BY <3>1, <3>2, <3>3, <2>1, <2>2
  <2>4. CASE cmd(st).type # "ADD"
    <3>1. Cardinality(O \ W) = Cardinality(O) - Cardinality(W)
      <4>1. O \cap W = W
        BY <1>6, <2>4
      <4> HIDE DEF O, W
      <4>2. Cardinality(O \ W) = Cardinality(O) - Cardinality(O \cap W)
        BY <2>1, FS_Difference
      <4> QED
        BY <4>1, <4>2
    <3>2. Owned(owner', st) = O \ W
      BY <1>6, <2>4
    <3>3. nw'[st] = nw[st] - Cardinality(W)
      BY <1>7, <2>4 DEF NewDegree
    <3> QED
      BY <3>1, <3>2, <3>3, <2>1, <2>2
  <2> QED
    BY <2>3, <2>4
<1>9. ASSUME NEW st \in Stage
      PROVE  /\ channel'[st] \in Seq(Command)
             /\ st \notin terminated =>
                   Follows(channel'[st], activated[st], Owned(owner', st))
  <2> DEFINE c == [type |-> cmd(st).type, w_ids |-> cmd(st).w_ids]
  <2>1. channel[st] \in Seq(Command)
    BY <1>4
  <2>2. st \notin terminated => Follows(channel[st], activated[st], Owned(owner, st))
    BY DEF IInv, CommandsFollow
  <2>3. CASE cmd(st).type = "NORECONF"
    <3>1. channel'[st] = channel[st]
      BY <1>7, <2>3 DEF Sent
    <3>2. Owned(owner', st) = Owned(owner, st)
      BY <1>6, <2>3
    <3> QED
      BY <3>1, <3>2, <2>1, <2>2
  <2>4. CASE cmd(st).type # "NORECONF" /\ st \in terminated
    BY <1>7, <2>4, <2>1 DEF Sent
  <2>5. CASE cmd(st).type # "NORECONF" /\ st \notin terminated
    <3>1. c \in Command
      BY <1>6, <2>5 DEF Command
    <3>2. channel'[st] = Append(channel[st], c)
      BY <1>7, <2>5 DEF Sent
    <3>3. IF c.type = "ADD"
          THEN /\ c.w_ids \cap Owned(owner, st) = {}
               /\ Owned(owner', st) = Owned(owner, st) \cup c.w_ids
          ELSE /\ c.w_ids \subseteq Owned(owner, st)
               /\ Owned(owner', st) = Owned(owner, st) \ c.w_ids
      BY <1>6
    <3> HIDE DEF c
    <3>4. Follows(Append(channel[st], c), activated[st], Owned(owner', st))
      BY <3>1, <3>3, <2>1, <2>2, <2>5, FollowsSent
    <3> QED
      BY <3>1, <3>2, <3>4, <2>1, AppendProperties
  <2> QED
    BY <2>3, <2>4, <2>5
<1>10. ViewType'
  <2>1. owner' \in Pool
    BY <1>6 DEF Stage
  <2>2. nw' \in [Stage -> Int]
    BY <1>3, <1>8
  <2>3. channel' \in [Stage -> Seq(Command)]
    BY <1>3, <1>9
  <2> QED
    BY <2>1, <2>2, <2>3, <1>4 DEF ViewType, Pool, Command
<1>11. CountsRight'
  BY <1>8 DEF CountsRight
<1>12. CommandsFollow'
  BY <1>4, <1>9 DEF CommandsFollow
<1> QED
  BY <1>10, <1>11, <1>12 DEF IInv

\* An emitter takes a command and executes it.
LEMMA IInvReconfigure ==
    ASSUME IInv, NEW st \in Stage, Reconfigure(st)
    PROVE  IInv'
<1> DEFINE ch == channel[st]
           A == activated[st]
           B == IF Head(ch).type = "ADD" THEN A \cup Head(ch).w_ids
                ELSE A \ Head(ch).w_ids
<1>1. /\ owner \in Pool /\ nw \in [Stage -> Int]
      /\ channel \in [Stage -> Seq(Command)]
      /\ activated \in [Stage -> SUBSET Worker]
      /\ owner' = owner /\ nw' = nw /\ terminated' = terminated
      /\ st \notin terminated /\ ch # <<>>
      /\ channel' = [channel EXCEPT ![st] = Tail(ch)]
  BY DEF IInv, ViewType, Reconfigure, controllerVars
<1>2. activated' = [activated EXCEPT ![st] = B]
  BY DEF Reconfigure
<1>3. Head(ch) \in Command /\ Tail(ch) \in Seq(Command)
  BY <1>1, HeadTailProperties
<1>4. B \in SUBSET Worker
  <2>1. A \in SUBSET Worker /\ Head(ch).w_ids \in SUBSET Worker
    BY <1>1, <1>3 DEF Command
  <2> QED
    BY <2>1
<1>5. Follows(Tail(ch), B, Owned(owner, st))
  <2>1. Follows(ch, A, Owned(owner, st))
    BY <1>1 DEF IInv, CommandsFollow
  <2> QED
    BY <2>1, <1>1, FollowsObeyed
<1> HIDE DEF B
<1>6. ViewType'
  BY <1>1, <1>2, <1>3, <1>4 DEF ViewType, Pool, Command
<1>7. CountsRight'
  BY <1>1 DEF IInv, CountsRight
<1>8. CommandsFollow'
  <2> SUFFICES ASSUME NEW t \in Stage \ terminated
               PROVE  Follows(channel'[t], activated'[t], Owned(owner, t))
    BY <1>1 DEF CommandsFollow
  <2>1. CASE t = st
    BY <2>1, <1>1, <1>2, <1>5
  <2>2. CASE t # st
    <3>1. channel'[t] = channel[t] /\ activated'[t] = activated[t]
      BY <2>2, <1>1, <1>2
    <3> QED
      BY <3>1 DEF IInv, CommandsFollow
  <2> QED
    BY <2>1, <2>2
<1> QED
  BY <1>6, <1>7, <1>8 DEF IInv

\* A stage ends: nobody reads its commands any more.
LEMMA IInvTerminate ==
    ASSUME IInv, NEW st \in Stage, Terminate(st)
    PROVE  IInv'
<1>1. /\ owner \in Pool /\ nw \in [Stage -> Int]
      /\ channel \in [Stage -> Seq(Command)]
      /\ activated \in [Stage -> SUBSET Worker]
      /\ owner' = owner /\ nw' = nw /\ terminated' = terminated \cup {st}
      /\ channel' = [channel EXCEPT ![st] = <<>>]
      /\ activated' = [activated EXCEPT ![st] = Worker]
  BY DEF IInv, ViewType, Terminate, controllerVars
<1>2. ViewType'
  <2>1. <<>> \in Seq(Command) /\ Worker \in SUBSET Worker
    OBVIOUS
  <2>2. channel' \in [Stage -> Seq(Command)]
    BY <2>1, <1>1
  <2>3. activated' \in [Stage -> SUBSET Worker]
    BY <2>1, <1>1
  <2> QED
    BY <2>2, <2>3, <1>1 DEF ViewType, Pool, Command
<1>3. CountsRight'
  BY <1>1 DEF IInv, CountsRight
<1>4. CommandsFollow'
  <2> SUFFICES ASSUME NEW t \in Stage \ (terminated \cup {st})
               PROVE  Follows(channel'[t], activated'[t], Owned(owner, t))
    BY <1>1 DEF CommandsFollow
  <2>1. channel'[t] = channel[t] /\ activated'[t] = activated[t]
    BY <1>1
  <2> QED
    BY <2>1 DEF IInv, CommandsFollow
<1> QED
  BY <1>2, <1>3, <1>4 DEF IInv

\* The other steps leave the pool, the commands and the activated workers alone.
LEMMA IInvStutter ==
    ASSUME IInv, UNCHANGED <<owner, nw, channel, activated, terminated>>
    PROVE  IInv'
BY DEF IInv, ViewType, CountsRight, CommandsFollow, Pool, Command

\* The invariant of the commands is kept by every step.
LEMMA IInvNext ==
    ASSUME IInv, [Next]_allVars
    PROVE  IInv'
<1>1. CASE UNCHANGED allVars
  BY <1>1, IInvStutter DEF allVars, vars, controllerVars, stageVars
<1>2. CASE ControllerSvc
  <2>1. CASE Test
    BY <2>1, IInvStutter DEF Test, stageVars
  <2>2. CASE ControlStep
    BY <2>2, IInvControlStep
  <2> QED
    BY <1>2, <2>1, <2>2 DEF ControllerSvc
<1>3. ASSUME NEW st \in Stage, Obey(st) PROVE IInv'
  BY <1>3, IInvReconfigure DEF Obey
<1>4. ASSUME NEW st \in Stage, EndStage(st) PROVE IInv'
  BY <1>4, IInvTerminate DEF EndStage
<1>5. ASSUME NEW st \in Stage, NEW w \in Worker, WorkerFreezes(st, w) PROVE IInv'
  BY <1>5, IInvStutter DEF WorkerFreezes, Freeze, controllerVars
<1>6. ASSUME NEW t \in Thread, Arrive(t) \/ LeaveSvc(t) \/ PrintStatistics(t)
      PROVE  IInv'
  BY <1>6, IInvStutter
     DEF Arrive, LeaveSvc, PrintStatistics, vars, controllerVars, stageVars
<1>7. CASE Done
  BY <1>7, IInvStutter DEF Done, allVars, vars, controllerVars, stageVars
<1> QED
  BY <1>1, <1>2, <1>3, <1>4, <1>5, <1>6, <1>7 DEF Next

\* The invariant of the commands holds for ever.
LEMMA IInvHolds ==
    ASSUME NUM_WORKER_CORES = NUM_WORKER_THREADS
    PROVE  Spec => []IInv
<1>1. Init => IInv
  BY IInvInit
<1>2. IInv /\ [Next]_allVars => IInv'
  BY IInvNext
<1> QED
  BY <1>1, <1>2, PTL DEF Spec

-----------------------------------------------------------------------------
(* The theorems                                                            *)

\* addWorkers never finds a worker that is already activated, nor removeWorkers
\* one that is not: the asserts of the two emitters (include/plq.hpp and
\* include/wlq.hpp) hold for every command they take from their channel.
THEOREM CommandsApplicable ==
    ASSUME NUM_WORKER_CORES = NUM_WORKER_THREADS
    PROVE  Spec => []Applicable
<1>1. IInv => Applicable
  <2> SUFFICES ASSUME IInv, NEW st \in Stage \ terminated, channel[st] # <<>>
               PROVE  IF Head(channel[st]).type = "ADD"
                      THEN Head(channel[st]).w_ids \cap activated[st] = {}
                      ELSE Head(channel[st]).w_ids \subseteq activated[st]
    BY DEF Applicable
  <2>1. channel[st] \in Seq(Command)
    BY DEF IInv, ViewType
  <2>2. Follows(channel[st], activated[st], Owned(owner, st))
    BY DEF IInv, CommandsFollow
  <2> QED
    BY <2>1, <2>2, FollowsAccepts
<1> QED
  BY <1>1, IInvHolds, PTL

\* The pool of the controller (include/controller.hpp) and the bitmaps of the
\* emitters agree as soon as the commands on the way are executed, and the degree
\* of a stage is the number of resources that it owns.
THEOREM PoolAndStagesAgree ==
    ASSUME NUM_WORKER_CORES = NUM_WORKER_THREADS
    PROVE  Spec => []ViewsAgree
<1>1. IInv => ViewsAgree
  <2> SUFFICES ASSUME IInv, NEW st \in Stage
               PROVE  /\ nw[st] = Cardinality(Owned(owner, st))
                      /\ st \notin terminated =>
                            \A w \in Worker :
                                /\ Concerning(st, w) = {} =>
                                      (w \in activated[st] <=> owner[w] = st)
                                /\ \A i \in Concerning(st, w) :
                                      (\A j \in Concerning(st, w) : j <= i) =>
                                          (channel[st][i].type = "ADD" <=> owner[w] = st)
    BY DEF ViewsAgree
  <2>1. nw[st] = Cardinality(Owned(owner, st))
    BY DEF IInv, CountsRight
  <2>2. ASSUME st \notin terminated, NEW w \in Worker
        PROVE  /\ Concerning(st, w) = {} =>
                     (w \in activated[st] <=> owner[w] = st)
               /\ \A i \in Concerning(st, w) :
                     (\A j \in Concerning(st, w) : j <= i) =>
                         (channel[st][i].type = "ADD" <=> owner[w] = st)
    <3>1. Follows(channel[st], activated[st], Owned(owner, st))
      BY <2>2 DEF IInv, CommandsFollow
    <3>2. Concerning(st, w) = Mentions(channel[st], w)
      BY DEF Concerning, Mentions
    <3>3. w \in Owned(owner, st) <=> owner[w] = st
      BY DEF Owned
    <3> QED
      BY <3>1, <3>2, <3>3 DEF Follows
  <2> QED
    BY <2>1, <2>2
<1> QED
  BY <1>1, IInvHolds, PTL

-----------------------------------------------------------------------------
(* No stage loses all its workers                                          *)

\* The set that a command makes of the set A of the workers of its stage.
Executed(cmd, A) == IF cmd.type = "ADD" THEN A \cup cmd.w_ids ELSE A \ cmd.w_ids

\* The commands ch lead from A to O, and no set on the way is empty.
Path(ch, A, O) ==
    \E S \in [0..Len(ch) -> (SUBSET Worker) \ {{}}] :
        /\ S[0] = A /\ S[Len(ch)] = O
        /\ \A i \in 1..Len(ch) : S[i] = Executed(ch[i], S[i - 1])

WorkersKept ==
    \A st \in Stage \ terminated :
        Built(st) => Path(channel[st], activated[st], Owned(owner, st))

\* A path without commands.
LEMMA PathEmpty ==
    ASSUME NEW A \in (SUBSET Worker) \ {{}}
    PROVE  Path(<<>>, A, A)
<1> DEFINE S == [i \in 0..Len(<<>>) |-> A]
<1>1. Len(<<>>) = 0
  OBVIOUS
<1>2. /\ S \in [0..Len(<<>>) -> (SUBSET Worker) \ {{}}]
      /\ S[0] = A /\ S[Len(<<>>)] = A
      /\ \A i \in 1..Len(<<>>) : S[i] = Executed(<<>>[i], S[i - 1])
  BY <1>1
<1> QED
  BY <1>2 DEF Path

\* A path with one more command.
LEMMA PathSent ==
    ASSUME NEW ch \in Seq(Command), NEW A, NEW O, NEW c \in Command,
           Path(ch, A, O), Executed(c, O) # {}
    PROVE  Path(Append(ch, c), A, Executed(c, O))
<1> DEFINE n == Len(ch) + 1
           new == Append(ch, c)
<1>1. PICK S \in [0..Len(ch) -> (SUBSET Worker) \ {{}}] :
        /\ S[0] = A /\ S[Len(ch)] = O
        /\ \A i \in 1..Len(ch) : S[i] = Executed(ch[i], S[i - 1])
  BY DEF Path
<1>2. /\ Len(ch) \in Nat /\ Len(new) = n /\ new[n] = c
      /\ \A i \in 1..Len(ch) : new[i] = ch[i]
  BY AppendProperties
<1> HIDE DEF new
<1>3. O \in SUBSET Worker
  BY <1>1, <1>2
<1>4. Executed(c, O) \in (SUBSET Worker) \ {{}}
  BY <1>3 DEF Executed, Command
<1> DEFINE R == [i \in 0..n |-> IF i = n THEN Executed(c, O) ELSE S[i]]
<1>5. R \in [0..n -> (SUBSET Worker) \ {{}}]
  BY <1>1, <1>2, <1>4
<1>6. /\ R[0] = A /\ R[n] = Executed(c, O)
      /\ \A i \in 0..Len(ch) : R[i] = S[i]
  BY <1>1, <1>2
<1>7. ASSUME NEW i \in 1..n
      PROVE  R[i] = Executed(new[i], R[i - 1])
  <2>1. CASE i = n
    BY <2>1, <1>1, <1>2, <1>6
  <2>2. CASE i # n
    <3>1. i \in 1..Len(ch) /\ i - 1 \in 0..Len(ch)
      BY <2>2, <1>2
    <3> QED
      BY <3>1, <1>1, <1>2, <1>6
  <2> QED
    BY <2>1, <2>2
<1> HIDE DEF R
<1>8. Path(new, A, Executed(c, O))
  BY <1>2, <1>5, <1>6, <1>7 DEF Path
<1> QED
  BY <1>8 DEF new

\* A path whose first command was obeyed.
LEMMA PathObeyed ==
    ASSUME NEW ch \in Seq(Command), NEW A, NEW O, Path(ch, A, O), ch # <<>>
    PROVE  /\ Path(Tail(ch), Executed(Head(ch), A), O)
           /\ Executed(Head(ch), A) # {}
<1> DEFINE rest == Tail(ch)
<1>1. PICK S \in [0..Len(ch) -> (SUBSET Worker) \ {{}}] :
        /\ S[0] = A /\ S[Len(ch)] = O
        /\ \A i \in 1..Len(ch) : S[i] = Executed(ch[i], S[i - 1])
  BY DEF Path
<1>2. /\ Len(ch) \in Nat \ {0} /\ Len(rest) = Len(ch) - 1 /\ Head(ch) = ch[1]
      /\ \A i \in 1..Len(rest) : rest[i] = ch[i + 1]
  BY HeadTailProperties, EmptySeq
<1> HIDE DEF rest
<1> DEFINE R == [i \in 0..Len(rest) |-> S[i + 1]]
<1>3. \A i \in 0..Len(rest) : i + 1 \in 1..Len(ch) /\ i + 1 \in 0..Len(ch)
  BY <1>2
<1>4. R \in [0..Len(rest) -> (SUBSET Worker) \ {{}}]
  BY <1>1, <1>3
<1>5. S[1] = Executed(Head(ch), A)
  BY <1>1, <1>2
<1>6. R[0] = S[1] /\ R[Len(rest)] = O
  BY <1>1, <1>2
<1>7. ASSUME NEW i \in 1..Len(rest)
      PROVE  R[i] = Executed(rest[i], R[i - 1])
  <2>1. /\ i \in 0..Len(rest) /\ i - 1 \in 0..Len(rest) /\ (i - 1) + 1 = i
        /\ i + 1 \in 1..Len(ch) /\ (i + 1) - 1 = i
    BY <1>2
  <2>2. R[i] = S[i + 1] /\ R[i - 1] = S[i]
    BY <2>1
  <2> QED
    BY <2>1, <2>2, <1>1, <1>2
<1>8. S[1] # {}
  BY <1>1, <1>2
<1> HIDE DEF R
<1>9. Path(rest, S[1], O)
  BY <1>4, <1>6, <1>7 DEF Path
<1> QED
  BY <1>5, <1>8, <1>9 DEF rest

\* The ends of a path are not empty.
LEMMA PathEnds ==
    ASSUME NEW ch \in Seq(Command), NEW A, NEW O, Path(ch, A, O)
    PROVE  A # {} /\ O # {}
BY DEF Path

\* The degrees of the two stages are within the number of threads.
LEMMA DegreesFit ==
    ASSUME NEW pool
    PROVE  Cardinality(Owned(pool, "PLQ")) + Cardinality(Owned(pool, "WLQ"))
              <= NUM_WORKER_THREADS
<1> DEFINE P == Owned(pool, "PLQ")
           W == Owned(pool, "WLQ")
<1>1. NUM_WORKER_THREADS \in Nat \ {0}
  BY FuzzyAssumption
<1>2. IsFiniteSet(Worker) /\ Cardinality(Worker) = NUM_WORKER_THREADS
  BY <1>1, FS_Interval DEF Worker
<1>3. /\ IsFiniteSet(P) /\ IsFiniteSet(W)
      /\ Cardinality(P) \in Nat /\ Cardinality(W) \in Nat
  BY OwnedFinite
<1>4. P \cap W = {} /\ P \cup W \in SUBSET Worker
  BY DEF Owned
<1> HIDE DEF P, W
<1>5. Cardinality(P \cup W) = Cardinality(P) + Cardinality(W)
  <2>1. Cardinality(P \cap W) = 0
    BY <1>4, FS_EmptySet
  <2>2. Cardinality(P \cup W) = Cardinality(P) + Cardinality(W) - Cardinality(P \cap W)
    BY <1>3, FS_Union
  <2> QED
    BY <2>1, <2>2, <1>3
<1>6. Cardinality(P \cup W) <= Cardinality(Worker)
  BY <1>2, <1>4, FS_Subset
<1> QED
  BY <1>2, <1>5, <1>6 DEF P, W

\* A stage with a worker that is to have at least one keeps one.
LEMMA ReconfKeeps ==
    ASSUME NEW pool \in Pool, NEW st \in Stage, NEW n \in Nat \ {0},
           NEW cmd \in Reconfs(pool, st, n),
           nw[st] = Cardinality(Owned(pool, st)), Owned(pool, st) # {}
    PROVE  Owned(cmd.pool, st) # {}
<1>1. CASE cmd.type = "ADD"
  BY <1>1, ReconfEffect
<1>2. CASE cmd.type = "NORECONF"
  BY <1>2, ReconfEffect
<1>3. CASE cmd.type = "REMOVE"
  <2>1. nw[st] \in Nat
    BY OwnedFinite
  <2>2. n < nw[st]
    BY <1>3, <2>1 DEF Reconfs
  <2>3. cmd.w_ids \in kSubset(nw[st] - n, Owned(pool, st))
    BY <2>1, <2>2 DEF Reconfs
  <2>4. Cardinality(cmd.w_ids) = nw[st] - n
    BY <2>3 DEF kSubset
  <2>5. cmd.w_ids # Owned(pool, st)
    BY <2>1, <2>4
  <2>6. /\ cmd.w_ids \subseteq Owned(pool, st)
        /\ Owned(cmd.pool, st) = Owned(pool, st) \ cmd.w_ids
    BY <1>3, ReconfEffect
  <2> QED
    BY <2>5, <2>6
<1> QED
  BY <1>1, <1>2, <1>3, ReconfEffect

\* Each stage has a worker initially.
LEMMA WorkersKeptInit ==
    ASSUME NUM_WORKER_CORES = NUM_WORKER_THREADS, Init
    PROVE  WorkersKept
<1>1. IInv
  BY IInvInit
<1>2. /\ channel = [st \in Stage |-> <<>>] /\ terminated = {}
      /\ nw = [st \in Stage |->
                  IF st = "PLQ" THEN NW_PLQ ELSE IF plq_only THEN 0 ELSE NW_WLQ]
  BY DEF Init, ControllerInit
<1> SUFFICES ASSUME NEW st \in Stage, Built(st)
             PROVE  Path(channel[st], activated[st], Owned(owner, st))
  BY DEF WorkersKept
<1>3. Owned(owner, st) # {}
  <2>1. nw[st] # 0
    BY <1>2, ControllerAssumption DEF Built, Stage
  <2>2. nw[st] = Cardinality(Owned(owner, st))
    BY <1>1 DEF IInv, CountsRight
  <2> QED
    BY <2>1, <2>2, FS_EmptySet
<1>4. activated[st] = Owned(owner, st)
  <2>1. Follows(<<>>, activated[st], Owned(owner, st))
    BY <1>1, <1>2 DEF IInv, CommandsFollow
  <2>2. activated[st] \subseteq Worker /\ Owned(owner, st) \subseteq Worker
    BY <1>1 DEF IInv, ViewType, Owned
  <2>3. \A w \in Worker : Mentions(<<>>, w) = {}
    BY DEF Mentions
  <2> QED
    BY <2>1, <2>2, <2>3 DEF Follows
<1>5. Owned(owner, st) \in (SUBSET Worker) \ {{}}
  BY <1>3 DEF Owned
<1> QED
  BY <1>2, <1>4, <1>5, PathEmpty

\* Each stage keeps a worker when the controller decides.
LEMMA WorkersKeptControlStep ==
    ASSUME IInv, WorkersKept, ControlStep
    PROVE  WorkersKept'
<1>1. PICK v \in [Stage -> Variation], up \in [Stage -> BOOLEAN] :
        LET n == Target(evaluate(nw, v, up)) IN
        \E plq \in Reconfs(owner, "PLQ", n["PLQ"]) :
        \E wlq \in Reconfs(plq.pool, "WLQ", n["WLQ"]) :
           LET cmd == [st \in Stage |-> IF st = "PLQ" THEN plq ELSE wlq] IN
           /\ owner' = wlq.pool
           /\ channel' = [st \in Stage |-> Sent(st, cmd[st])]
  BY DEF ControlStep
<1> DEFINE n == Target(evaluate(nw, v, up))
<1> HIDE DEF n
<1>2. PICK plq \in Reconfs(owner, "PLQ", n["PLQ"]) :
        \E wlq \in Reconfs(plq.pool, "WLQ", n["WLQ"]) :
           LET cmd == [st \in Stage |-> IF st = "PLQ" THEN plq ELSE wlq] IN
           /\ owner' = wlq.pool
           /\ channel' = [st \in Stage |-> Sent(st, cmd[st])]
  BY <1>1 DEF n
<1>3. PICK wlq \in Reconfs(plq.pool, "WLQ", n["WLQ"]) :
        /\ owner' = wlq.pool
        /\ channel' = [st \in Stage |-> Sent(st, IF st = "PLQ" THEN plq ELSE wlq)]
  BY <1>2
<1> DEFINE cmd(st) == IF st = "PLQ" THEN plq ELSE wlq
<1>4. /\ owner \in Pool /\ nw \in [Stage -> Nat]
      /\ channel \in [Stage -> Seq(Command)]
      /\ activated' = activated /\ terminated' = terminated /\ plq_only' = plq_only
      /\ \A st \in Stage : nw[st] = Cardinality(Owned(owner, st))
  BY OwnedFinite DEF IInv, ViewType, CountsRight, ControlStep, stageVars
<1>5. "PLQ" \in Stage \ {"WLQ"} /\ "WLQ" \in Stage \ {"PLQ"}
  BY DEF Stage
<1>6. /\ plq.pool \in Pool
      /\ Owned(plq.pool, "WLQ") = Owned(owner, "WLQ")
      /\ Owned(wlq.pool, "PLQ") = Owned(plq.pool, "PLQ")
  BY <1>4, <1>5, ReconfEffect
<1> SUFFICES ASSUME NEW st \in Stage \ terminated, Built(st)
             PROVE  Path(channel'[st], activated[st], Owned(owner', st))
  BY <1>4 DEF WorkersKept, Built
<1>7. Path(channel[st], activated[st], Owned(owner, st))
  BY DEF WorkersKept
<1>8. Owned(owner, st) # {}
  BY <1>4, <1>7, PathEnds
<1>9. n[st] \in Nat \ {0}
  <2>1. n[st] = evaluate(nw, v, up)[st]
    BY DEF n, Target
  <2>2. nw[st] # 0
    BY <1>4, <1>8, OwnedFinite, FS_EmptySet
  <2>3. nw["PLQ"] + nw["WLQ"] <= NUM_WORKER_THREADS
    BY <1>4, <1>5, DegreesFit
  <2>4. v \in [{"PLQ", "WLQ"} -> Factor]
    <3>1. Variation \subseteq Factor
      BY ControllerAssumption DEF Factor
    <3>2. v \in [{"PLQ", "WLQ"} -> Variation]
      BY DEF Stage
    <3> QED
      BY <3>1, <3>2
  <2> QED
    BY <2>1, <2>2, <2>3, <2>4, <1>4, KeepsWorkers DEF Stage
<1>10. /\ cmd(st).type \in {"NORECONF", "ADD", "REMOVE"}
       /\ cmd(st).w_ids \in SUBSET Worker
       /\ cmd(st).type = "NORECONF" => cmd(st).w_ids = {}
       /\ Owned(owner', st) = Executed(cmd(st), Owned(owner, st))
       /\ Owned(owner', st) # {}
  <2> DEFINE pool == IF st = "PLQ" THEN owner ELSE plq.pool
  <2>1. /\ st \in Stage /\ pool \in Pool
        /\ cmd(st) \in Reconfs(pool, st, n[st])
        /\ Owned(pool, st) = Owned(owner, st)
        /\ Owned(owner', st) = Owned(cmd(st).pool, st)
    <3>1. CASE st = "PLQ"
      BY <3>1, <1>3, <1>4, <1>6
    <3>2. CASE st # "PLQ"
      <4>1. st = "WLQ"
        BY <3>2 DEF Stage
      <4> QED
        BY <4>1, <1>3, <1>6
    <3> QED
      BY <3>1, <3>2
  <2> HIDE DEF cmd, pool
  <2>2. /\ cmd(st).type \in {"NORECONF", "ADD", "REMOVE"}
        /\ cmd(st).w_ids \in SUBSET Worker
        /\ cmd(st).type = "NORECONF" => cmd(st).w_ids = {}
        /\ Owned(cmd(st).pool, st) = Executed(cmd(st), Owned(pool, st))
    <3>1. PICK c \in Reconfs(pool, st, n[st]) : c = cmd(st)
      BY <2>1
    <3>2. /\ c.type \in {"NORECONF", "ADD", "REMOVE"}
          /\ c.w_ids \in SUBSET Worker
          /\ c.type = "NORECONF" => c.w_ids = {}
          /\ c.type = "ADD" => Owned(c.pool, st) = Owned(pool, st) \cup c.w_ids
          /\ c.type # "ADD" => Owned(c.pool, st) = Owned(pool, st) \ c.w_ids
      BY <2>1, ReconfEffect
    <3>3. Owned(c.pool, st) = Executed(c, Owned(pool, st))
      BY <3>2 DEF Executed
    <3> QED
      BY <3>1, <3>2, <3>3
  <2>3. Owned(cmd(st).pool, st) # {}
    BY <2>1, <1>4, <1>8, <1>9, ReconfKeeps
  <2> QED
    BY <2>1, <2>2, <2>3
<1>11. channel'[st] = Sent(st, cmd(st))
  BY <1>3
<1> HIDE DEF cmd
<1>12. CASE cmd(st).type = "NORECONF"
  <2>1. channel'[st] = channel[st]
    BY <1>11, <1>12 DEF Sent
  <2>2. Owned(owner', st) = Owned(owner, st)
    BY <1>10, <1>12 DEF Executed
  <2> QED
    BY <2>1, <2>2, <1>7
<1>13. CASE cmd(st).type # "NORECONF"
  <2> DEFINE c == [type |-> cmd(st).type, w_ids |-> cmd(st).w_ids]
  <2>1. c \in Command
    BY <1>10, <1>13 DEF Command
  <2>2. channel'[st] = Append(channel[st], c)
    BY <1>11, <1>13 DEF Sent
  <2>3. Executed(c, Owned(owner, st)) = Executed(cmd(st), Owned(owner, st))
    BY DEF Executed
  <2> HIDE DEF c
  <2>4. Path(Append(channel[st], c), activated[st], Executed(c, Owned(owner, st)))
    BY <2>1, <2>3, <1>4, <1>7, <1>10, PathSent
  <2> QED
    BY <2>2, <2>3, <2>4, <1>10
<1> QED
  BY <1>12, <1>13

\* A command executed leaves a worker to the stage.
LEMMA WorkersKeptReconfigure ==
    ASSUME IInv, WorkersKept, NEW st \in Stage, Built(st), Reconfigure(st)
    PROVE  /\ WorkersKept'
           /\ activated'[st] # {}
<1> DEFINE ch == channel[st]
           A == activated[st]
<1>1. /\ channel \in [Stage -> Seq(Command)]
      /\ activated \in [Stage -> SUBSET Worker]
      /\ owner' = owner /\ terminated' = terminated /\ plq_only' = plq_only
      /\ st \notin terminated /\ ch # <<>>
      /\ channel' = [channel EXCEPT ![st] = Tail(ch)]
  BY DEF IInv, ViewType, Reconfigure, controllerVars
<1>2. activated' = [activated EXCEPT ![st] = Executed(Head(ch), A)]
  BY DEF Reconfigure, Executed
<1>3. Path(ch, A, Owned(owner, st))
  BY <1>1 DEF WorkersKept
<1>4. /\ Path(Tail(ch), Executed(Head(ch), A), Owned(owner, st))
      /\ Executed(Head(ch), A) # {}
  BY <1>1, <1>3, PathObeyed
<1>5. activated'[st] # {}
  BY <1>1, <1>2, <1>4
<1>6. WorkersKept'
  <2> SUFFICES ASSUME NEW t \in Stage \ terminated, Built(t)
               PROVE  Path(channel'[t], activated'[t], Owned(owner, t))
    BY <1>1 DEF WorkersKept, Built
  <2>1. CASE t = st
    BY <2>1, <1>1, <1>2, <1>4
  <2>2. CASE t # st
    <3>1. channel'[t] = channel[t] /\ activated'[t] = activated[t]
      BY <2>2, <1>1, <1>2
    <3> QED
      BY <3>1 DEF WorkersKept
  <2> QED
    BY <2>1, <2>2
<1> QED
  BY <1>5, <1>6

\* Each stage keeps a worker at every step.
LEMMA WorkersKeptNext ==
    ASSUME IInv, WorkersKept, [Next]_allVars
    PROVE  WorkersKept'
<1>1. ASSUME UNCHANGED <<plq_only, owner, channel, activated, terminated>>
      PROVE  WorkersKept'
  BY <1>1 DEF WorkersKept, Built
<1>2. CASE UNCHANGED allVars
  BY <1>1, <1>2 DEF allVars, vars, controllerVars, stageVars
<1>3. CASE ControllerSvc
  <2>1. CASE Test
    BY <2>1, <1>1 DEF Test, stageVars
  <2>2. CASE ControlStep
    BY <2>2, WorkersKeptControlStep
  <2> QED
    BY <1>3, <2>1, <2>2 DEF ControllerSvc
<1>4. ASSUME NEW st \in Stage, Obey(st) PROVE WorkersKept'
  <2>1. CASE Built(st)
    BY <2>1, <1>4, WorkersKeptReconfigure DEF Obey
  <2>2. CASE ~Built(st)
    <3> SUFFICES ASSUME NEW t \in Stage \ terminated, Built(t)
                 PROVE  Path(channel'[t], activated'[t], Owned(owner, t))
      BY <1>4 DEF Obey, Reconfigure, controllerVars, WorkersKept, Built
    <3>1. channel'[t] = channel[t] /\ activated'[t] = activated[t]
      BY <2>2, <1>4 DEF Obey, Reconfigure, IInv, ViewType
    <3> QED
      BY <3>1 DEF WorkersKept
  <2> QED
    BY <2>1, <2>2
<1>5. ASSUME NEW st \in Stage, EndStage(st) PROVE WorkersKept'
  <2> SUFFICES ASSUME NEW t \in Stage \ (terminated \cup {st}), Built(t)
               PROVE  Path(channel'[t], activated'[t], Owned(owner, t))
    BY <1>5 DEF EndStage, Terminate, controllerVars, WorkersKept, Built
  <2>1. channel'[t] = channel[t] /\ activated'[t] = activated[t]
    BY <1>5 DEF EndStage, Terminate, IInv, ViewType
  <2> QED
    BY <2>1 DEF WorkersKept
<1>6. ASSUME NEW st \in Stage, NEW w \in Worker, WorkerFreezes(st, w)
      PROVE  WorkersKept'
  BY <1>6, <1>1 DEF WorkerFreezes, Freeze, controllerVars
<1>7. ASSUME NEW t \in Thread, Arrive(t) \/ LeaveSvc(t) \/ PrintStatistics(t)
      PROVE  WorkersKept'
  BY <1>7, <1>1
     DEF Arrive, LeaveSvc, PrintStatistics, vars, controllerVars, stageVars
<1>8. CASE Done
  BY <1>8, <1>1 DEF Done, allVars, vars, controllerVars, stageVars
<1> QED
  BY <1>2, <1>3, <1>4, <1>5, <1>6, <1>7, <1>8 DEF Next

\* Each stage has a worker for ever.
LEMMA WorkersKeptHolds ==
    ASSUME NUM_WORKER_CORES = NUM_WORKER_THREADS
    PROVE  Spec => [](IInv /\ WorkersKept)
<1>1. Init => IInv /\ WorkersKept
  BY IInvInit, WorkersKeptInit
<1>2. IInv /\ WorkersKept /\ [Next]_allVars => (IInv /\ WorkersKept)'
  BY IInvNext, WorkersKeptNext
<1> QED
  BY <1>1, <1>2, PTL DEF Spec

-----------------------------------------------------------------------------
(* The refinement of ElasticStage                                          *)

\* What the emitter of a stage does to the activated workers.
LEMMA StageStep ==
    ASSUME IInv, WorkersKept, [Next]_allVars, NEW st \in Stage, Built(st)
    PROVE  \/ activated'[st] = activated[st] /\ (st \in terminated' <=> st \in terminated)
           \/ /\ st \notin terminated /\ st \notin terminated'
              /\ \E W \in SUBSET Worker :
                    \/ W \cap activated[st] = {} /\ activated'[st] = activated[st] \cup W
                    \/ /\ W \subseteq activated[st] /\ W # activated[st]
                       /\ activated'[st] = activated[st] \ W
           \/ /\ st \notin terminated /\ st \in terminated'
              /\ activated'[st] = Worker
<1> DEFINE Same == activated'[st] = activated[st] /\ (st \in terminated' <=> st \in terminated)
<1>1. ASSUME activated' = activated, terminated' = terminated
      PROVE  Same
  BY <1>1
<1>2. /\ channel \in [Stage -> Seq(Command)]
      /\ activated \in [Stage -> SUBSET Worker]
  BY DEF IInv, ViewType
<1>3. ASSUME UNCHANGED allVars PROVE Same
  BY <1>1, <1>3 DEF allVars, vars, stageVars
<1>4. ASSUME ControllerSvc PROVE Same
  BY <1>1, <1>4 DEF ControllerSvc, Test, ControlStep, stageVars
<1>5. ASSUME NEW t \in Stage, Obey(t), t # st
      PROVE  Same
  BY <1>2, <1>5 DEF Obey, Reconfigure
<1>6. ASSUME Obey(st)
      PROVE  /\ st \notin terminated /\ st \notin terminated'
             /\ \E W \in SUBSET Worker :
                   \/ W \cap activated[st] = {} /\ activated'[st] = activated[st] \cup W
                   \/ /\ W \subseteq activated[st] /\ W # activated[st]
                      /\ activated'[st] = activated[st] \ W
  <2> DEFINE W == Head(channel[st]).w_ids
  <2>1. Reconfigure(st)
    BY <1>6 DEF Obey
  <2>2. st \notin terminated /\ terminated' = terminated /\ channel[st] # <<>>
    BY <2>1 DEF Reconfigure
  <2>3. W \in SUBSET Worker
    <3>1. channel[st] \in Seq(Command)
      BY <1>2
    <3>2. Head(channel[st]) \in Command
      BY <3>1, <2>2, HeadTailProperties
    <3> QED
      BY <3>2 DEF Command
  <2>4. activated'[st] # {}
    BY <2>1, WorkersKeptReconfigure
  <2>5. \/ W \cap activated[st] = {} /\ activated'[st] = activated[st] \cup W
        \/ W \subseteq activated[st] /\ activated'[st] = activated[st] \ W
    BY <2>1, <1>2 DEF Reconfigure
  <2> HIDE DEF W
  <2>6. \/ W \cap activated[st] = {} /\ activated'[st] = activated[st] \cup W
        \/ /\ W \subseteq activated[st] /\ W # activated[st]
           /\ activated'[st] = activated[st] \ W
    BY <2>4, <2>5
  <2> QED
    BY <2>2, <2>3, <2>6
<1>7. ASSUME NEW t \in Stage, EndStage(t), t # st
      PROVE  Same
  BY <1>2, <1>7 DEF EndStage, Terminate
<1>8. ASSUME EndStage(st)
      PROVE  st \notin terminated /\ st \in terminated' /\ activated'[st] = Worker
  BY <1>2, <1>8 DEF EndStage, Terminate
<1>9. ASSUME NEW t \in Stage, NEW w \in Worker, WorkerFreezes(t, w)
      PROVE  Same
  BY <1>1, <1>9 DEF WorkerFreezes, Freeze
<1>10. ASSUME NEW t \in Thread, Arrive(t) \/ LeaveSvc(t) \/ PrintStatistics(t)
       PROVE  Same
  BY <1>1, <1>10 DEF Arrive, LeaveSvc, PrintStatistics, vars, stageVars
<1>11. ASSUME Done PROVE Same
  BY <1>1, <1>11 DEF Done, allVars, vars, stageVars
<1> HIDE DEF Same
<1>12. \/ Same
       \/ /\ st \notin terminated /\ st \notin terminated'
          /\ \E W \in SUBSET Worker :
                \/ W \cap activated[st] = {} /\ activated'[st] = activated[st] \cup W
                \/ /\ W \subseteq activated[st] /\ W # activated[st]
                   /\ activated'[st] = activated[st] \ W
       \/ st \notin terminated /\ st \in terminated' /\ activated'[st] = Worker
  <2>1. CASE \E t \in Stage : Obey(t) \/ EndStage(t)
    BY <2>1, <1>5, <1>6, <1>7, <1>8
  <2>2. CASE ~\E t \in Stage : Obey(t) \/ EndStage(t)
    BY <2>2, <1>3, <1>4, <1>9, <1>10, <1>11 DEF Next
  <2> QED
    BY <2>1, <2>2
<1> QED
  BY <1>12 DEF Same

\* The build does not change, and a stage that it does not have never ends.
LEMMA BuildStays ==
    ASSUME [Next]_allVars
    PROVE  /\ plq_only' = plq_only
           /\ plq_only => ("WLQ" \in terminated' <=> "WLQ" \in terminated)
<1>1. ASSUME UNCHANGED <<plq_only, terminated>>
      PROVE  /\ plq_only' = plq_only
             /\ plq_only => ("WLQ" \in terminated' <=> "WLQ" \in terminated)
  BY <1>1
<1>2. CASE UNCHANGED allVars
  BY <1>1, <1>2 DEF allVars, vars, controllerVars, stageVars
<1>3. CASE ControllerSvc
  BY <1>1, <1>3 DEF ControllerSvc, Test, ControlStep, stageVars
<1>4. CASE \E st \in Stage : Obey(st)
  BY <1>1, <1>4 DEF Obey, Reconfigure, controllerVars
<1>5. CASE \E st \in Stage : EndStage(st)
  BY <1>5 DEF EndStage, Terminate, Built, controllerVars
<1>6. CASE \E st \in Stage, w \in Worker : WorkerFreezes(st, w)
  BY <1>1, <1>6 DEF WorkerFreezes, Freeze, controllerVars
<1>7. CASE \E t \in Thread : Arrive(t) \/ LeaveSvc(t) \/ PrintStatistics(t)
  BY <1>1, <1>7
     DEF Arrive, LeaveSvc, PrintStatistics, vars, controllerVars, stageVars
<1>8. CASE Done
  BY <1>1, <1>8 DEF Done, allVars, vars, controllerVars, stageVars
<1> QED
  BY <1>2, <1>3, <1>4, <1>5, <1>6, <1>7, <1>8 DEF Next

\* The stages of the program implement ElasticStage, which the models of the two
\* query stages take for the behaviour of the controller: no command takes away
\* the last worker of a stage, however many commands are on their way and
\* whatever factors the rules give (evaluate, get_reconfs_from_strategy,
\* addWorkers and removeWorkers).
THEOREM ElasticStagesImplemented ==
    ASSUME NUM_WORKER_CORES = NUM_WORKER_THREADS
    PROVE  Spec => StagesAreElastic
<1>1. ASSUME Init
      PROVE  PLQStage!Init /\ WLQStage!Init
  <2>1. IInv /\ WorkersKept /\ terminated = {} /\ plq_only \in BOOLEAN
    BY <1>1, IInvInit, WorkersKeptInit, ControllerAssumption DEF Init, ControllerInit
  <2>2. ASSUME NEW st \in Stage, Built(st)
        PROVE  activated[st] \in (SUBSET Worker) \ {{}}
    <3>1. activated[st] # {}
      BY <2>1, <2>2, PathEnds DEF WorkersKept, IInv, ViewType
    <3> QED
      BY <3>1, <2>1 DEF IInv, ViewType
  <2>3. 0 \in Worker
    BY FuzzyAssumption DEF Worker
  <2>4. PLQStage!Init
    BY <2>1, <2>2 DEF PLQStage!Init, Built, Stage
  <2>5. WLQStage!Init
    <3>1. CASE plq_only
      BY <3>1, <2>1, <2>3 DEF WLQStage!Init
    <3>2. CASE ~plq_only
      BY <3>2, <2>1, <2>2 DEF WLQStage!Init, Built, Stage
    <3> QED
      BY <3>1, <3>2
  <2> QED
    BY <2>4, <2>5
<1>2. ASSUME IInv, WorkersKept, [Next]_allVars
      PROVE  [PLQStage!Next]_(PLQStage!vars)
  <2>1. "PLQ" \in Stage /\ Built("PLQ")
    BY DEF Stage, Built
  <2> QED
    BY <1>2, <2>1, StageStep
       DEF PLQStage!Next, PLQStage!vars, PLQStage!Add, PLQStage!Remove, PLQStage!End
<1>3. ASSUME IInv, WorkersKept, [Next]_allVars
      PROVE  [WLQStage!Next]_(WLQStage!vars)
  <2>1. plq_only' = plq_only
    BY <1>3, BuildStays
  <2>2. CASE plq_only
    <3>1. "WLQ" \in terminated' <=> "WLQ" \in terminated
      BY <1>3, <2>2, BuildStays
    <3> QED
      BY <3>1, <2>1, <2>2 DEF WLQStage!vars
  <2>3. CASE ~plq_only
    <3>1. "WLQ" \in Stage /\ Built("WLQ")
      BY <2>3 DEF Stage, Built
    <3> QED
      BY <1>3, <2>1, <2>3, <3>1, StageStep
         DEF WLQStage!Next, WLQStage!vars, WLQStage!Add, WLQStage!Remove, WLQStage!End
  <2> QED
    BY <2>2, <2>3
<1> QED
  BY <1>1, <1>2, <1>3, WorkersKeptHolds, PTL
     DEF Spec, StagesAreElastic, PLQStage!Spec, WLQStage!Spec

=============================================================================
