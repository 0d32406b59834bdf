----------------------------- MODULE WLQ_proofs -----------------------------
(***************************************************************************)
(* Proofs about the window-level query stage, for any number of workers,   *)
(* panes and partitions and any number of reconfigurations.  Of the emitter*)
(* and workers: the invariants that the pool of workers relies on.  Of the *)
(* windows: where the partitions of a window are, how many tasks it still  *)
(* needs, and when it is finalized.  Of the results sets, each of which    *)
(* several windows share: when its counter has it deallocated, no window   *)
(* still waits for it.                                                     *)
(***************************************************************************)
EXTENDS WLQ, FiniteSetTheorems, SequenceTheorems, Sums_proofs, TLAPS

\* The number of elements that D places before x.
Before(D, S, x) == Cardinality({y \in S : D[y] < D[x]})

Task == [type : {"WIN_UPDATE", "MERGE"}, win_id : Window,
         p1 : SUBSET Partition, p2 : SUBSET Partition, finalize : BOOLEAN]
Message == Task \cup {GO_OUT, EOS}

\* What the emitter sent to worker w besides tasks, and w did not take yet.
Orders(w) ==
    IF status[w] # "running" THEN <<>>
    ELSE IF wlqTerminated THEN <<EOS>>
    ELSE IF w \in activatedWorker THEN <<>> ELSE <<GO_OUT>>

\* The three states of a worker, as its channels show them.
Idle(w) == w \in workerReady /\ feedback[w] = <<>> /\ in_q[w] = Orders(w)
Working(w, t) ==
    /\ w \notin workerReady /\ ~wlqTerminated /\ status[w] = "running"
    /\ feedback[w] = <<>>
    /\ in_q[w] = IF w \in activatedWorker THEN <<t>> ELSE <<t, GO_OUT>>
Finished(w, t) ==
    /\ w \notin workerReady /\ ~wlqTerminated
    /\ feedback[w] = <<t>>
    /\ in_q[w] = Orders(w)
Has(w, t) == Working(w, t) \/ Finished(w, t)

PoolType ==
    /\ total \in [Pane -> Int]
    /\ toArrive \subseteq Partition
    /\ eos_received \in 0..NUM_WORKER_THREADS
    /\ open \subseteq Window
    /\ cnt_ins \in [Window -> [LocalPane -> Int]]
    /\ cnt_tasks_com \in [Window -> Int]
    /\ pendingQueue \in [Window -> Seq(SUBSET Partition)]
    /\ isBusy \in [Window -> BOOLEAN]
    /\ n_pendingtasks \in Int
    /\ workerReady \subseteq Worker
    /\ n_readyWorkers = Cardinality(workerReady)
    /\ activatedWorker \subseteq Worker
    /\ last_w \in Worker
    /\ wlqTerminated \in BOOLEAN
    /\ in_q \in [Worker -> Seq(Message)]
    /\ status \in [Worker -> {"running", "frozen", "ended"}]
    /\ feedback \in [Worker -> Seq(Task)]

\* A worker is frozen only when it was given up, and ended only at the end,
\* when nothing can arrive any more and every worker is ready and utilized.
StatusInv ==
    /\ \A w \in Worker : status[w] = "frozen" => w \notin activatedWorker
    /\ \A w \in Worker : status[w] = "ended" => wlqTerminated
    /\ eos_received = NUM_WORKER_THREADS => toArrive = {}
    /\ wlqTerminated => /\ eos_received = NUM_WORKER_THREADS
                        /\ activatedWorker = Worker
                        /\ workerReady = Worker

\* Every worker is idle or has exactly one task.
WorkersInv == \A w \in Worker : Idle(w) \/ \E t \in Task : Has(w, t)

\* The window of an update is busy, and no other worker updates it.
UpdatesInv ==
    \A w \in Worker : \A t \in Task :
        Has(w, t) /\ t.type = "WIN_UPDATE" =>
            /\ isBusy[t.win_id]
            /\ \A v \in Worker : \A u \in Task :
                  Has(v, u) /\ u.type = "WIN_UPDATE" /\ u.win_id = t.win_id => v = w

IInv == PoolType /\ StatusInv /\ WorkersInv /\ UpdatesInv

-----------------------------------------------------------------------------
(* Lemmas about the order in which windows and workers are taken           *)

\* There are n naturals below n.
LEMMA Below ==
    ASSUME NEW n \in Nat
    PROVE  IsFiniteSet(0..(n - 1)) /\ Cardinality(0..(n - 1)) = n
BY FS_Interval

\* Counting the elements before each one numbers a finite set from 0.
LEMMA Numbering ==
    ASSUME NEW S, IsFiniteSet(S), NEW D \in [S -> Int],
           \A x, y \in S : D[x] = D[y] => x = y
    PROVE  [x \in S |-> Before(D, S, x)]
              \in Bijection(S, 0..(Cardinality(S) - 1))
<1> DEFINE n == Cardinality(S)
           B(x) == {y \in S : D[y] < D[x]}
           f == [x \in S |-> Before(D, S, x)]
<1>1. n \in Nat
  BY FS_CardinalityType
<1>2. ASSUME NEW x \in S PROVE /\ IsFiniteSet(B(x))
                               /\ Before(D, S, x) \in Nat
                               /\ Before(D, S, x) \in 0..(n - 1)
  <2>1. B(x) \in SUBSET S /\ B(x) # S
    OBVIOUS
  <2>2. IsFiniteSet(B(x)) /\ Cardinality(B(x)) <= n /\ Cardinality(B(x)) # n
    BY <2>1, FS_Subset
  <2>3. Cardinality(B(x)) \in Nat
    BY <2>2, FS_CardinalityType
  <2> QED
    BY <2>2, <2>3, <1>1 DEF Before
<1>3. ASSUME NEW x \in S, NEW y \in S, D[x] < D[y]
      PROVE  Before(D, S, x) < Before(D, S, y)
  <2>1. B(x) \in SUBSET B(y) /\ B(x) # B(y)
    BY <1>3
  <2>2. Cardinality(B(x)) <= Cardinality(B(y)) /\ Cardinality(B(x)) # Cardinality(B(y))
    BY <2>1, <1>2, FS_Subset
  <2>3. Before(D, S, x) \in Nat /\ Before(D, S, y) \in Nat
    BY <1>2
  <2> QED
    BY <2>2, <2>3 DEF Before
<1>4. f \in [S -> 0..(n - 1)]
  BY <1>2
<1>5. \A x, y \in S : f[x] = f[y] => x = y
  <2> SUFFICES ASSUME NEW x \in S, NEW y \in S, x # y PROVE f[x] # f[y]
    OBVIOUS
  <2>1. D[x] < D[y] \/ D[y] < D[x]
    OBVIOUS
  <2>2. f[x] \in Nat /\ f[y] \in Nat
    BY <1>2
  <2> QED
    BY <2>1, <2>2, <1>3
<1>6. f \in Injection(S, 0..(n - 1))
  BY <1>4, <1>5 DEF Injection, IsInjective
<1>7. IsFiniteSet(0..(n - 1)) /\ Cardinality(0..(n - 1)) = n
  BY <1>1, Below
<1>8. f \in Surjection(S, 0..(n - 1))
  BY <1>6, <1>7, FS_Injection
<1> QED
  BY <1>6, <1>8 DEF Bijection

\* The elements with a number below n are n of them, if there are so many.
LEMMA FirstOnes ==
    ASSUME NEW S, IsFiniteSet(S), NEW T \in Bijection(S, 0..(Cardinality(S) - 1)),
           NEW n \in Nat
    PROVE  LET A == {x \in S : T[x] < n}
               m == IF n <= Cardinality(S) THEN n ELSE Cardinality(S)
           IN  /\ IsFiniteSet(A)
               /\ Cardinality(A) = m
               /\ \A i \in 0..(m - 1) : \E x \in A : T[x] = i
<1> DEFINE A == {x \in S : T[x] < n}
           c == Cardinality(S)
           m == IF n <= c THEN n ELSE c
           g == [x \in A |-> T[x]]
<1>1. c \in Nat
  BY FS_CardinalityType
<1>2. T \in [S -> 0..(c - 1)] /\ \A x, y \in S : T[x] = T[y] => x = y
  BY DEF Bijection, Injection, IsInjective
<1>3. \A i \in 0..(c - 1) : \E x \in S : T[x] = i
  BY DEF Bijection, Surjection
<1>4. g \in [A -> 0..(m - 1)] /\ \A x, y \in A : g[x] = g[y] => x = y
  BY <1>1, <1>2
<1>5. \A i \in 0..(m - 1) : \E x \in A : T[x] = i
  BY <1>1, <1>3
<1>6. g \in Bijection(A, 0..(m - 1))
  BY <1>4, <1>5 DEF Bijection, Injection, IsInjective, Surjection
<1>7. IsFiniteSet(A)
  BY FS_Subset
<1>8. Cardinality(A) = m
  <2>1. Cardinality(0..(m - 1)) = Cardinality(A)
    BY <1>6, <1>7, FS_Bijection DEF ExistsBijection
  <2>2. m \in Nat
    BY <1>1
  <2>3. Cardinality(0..(m - 1)) = m
    BY <2>2, Below
  <2> QED
    BY <2>1, <2>3
<1> QED
  BY <1>5, <1>7, <1>8

\* The windows of a set are numbered by Rank, in their order.
LEMMA WindowRank ==
    ASSUME NEW S \in SUBSET Window
    PROVE  /\ IsFiniteSet(S)
           /\ [k \in S |-> Rank(k, S)] \in Bijection(S, 0..(Cardinality(S) - 1))
<1> DEFINE D == [k \in S |-> k]
<1>1. MaxWindow \in Nat
  BY WLQAssumption
<1>2. IsFiniteSet(S) /\ S \subseteq Int
  <2>1. IsFiniteSet(Window) /\ Window \subseteq Int
    BY <1>1, FS_Interval DEF Window
  <2> QED
    BY <2>1, FS_Subset
<1>3. D \in [S -> Int] /\ \A x, y \in S : D[x] = D[y] => x = y
  BY <1>2
<1>4. [k \in S |-> Before(D, S, k)] \in Bijection(S, 0..(Cardinality(S) - 1))
  BY <1>2, <1>3, Numbering
<1>5. ASSUME NEW k \in S PROVE Before(D, S, k) = Rank(k, S)
  <2>1. {y \in S : D[y] < D[k]} = {y \in S : y < k}
    OBVIOUS
  <2> QED
    BY <2>1 DEF Before, Rank
<1> QED
  BY <1>2, <1>4, <1>5

\* The ranks of the windows of a set are different numbers below its size.
LEMMA RankNumbers ==
    ASSUME NEW S \in SUBSET Window
    PROVE  /\ Cardinality(S) \in Nat
           /\ \A k \in S : /\ Rank(k, S) \in Int /\ 0 <= Rank(k, S)
                          /\ Rank(k, S) < Cardinality(S)
           /\ \A j, k \in S : Rank(j, S) = Rank(k, S) => j = k
<1>1. PICK c : c = Cardinality(S)
  OBVIOUS
<1>2. PICK T : T = [k \in S |-> Rank(k, S)]
  OBVIOUS
<1>3. IsFiniteSet(S) /\ T \in Bijection(S, 0..(c - 1))
  BY <1>1, <1>2, WindowRank
<1>4. c \in Nat
  BY <1>1, <1>3, FS_CardinalityType
<1>5. T \in [S -> 0..(c - 1)] /\ \A j, k \in S : T[j] = T[k] => j = k
  BY ONLY <1>3 DEF Bijection, Injection, IsInjective
<1>6. \A k \in S : T[k] \in Int /\ 0 <= T[k] /\ T[k] < c
  BY ONLY <1>4, <1>5
<1>7. \A k \in S : T[k] = Rank(k, S)
  BY <1>2
<1> QED
  BY ONLY <1>1, <1>4, <1>5, <1>6, <1>7

\* What this numbering of the windows means.
LEMMA RankOrder ==
    ASSUME NEW S \in SUBSET Window
    PROVE  /\ Cardinality(S) \in Nat
           /\ \A k \in S : Rank(k, S) \in Nat /\ Rank(k, S) < Cardinality(S)
           /\ \A j, k \in S : Rank(j, S) = Rank(k, S) => j = k
           /\ \A i \in 0..(Cardinality(S) - 1) : \E k \in S : Rank(k, S) = i
<1> DEFINE R == [k \in S |-> Rank(k, S)]
           c == Cardinality(S)
<1>1. c \in Nat
  BY WindowRank, FS_CardinalityType
<1>2. R \in Bijection(S, 0..(c - 1))
  BY WindowRank
<1>3. R \in [S -> 0..(c - 1)] /\ \A j, k \in S : R[j] = R[k] => j = k
  BY <1>2 DEF Bijection, Injection, IsInjective
<1>4. \A i \in 0..(c - 1) : \E k \in S : R[k] = i
  BY <1>2 DEF Bijection, Surjection
<1>5. \A k \in S : R[k] = Rank(k, S)
  OBVIOUS
<1>6. \A k \in S : R[k] \in 0..(c - 1)
  BY <1>3
<1> HIDE DEF R, c
<1>7. \A k \in S : Rank(k, S) \in Nat /\ Rank(k, S) < c
  BY <1>1, <1>5, <1>6
<1>8. \A j, k \in S : Rank(j, S) = Rank(k, S) => j = k
  BY <1>3, <1>5
<1>9. \A i \in 0..(c - 1) : \E k \in S : Rank(k, S) = i
  BY <1>4, <1>5
<1> QED
  BY <1>1, <1>7, <1>8, <1>9 DEF c

\* No two workers are equally far from last_w.
LEMMA DistanceInjective ==
    ASSUME last_w \in Worker, NEW v \in Worker, NEW w \in Worker,
           Distance(v) = Distance(w)
    PROVE  v = w
<1> DEFINE N == NUM_WORKER_THREADS
<1>1. N \in Nat \ {0}
  BY WLQAssumption
<1>2. ASSUME NEW u \in Worker
      PROVE  Distance(u) = IF u > last_w THEN u - last_w - 1 ELSE u - last_w - 1 + N
  BY <1>1 DEF Distance, Worker
<1> QED
  BY <1>1, <1>2 DEF Worker

\* The workers of a set are numbered by Turn, from the one after last_w on.
LEMMA WorkerTurn ==
    ASSUME NEW S \in SUBSET Worker, last_w \in Worker
    PROVE  /\ IsFiniteSet(S)
           /\ [w \in S |-> Turn(w, S)] \in Bijection(S, 0..(Cardinality(S) - 1))
<1> DEFINE D == [w \in S |-> Distance(w)]
<1>1. NUM_WORKER_THREADS \in Nat \ {0}
  BY WLQAssumption
<1>2. IsFiniteSet(S)
  <2>1. IsFiniteSet(Worker)
    BY <1>1, Below DEF Worker
  <2> QED
    BY <2>1, FS_Subset
<1>3. D \in [S -> Int]
  BY <1>1 DEF Distance, Worker
<1>4. \A x, y \in S : D[x] = D[y] => x = y
  BY DistanceInjective
<1>5. [w \in S |-> Before(D, S, w)] \in Bijection(S, 0..(Cardinality(S) - 1))
  BY <1>2, <1>3, <1>4, Numbering
<1>6. ASSUME NEW w \in S PROVE Before(D, S, w) = Turn(w, S)
  <2>1. {y \in S : D[y] < D[w]} = {y \in S : Distance(y) < Distance(w)}
    OBVIOUS
  <2> QED
    BY <2>1 DEF Before, Turn
<1> QED
  BY <1>2, <1>5, <1>6

-----------------------------------------------------------------------------
(* Lemmas about the scheduling of tasks                                    *)

EmitterState ==
    [open : SUBSET Window, ins : [Window -> [LocalPane -> Int]],
     com : [Window -> Int], pending : [Window -> Seq(SUBSET Partition)],
     busy : [Window -> BOOLEAN], npend : Int, ready : SUBSET Worker,
     nready : Int, q : [Worker -> Seq(Message)], last : Worker]

\* From e to s the emitter gave a task each to some of the workers of idle:
\* at most one update of each window, and none of a window that was busy.
Dealt(e, s, idle) ==
    LET given == e.ready \ s.ready IN
    /\ s \in EmitterState
    /\ s.nready = Cardinality(s.ready)
    /\ s.ready \subseteq e.ready /\ given \subseteq idle
    /\ \A k \in Window : e.busy[k] => s.busy[k]
    /\ \A w \in Worker \ given : s.q[w] = in_q[w]
    /\ \E task \in [given -> Task] :
          /\ \A w \in given : s.q[w] = in_q[w] \o <<task[w]>>
          /\ \A w \in given : task[w].type = "WIN_UPDATE" =>
                ~e.busy[task[w].win_id] /\ s.busy[task[w].win_id]
          /\ \A v, w \in given :
                /\ task[v].type = "WIN_UPDATE" /\ task[w].type = "WIN_UPDATE"
                /\ task[v].win_id = task[w].win_id
                => v = w

\* The tasks made of the last results sets that wait for window k.
UpdateOf(e, k) == UpdateTask(k, Last(e.pending[k]), ToFinalize(e.ins[k], e.com[k]))
MergeOf(e, k)  == MergeTask(k, Last(e.pending[k]), Last(Front(e.pending[k])))

\* The emitter after the updates of the windows upd were taken, and after the
\* merges of the windows mrg were taken.
TakeUpdates(e, upd) ==
    [e EXCEPT !.pending = [k \in Window |->
                 IF k \in upd THEN Front(e.pending[k]) ELSE e.pending[k]],
              !.busy = [k \in Window |-> e.busy[k] \/ k \in upd],
              !.open = {k \in e.open : k \in upd => ~ToFinalize(e.ins[k], e.com[k])},
              !.npend = e.npend - Cardinality(upd)]
TakeMerges(e, mrg) ==
    [e EXCEPT !.pending = [k \in Window |->
                 IF k \in mrg THEN Front(Front(e.pending[k])) ELSE e.pending[k]],
              !.npend = e.npend - Cardinality(mrg)]

\* From e to s the emitter gave the update of each window k of upd to worker
\* up[k] of idle and the merge of each window k of mrg to worker mg[k].
Scheduled(e, s, idle, upd, mrg, up, mg) ==
    LET u == TakeUpdates(e, upd)
        m == TakeMerges(u, mrg)
        given == {up[k] : k \in upd} \cup {mg[k] : k \in mrg}
    IN  /\ upd \subseteq Updatable(e) /\ mrg \subseteq Mergeable(e, u.pending)
        /\ up \in [upd -> idle] /\ mg \in [mrg -> idle]
        /\ \A j, k \in upd : up[j] = up[k] => j = k
        /\ \A j, k \in mrg : mg[j] = mg[k] => j = k
        /\ \A j \in upd, k \in mrg : up[j] # mg[k]
        /\ s \in EmitterState /\ u \in EmitterState
        /\ s.open = u.open /\ s.ins = e.ins /\ s.com = e.com /\ s.busy = u.busy
        /\ s.pending = m.pending /\ s.npend = m.npend
        /\ s.ready = e.ready \ given /\ s.nready = Cardinality(s.ready)
        /\ \A k \in upd : /\ UpdateOf(e, k) \in Task
                          /\ s.q[up[k]] = in_q[up[k]] \o <<UpdateOf(e, k)>>
        /\ \A k \in mrg : /\ MergeOf(u, k) \in Task
                          /\ s.q[mg[k]] = in_q[mg[k]] \o <<MergeOf(u, k)>>
        /\ \A w \in Worker \ given : s.q[w] = in_q[w]

\* Channels with at most two messages.
LEMMA ShortSequences ==
    ASSUME NEW S, NEW a \in S, NEW b \in S
    PROVE  /\ <<>> \in Seq(S) /\ <<a>> \in Seq(S) /\ <<a, b>> \in Seq(S)
           /\ <<a>> # <<>> /\ <<a, b>> # <<>>
           /\ Append(<<>>, a) = <<a>> /\ Append(<<a>>, b) = <<a, b>>
           /\ <<>> \o <<a>> = <<a>>
           /\ Head(<<a>>) = a /\ Tail(<<a>>) = <<>>
           /\ Head(<<a, b>>) = a /\ Tail(<<a, b>>) = <<b>>
<1>1. <<>> \in Seq(S) /\ <<a>> \in Seq(S) /\ <<a, b>> \in Seq(S)
  OBVIOUS
<1>2. <<a>> # <<>> /\ <<a, b>> # <<>>
  OBVIOUS
<1>3. Append(<<>>, a) = <<a>>
  OBVIOUS
<1>4. Append(<<a>>, b) = <<a, b>>
  <2> DEFINE p == Append(<<a>>, b)
  <2>1. p \in Seq(S) /\ Len(p) = 2 /\ p[1] = a /\ p[2] = b
    BY <1>1, AppendProperties
  <2>2. \A i \in 1..2 : i = 1 \/ i = 2
    OBVIOUS
  <2>3. \A i \in 1..Len(p) : p[i] = <<a, b>>[i]
    BY <2>1, <2>2
  <2> HIDE DEF p
  <2>4. p = <<a, b>>
    BY <1>1, <2>1, <2>3, SeqEqual
  <2> QED
    BY <2>4 DEF p
<1>5. <<>> \o <<a>> = <<a>>
  OBVIOUS
<1>6. Head(<<a>>) = a /\ Head(<<a, b>>) = a
  OBVIOUS
<1>7. Tail(<<a>>) = <<>>
  OBVIOUS
<1>8. Tail(<<a, b>>) = <<b>>
  OBVIOUS
<1> QED
  BY <1>1, <1>2, <1>3, <1>4, <1>5, <1>6, <1>7, <1>8

\* What remains of a nonempty sequence, and its last element.
LEMMA FrontLast ==
    ASSUME NEW S, NEW q \in Seq(S), Len(q) > 0
    PROVE  Front(q) \in Seq(S) /\ Last(q) \in S /\ Len(Front(q)) = Len(q) - 1
<1>1. Len(q) \in Nat /\ Last(q) \in S
  BY DEF Last
<1>2. Front(q) = [i \in 1..(Len(q) - 1) |-> q[i]]
  BY DEF Front
<1> QED
  BY <1>1, <1>2

\* First takes the first n windows of a set, or all of them.
LEMMA FirstWindows ==
    ASSUME NEW S \in SUBSET Window, NEW n \in Nat
    PROVE  /\ First(n, S) \subseteq S
           /\ Cardinality(First(n, S)) \in Nat
           /\ Cardinality(First(n, S)) <= n
<1>1. PICK T : T = [k \in S |-> Rank(k, S)]
  OBVIOUS
<1>2. IsFiniteSet(S) /\ T \in Bijection(S, 0..(Cardinality(S) - 1))
  BY <1>1, WindowRank
<1>3. PICK A : A = {k \in S : T[k] < n}
  OBVIOUS
<1>4. First(n, S) = A
  BY <1>1, <1>3 DEF First
<1>5. Cardinality(S) \in Nat
  BY RankNumbers
<1>6. Cardinality(A) = IF n <= Cardinality(S) THEN n ELSE Cardinality(S)
  BY ONLY n \in Nat, <1>2, <1>3, FirstOnes
<1> QED
  BY <1>3, <1>4, <1>5, <1>6

\* The worker whose turn is that of a window to update gets the update.
LEMMA SentUpdate ==
    ASSUME NEW e, NEW upd \in SUBSET Window, NEW mrg, NEW pending, NEW idle,
           NEW w \in idle, NEW k \in upd, Turn(w, idle) = Rank(k, upd)
    PROVE  Sent(e, upd, mrg, pending, idle, w) =
             <<UpdateTask(k, Last(e.pending[k]), ToFinalize(e.ins[k], e.com[k]))>>
<1> DEFINE updFor == {j \in upd : Turn(w, idle) = Rank(j, upd)}
<1>1. \A i, j \in upd : Rank(i, upd) = Rank(j, upd) => i = j
  BY RankNumbers
<1>2. updFor = {k}
  BY <1>1
<1>3. (CHOOSE j \in updFor : TRUE) = k
  BY <1>2
<1> QED
  BY <1>2, <1>3 DEF Sent

\* The worker whose turn comes after the updates gets the merge of its window.
LEMMA SentMerge ==
    ASSUME NEW e, NEW upd \in SUBSET Window, NEW mrg \in SUBSET Window,
           NEW pending, NEW idle, NEW w \in idle, NEW k \in mrg,
           Turn(w, idle) = Cardinality(upd) + Rank(k, mrg)
    PROVE  Sent(e, upd, mrg, pending, idle, w) =
             <<MergeTask(k, Last(pending[k]), Last(Front(pending[k])))>>
<1> DEFINE updFor == {j \in upd : Turn(w, idle) = Rank(j, upd)}
           mrgFor == {j \in mrg : Turn(w, idle) = Cardinality(upd) + Rank(j, mrg)}
<1>1. PICK c : c = Cardinality(upd)
  OBVIOUS
<1>2. c \in Nat /\ \A j \in upd : Rank(j, upd) \in Int /\ Rank(j, upd) < c
  BY <1>1, RankNumbers
<1>3. /\ \A j \in mrg : Rank(j, mrg) \in Int /\ 0 <= Rank(j, mrg)
      /\ \A i, j \in mrg : Rank(i, mrg) = Rank(j, mrg) => i = j
  BY RankNumbers
<1>4. Turn(w, idle) = c + Rank(k, mrg)
  BY <1>1
<1>5. updFor = {}
  <2>1. PICK s : s = Rank(k, mrg)
    OBVIOUS
  <2>2. s \in Int /\ 0 <= s /\ Turn(w, idle) = c + s
    BY <1>3, <1>4, <2>1
  <2>3. ASSUME NEW j \in upd PROVE Turn(w, idle) # Rank(j, upd)
    BY <1>2, <2>2
  <2> QED
    BY <2>3
<1>6. mrgFor = {k}
  <2>1. ASSUME NEW j \in mrg, c + Rank(k, mrg) = c + Rank(j, mrg) PROVE j = k
    <3>1. Rank(k, mrg) = Rank(j, mrg)
      BY <1>2, <1>3, <2>1
    <3> QED
      BY <1>3, <3>1
  <2> QED
    BY <1>1, <1>4, <2>1
<1>7. (CHOOSE j \in mrgFor : TRUE) = k
  BY <1>6
<1> QED
  BY <1>5, <1>6, <1>7 DEF Sent

\* A worker whose turn comes after all the tasks gets nothing, like one that
\* is not idle.
LEMMA SentNothing ==
    ASSUME NEW e, NEW upd \in SUBSET Window, NEW mrg \in SUBSET Window,
           NEW pending, NEW idle, NEW w \in Worker,
           w \in idle => /\ Turn(w, idle) \in Nat
                         /\ Turn(w, idle) >= Cardinality(upd) + Cardinality(mrg)
    PROVE  Sent(e, upd, mrg, pending, idle, w) = <<>>
<1> DEFINE updFor == {j \in upd : Turn(w, idle) = Rank(j, upd)}
           mrgFor == {j \in mrg : Turn(w, idle) = Cardinality(upd) + Rank(j, mrg)}
           c == Cardinality(upd)
           d == Cardinality(mrg)
<1>1. c \in Nat /\ d \in Nat
  BY RankNumbers
<1>2. \A j \in upd : Rank(j, upd) \in Int /\ Rank(j, upd) < c
  BY RankNumbers
<1>3. \A j \in mrg : Rank(j, mrg) \in Int /\ Rank(j, mrg) < d
  BY RankNumbers
<1>4. w \in idle => updFor = {} /\ mrgFor = {}
  <2> SUFFICES ASSUME w \in idle PROVE updFor = {} /\ mrgFor = {}
    OBVIOUS
  <2>1. \A j \in upd : Rank(j, upd) < c /\ Rank(j, upd) \in Int
    BY <1>1, <1>2
  <2>2. \A j \in mrg : Rank(j, mrg) < d /\ Rank(j, mrg) \in Int
    BY <1>1, <1>3
  <2>3. \A j \in upd : Turn(w, idle) # Rank(j, upd)
    BY <1>1, <2>1
  <2>4. \A j \in mrg : Turn(w, idle) # c + Rank(j, mrg)
    BY <1>1, <2>2
  <2> QED
    BY <2>3, <2>4
<1>5. ~(w \in idle /\ updFor # {}) /\ ~(w \in idle /\ updFor = {} /\ mrgFor # {})
  BY <1>4
<1> HIDE DEF updFor, mrgFor
<1> QED
  BY <1>5 DEF Sent, updFor, mrgFor

\* As many idle workers are assigned as there are tasks, each with a turn of
\* its own, and one of them is the last.
LEMMA AssignedWorkers ==
    ASSUME NEW idle \in SUBSET Worker, last_w \in Worker, NEW num \in Nat,
           num <= Cardinality(idle)
    PROVE  LET A == Assigned(num, idle) IN
           /\ A \in SUBSET idle /\ IsFiniteSet(A) /\ Cardinality(A) = num
           /\ \A w \in idle : Turn(w, idle) \in Nat
           /\ \A v, w \in idle : Turn(v, idle) = Turn(w, idle) => v = w
           /\ num > 0 => \E w \in A : \A v \in A : Turn(v, idle) <= Turn(w, idle)
<1> DEFINE T == [w \in idle |-> Turn(w, idle)]
           A == {w \in idle : T[w] < num}
           c == Cardinality(idle)
<1>1. IsFiniteSet(idle) /\ T \in Bijection(idle, 0..(c - 1))
  BY WorkerTurn
<1>2. c \in Nat
  BY <1>1, FS_CardinalityType
<1>3. Assigned(num, idle) = A
  BY DEF Assigned
<1>4. /\ IsFiniteSet(A)
      /\ Cardinality(A) = IF num <= c THEN num ELSE c
      /\ \A i \in 0..((IF num <= c THEN num ELSE c) - 1) : \E w \in A : T[w] = i
  <2> HIDE DEF T
  <2> QED
    BY <1>1, FirstOnes
<1>5. /\ \A w \in idle : T[w] \in Nat
      /\ \A v, w \in idle : T[v] = T[w] => v = w
  BY <1>1, <1>2 DEF Bijection, Injection, IsInjective
<1>6. ASSUME num > 0 PROVE \E w \in A : \A v \in A : T[v] <= T[w]
  <2>1. PICK w \in A : T[w] = num - 1
    BY <1>4, <1>6
  <2> QED
    BY <2>1, <1>5
<1> QED
  BY <1>3, <1>4, <1>5, <1>6

\* Schedule makes one task for each of the windows it takes, and gives them to
\* as many idle workers.
LEMMA ScheduledTasks ==
    ASSUME NEW e \in EmitterState, NEW idle \in SUBSET e.ready,
           e.nready = Cardinality(e.ready),
           in_q \in [Worker -> Seq(Message)], last_w \in Worker
    PROVE  \E upd, mrg \in SUBSET Window : \E up, mg :
              Scheduled(e, Schedule(e, idle), idle, upd, mrg, up, mg)
<1> DEFINE n   == Cardinality(idle)
           upd == First(n, Updatable(e))
           pq  == [k \in Window |->
                     IF k \in upd THEN Front(e.pending[k]) ELSE e.pending[k]]
           mrg == First(n - Cardinality(upd), Mergeable(e, pq))
           num == Cardinality(upd) + Cardinality(mrg)
           A   == Assigned(num, idle)
           s   == Schedule(e, idle)
           pending2 == [k \in Window |->
                          IF k \in mrg THEN Front(Front(pq[k])) ELSE pq[k]]
           busy2 == [k \in Window |-> e.busy[k] \/ k \in upd]
           open2 == {k \in e.open : k \in upd => ~ToFinalize(e.ins[k], e.com[k])}
           q2    == [w \in Worker |-> in_q[w] \o Sent(e, upd, mrg, pq, idle, w)]
           last2 == IF num = 0 THEN last_w
                    ELSE CHOOSE w \in A : \A v \in A : Turn(v, idle) <= Turn(w, idle)
           u  == TakeUpdates(e, upd)
           up == [k \in upd |-> CHOOSE w \in idle : Turn(w, idle) = Rank(k, upd)]
           mg == [k \in mrg |-> CHOOSE w \in idle :
                                   Turn(w, idle) = Cardinality(upd) + Rank(k, mrg)]
           given == {up[k] : k \in upd} \cup {mg[k] : k \in mrg}
<1>1. s = [e EXCEPT !.pending = pending2, !.busy = busy2, !.open = open2,
             !.npend = e.npend - num, !.ready = e.ready \ A,
             !.nready = e.nready - num, !.q = q2, !.last = last2]
  BY DEF Schedule
<1>2. idle \in SUBSET Worker /\ IsFiniteSet(idle) /\ n \in Nat
  <2>1. idle \in SUBSET Worker
    BY DEF EmitterState
  <2>2. IsFiniteSet(idle)
    BY <2>1, WorkerTurn
  <2> QED
    BY <2>1, <2>2, FS_CardinalityType
<1>3. /\ upd \in SUBSET Window /\ Cardinality(upd) \in Nat /\ Cardinality(upd) <= n
      /\ upd \subseteq Updatable(e)
      /\ \A k \in upd : k \in e.open /\ ~e.busy[k] /\ e.pending[k] # <<>>
  <2>1. Updatable(e) \in SUBSET Window
    BY DEF Updatable, EmitterState
  <2>2. upd \in SUBSET Updatable(e) /\ Cardinality(upd) \in Nat /\ Cardinality(upd) <= n
    BY <2>1, <1>2, FirstWindows
  <2> QED
    BY <2>1, <2>2 DEF Updatable
<1> HIDE DEF upd
<1>4. pq \in [Window -> Seq(SUBSET Partition)]
  <2>1. ASSUME NEW k \in upd PROVE Front(e.pending[k]) \in Seq(SUBSET Partition)
    <3>1. e.pending[k] \in Seq(SUBSET Partition) /\ e.pending[k] # <<>>
      BY <1>3 DEF EmitterState
    <3>2. Len(e.pending[k]) > 0
      BY <3>1, EmptySeq
    <3> QED
      BY <3>1, <3>2, FrontLast
  <2> QED
    BY <1>3, <2>1 DEF EmitterState
<1> HIDE DEF pq
<1>5. /\ mrg \in SUBSET Window /\ Cardinality(mrg) \in Nat
      /\ Cardinality(mrg) <= n - Cardinality(upd)
      /\ mrg \subseteq Mergeable(e, pq)
      /\ \A k \in mrg : Len(pq[k]) > 1
  <2>1. Mergeable(e, pq) \in SUBSET Window
    BY DEF Mergeable, EmitterState
  <2>2. n - Cardinality(upd) \in Nat
    BY <1>2, <1>3
  <2>3. /\ mrg \in SUBSET Mergeable(e, pq) /\ Cardinality(mrg) \in Nat
        /\ Cardinality(mrg) <= n - Cardinality(upd)
    BY <2>1, <2>2, FirstWindows
  <2> QED
    BY <2>1, <2>3 DEF Mergeable
<1> HIDE DEF mrg
<1>6. num \in Nat /\ num <= n
  BY <1>2, <1>3, <1>5
<1>7. /\ A \in SUBSET idle /\ IsFiniteSet(A) /\ Cardinality(A) = num
      /\ \A w \in idle : Turn(w, idle) \in Nat
      /\ \A v, w \in idle : Turn(v, idle) = Turn(w, idle) => v = w
      /\ num > 0 => \E w \in A : \A v \in A : Turn(v, idle) <= Turn(w, idle)
  <2> HIDE DEF num, n
  <2> QED
    BY <1>2, <1>6, AssignedWorkers DEF n
<1>8. \A k \in mrg : /\ Front(Front(pq[k])) \in Seq(SUBSET Partition)
                     /\ Last(pq[k]) \in SUBSET Partition
                     /\ Last(Front(pq[k])) \in SUBSET Partition
  <2> SUFFICES ASSUME NEW k \in mrg
               PROVE  /\ Front(Front(pq[k])) \in Seq(SUBSET Partition)
                      /\ Last(pq[k]) \in SUBSET Partition
                      /\ Last(Front(pq[k])) \in SUBSET Partition
    OBVIOUS
  <2>1. pq[k] \in Seq(SUBSET Partition) /\ Len(pq[k]) > 1
    BY <1>4, <1>5
  <2>2. Len(pq[k]) \in Nat /\ Len(pq[k]) > 0
    BY <2>1
  <2>3. /\ Front(pq[k]) \in Seq(SUBSET Partition) /\ Last(pq[k]) \in SUBSET Partition
        /\ Len(Front(pq[k])) = Len(pq[k]) - 1
    BY <2>1, <2>2, FrontLast
  <2>4. Len(Front(pq[k])) > 0
    BY <2>1, <2>2, <2>3
  <2> QED
    BY <2>3, <2>4, FrontLast
<1>9. \A k \in upd : Last(e.pending[k]) \in SUBSET Partition
  <2> SUFFICES ASSUME NEW k \in upd PROVE Last(e.pending[k]) \in SUBSET Partition
    OBVIOUS
  <2>1. e.pending[k] \in Seq(SUBSET Partition) /\ e.pending[k] # <<>>
    BY <1>3 DEF EmitterState
  <2>2. Len(e.pending[k]) > 0
    BY <2>1, EmptySeq
  <2> QED
    BY <2>1, <2>2, FrontLast
<1>10. u = [e EXCEPT !.pending = pq, !.busy = busy2, !.open = open2,
                     !.npend = e.npend - Cardinality(upd)]
  BY DEF TakeUpdates, pq
\* The turns of the workers that get the updates and the merges.
<1>11. /\ \A k \in upd : Rank(k, upd) \in Nat /\ Rank(k, upd) < Cardinality(upd)
       /\ \A j, k \in upd : Rank(j, upd) = Rank(k, upd) => j = k
       /\ \A i \in 0..(Cardinality(upd) - 1) : \E k \in upd : Rank(k, upd) = i
  BY <1>3, RankOrder
<1>12. /\ \A k \in mrg : Rank(k, mrg) \in Nat /\ Rank(k, mrg) < Cardinality(mrg)
       /\ \A j, k \in mrg : Rank(j, mrg) = Rank(k, mrg) => j = k
       /\ \A i \in 0..(Cardinality(mrg) - 1) : \E k \in mrg : Rank(k, mrg) = i
  BY <1>5, RankOrder
<1>13. \A i \in 0..(n - 1) : \E w \in idle : Turn(w, idle) = i
  BY <1>2, WorkerTurn DEF Bijection, Surjection
<1> HIDE DEF n, A
<1>14. ASSUME NEW k \in upd PROVE up[k] \in idle /\ Turn(up[k], idle) = Rank(k, upd)
  <2>1. Rank(k, upd) \in 0..(n - 1)
    BY <1>2, <1>3, <1>11
  <2> QED
    BY <2>1, <1>13
<1>15. ASSUME NEW k \in mrg
       PROVE  /\ mg[k] \in idle
              /\ Turn(mg[k], idle) = Cardinality(upd) + Rank(k, mrg)
  <2>1. Cardinality(upd) + Rank(k, mrg) \in 0..(n - 1)
    BY <1>2, <1>3, <1>5, <1>12
  <2> QED
    BY <2>1, <1>13
<1>16. /\ up \in [upd -> idle] /\ mg \in [mrg -> idle]
       /\ \A j, k \in upd : up[j] = up[k] => j = k
       /\ \A j, k \in mrg : mg[j] = mg[k] => j = k
       /\ \A j \in upd, k \in mrg : up[j] # mg[k]
  <2> HIDE DEF up, mg
  <2>1. up \in [upd -> idle] /\ mg \in [mrg -> idle]
    BY <1>14, <1>15 DEF up, mg
  <2>2. ASSUME NEW j \in upd, NEW k \in upd, up[j] = up[k] PROVE j = k
    BY <2>2, <1>11, <1>14
  <2>3. ASSUME NEW j \in mrg, NEW k \in mrg, mg[j] = mg[k] PROVE j = k
    <3>1. Rank(j, mrg) = Rank(k, mrg)
      BY <2>3, <1>3, <1>12, <1>15
    <3> QED
      BY <3>1, <1>12
  <2>4. ASSUME NEW j \in upd, NEW k \in mrg PROVE up[j] # mg[k]
    <3>1. Turn(up[j], idle) # Turn(mg[k], idle)
      BY <1>3, <1>11, <1>12, <1>14, <1>15
    <3> QED
      BY <3>1
  <2> QED
    BY <2>1, <2>2, <2>3, <2>4
<1> HIDE DEF up, mg
<1>17. A = given
  <2>1. ASSUME NEW k \in upd PROVE up[k] \in A
    BY <1>3, <1>5, <1>11, <1>14 DEF A, Assigned
  <2>2. ASSUME NEW k \in mrg PROVE mg[k] \in A
    BY <1>3, <1>5, <1>12, <1>15 DEF A, Assigned
  <2>3. ASSUME NEW w \in A PROVE w \in given
    <3>1. w \in idle /\ Turn(w, idle) \in Nat /\ Turn(w, idle) < num
      BY <1>7 DEF A, Assigned
    <3>2. CASE Turn(w, idle) < Cardinality(upd)
      <4>1. Turn(w, idle) \in 0..(Cardinality(upd) - 1)
        BY <3>1, <3>2, <1>3
      <4>2. PICK k \in upd : Rank(k, upd) = Turn(w, idle)
        BY <4>1, <1>11
      <4> QED
        BY <3>1, <4>2, <1>7, <1>14
    <3>3. CASE Turn(w, idle) >= Cardinality(upd)
      <4>1. Turn(w, idle) - Cardinality(upd) \in 0..(Cardinality(mrg) - 1)
        BY <3>1, <3>3, <1>3, <1>5
      <4>2. PICK k \in mrg : Rank(k, mrg) = Turn(w, idle) - Cardinality(upd)
        BY <4>1, <1>12
      <4>3. Turn(w, idle) = Cardinality(upd) + Rank(k, mrg)
        BY <3>1, <4>2, <1>3
      <4> QED
        BY <3>1, <4>3, <1>7, <1>15
    <3> QED
      BY <3>1, <3>2, <3>3, <1>3
  <2> QED
    BY <2>1, <2>2, <2>3
\* What each worker is sent.
<1>18. ASSUME NEW k \in upd
       PROVE  /\ UpdateOf(e, k) \in Task
              /\ Sent(e, upd, mrg, pq, idle, up[k]) = <<UpdateOf(e, k)>>
  <2>1. ToFinalize(e.ins[k], e.com[k]) \in BOOLEAN
    BY DEF ToFinalize
  <2>2. UpdateOf(e, k) \in Task
    BY <2>1, <1>3, <1>9 DEF UpdateOf, UpdateTask, Task
  <2> QED
    BY <2>2, <1>3, <1>14, SentUpdate DEF UpdateOf
<1>19. ASSUME NEW k \in mrg
       PROVE  /\ MergeOf(u, k) \in Task
              /\ Sent(e, upd, mrg, pq, idle, mg[k]) = <<MergeOf(u, k)>>
  <2>1. u.pending = pq
    BY <1>10 DEF EmitterState
  <2>2. MergeOf(u, k) = MergeTask(k, Last(pq[k]), Last(Front(pq[k])))
    BY <2>1 DEF MergeOf
  <2>3. MergeOf(u, k) \in Task
    BY <2>2, <1>5, <1>8 DEF MergeTask, Task
  <2> QED
    BY <2>2, <2>3, <1>3, <1>5, <1>15, SentMerge
<1>20. \A w \in Worker \ A : Sent(e, upd, mrg, pq, idle, w) = <<>>
  <2> SUFFICES ASSUME NEW w \in Worker \ A
               PROVE  Sent(e, upd, mrg, pq, idle, w) = <<>>
    OBVIOUS
  <2>1. w \in idle => Turn(w, idle) \in Nat /\ Turn(w, idle) >= num
    BY <1>6, <1>7 DEF A, Assigned
  <2> QED
    BY <2>1, <1>3, <1>5, SentNothing
<1>21. A \in SUBSET e.ready /\ A \subseteq Worker
  BY <1>2, <1>7
<1>22. q2 \in [Worker -> Seq(Message)]
  <2> SUFFICES ASSUME NEW w \in Worker
               PROVE  in_q[w] \o Sent(e, upd, mrg, pq, idle, w) \in Seq(Message)
    OBVIOUS
  <2>1. Sent(e, upd, mrg, pq, idle, w) \in Seq(Message)
    <3>1. \A t \in Task : <<t>> \in Seq(Message)
      BY ShortSequences DEF Message
    <3>2. CASE w \in given
      BY <3>1, <3>2, <1>18, <1>19
    <3>3. CASE w \notin given
      BY <3>3, <1>17, <1>20, EmptySeq
    <3> QED
      BY <3>2, <3>3
  <2> QED
    BY <2>1
<1>23. last2 \in Worker
  BY <1>6, <1>7, <1>21
<1>24. pending2 \in [Window -> Seq(SUBSET Partition)]
  BY <1>4, <1>8
<1>25. busy2 \in [Window -> BOOLEAN] /\ open2 \in SUBSET Window
  BY DEF EmitterState
<1> HIDE DEF num
<1>26. /\ e.npend - num \in Int /\ e.nready - num \in Int
       /\ e.npend - Cardinality(upd) \in Int
       /\ e.npend - num = e.npend - Cardinality(upd) - Cardinality(mrg)
  BY <1>3, <1>5 DEF EmitterState, num
<1> HIDE DEF q2, last2, pending2, busy2, open2, s, u
<1>27. u \in EmitterState
  BY <1>4, <1>10, <1>25, <1>26 DEF EmitterState
<1>28. s \in EmitterState
  BY <1>1, <1>21, <1>22, <1>23, <1>24, <1>25, <1>26 DEF EmitterState
<1>29. /\ s.open = u.open /\ s.ins = e.ins /\ s.com = e.com /\ s.busy = u.busy
       /\ s.pending = pending2 /\ s.npend = e.npend - num
       /\ s.ready = e.ready \ A /\ s.nready = e.nready - num /\ s.q = q2
       /\ u.pending = pq /\ u.npend = e.npend - Cardinality(upd)
  BY <1>1, <1>10 DEF EmitterState
<1>30. /\ TakeMerges(u, mrg).pending = pending2
       /\ TakeMerges(u, mrg).npend = u.npend - Cardinality(mrg)
  BY <1>27, <1>29 DEF TakeMerges, EmitterState, pending2
<1>31. s.nready = Cardinality(s.ready)
  <2>1. IsFiniteSet(e.ready)
    BY WorkerTurn DEF EmitterState
  <2>2. Cardinality(e.ready \ A) = Cardinality(e.ready) - Cardinality(e.ready \cap A)
    BY <2>1, FS_Difference
  <2>3. e.ready \cap A = A
    BY <1>21
  <2> QED
    BY <2>2, <2>3, <1>7, <1>29
<1>32. /\ \A k \in upd : s.q[up[k]] = in_q[up[k]] \o <<UpdateOf(e, k)>>
       /\ \A k \in mrg : s.q[mg[k]] = in_q[mg[k]] \o <<MergeOf(u, k)>>
       /\ \A w \in Worker \ given : s.q[w] = in_q[w]
  <2>1. \A w \in idle : s.q[w] = in_q[w] \o Sent(e, upd, mrg, pq, idle, w)
    BY <1>2, <1>29 DEF q2
  <2>2. \A w \in Worker \ given : s.q[w] = in_q[w]
    <3>1. \A w \in Worker : in_q[w] \o <<>> = in_q[w]
      BY ConcatEmptySeq
    <3> QED
      BY <3>1, <1>17, <1>20, <1>29 DEF q2
  <2>3. \A k \in upd : s.q[up[k]] = in_q[up[k]] \o <<UpdateOf(e, k)>>
    BY <2>1, <1>14, <1>18
  <2>4. \A k \in mrg : s.q[mg[k]] = in_q[mg[k]] \o <<MergeOf(u, k)>>
    BY <2>1, <1>15, <1>19
  <2> QED
    BY <2>2, <2>3, <2>4
<1>33. Scheduled(e, s, idle, upd, mrg, up, mg)
  <2> HIDE DEF given
  <2>1. mrg \subseteq Mergeable(e, u.pending)
    BY <1>5, <1>29
  <2> QED
    BY <2>1, <1>3, <1>16, <1>17, <1>18, <1>19, <1>26, <1>27, <1>28, <1>29, <1>30,
       <1>31, <1>32 DEF Scheduled, u, given
<1> QED
  BY <1>3, <1>5, <1>33 DEF s

\* Schedule deals tasks to the idle workers.
LEMMA Scheduling ==
    ASSUME NEW e \in EmitterState, NEW idle \in SUBSET e.ready, NEW s,
           NEW upd \in SUBSET Window, NEW mrg \in SUBSET Window, NEW up, NEW mg,
           Scheduled(e, s, idle, upd, mrg, up, mg)
    PROVE  Dealt(e, s, idle)
<1> DEFINE u == TakeUpdates(e, upd)
           A == {up[k] : k \in upd} \cup {mg[k] : k \in mrg}
           Job(w, t) == /\ s.q[w] = in_q[w] \o <<t>>
                        /\ \/ \E k \in upd : w = up[k] /\ t = UpdateOf(e, k)
                           \/ \E k \in mrg : w = mg[k] /\ t = MergeOf(u, k)
           task == [w \in A |-> CHOOSE t \in Task : Job(w, t)]
<1>1. /\ up \in [upd -> idle] /\ mg \in [mrg -> idle]
      /\ \A j, k \in upd : up[j] = up[k] => j = k
      /\ \A j \in upd, k \in mrg : up[j] # mg[k]
      /\ upd \subseteq Updatable(e)
      /\ s \in EmitterState
      /\ s.busy = u.busy /\ s.ready = e.ready \ A /\ s.nready = Cardinality(s.ready)
      /\ \A k \in upd : /\ UpdateOf(e, k) \in Task
                        /\ s.q[up[k]] = in_q[up[k]] \o <<UpdateOf(e, k)>>
      /\ \A k \in mrg : /\ MergeOf(u, k) \in Task
                        /\ s.q[mg[k]] = in_q[mg[k]] \o <<MergeOf(u, k)>>
      /\ \A w \in Worker \ A : s.q[w] = in_q[w]
  BY DEF Scheduled
<1>2. A \subseteq idle /\ e.ready \ s.ready = A /\ s.ready \subseteq e.ready
  BY <1>1
<1>3. u.busy = [k \in Window |-> e.busy[k] \/ k \in upd]
  BY DEF TakeUpdates, EmitterState
<1>4. \A w \in A : task[w] \in Task /\ Job(w, task[w])
  <2> SUFFICES ASSUME NEW w \in A PROVE \E t \in Task : Job(w, t)
    OBVIOUS
  <2>1. CASE \E k \in upd : w = up[k]
    <3>1. PICK k \in upd : w = up[k]
      BY <2>1
    <3>2. UpdateOf(e, k) \in Task /\ s.q[w] = in_q[w] \o <<UpdateOf(e, k)>>
      BY <1>1, <3>1
    <3>3. Job(w, UpdateOf(e, k))
      BY <3>1, <3>2
    <3> QED
      BY <3>2, <3>3
  <2>2. CASE \E k \in mrg : w = mg[k]
    <3>1. PICK k \in mrg : w = mg[k]
      BY <2>2
    <3>2. MergeOf(u, k) \in Task /\ s.q[w] = in_q[w] \o <<MergeOf(u, k)>>
      BY <1>1, <3>1
    <3>3. Job(w, MergeOf(u, k))
      BY <3>1, <3>2
    <3> QED
      BY <3>2, <3>3
  <2> QED
    BY <2>1, <2>2
<1> HIDE DEF task, u
<1>5. ASSUME NEW w \in A, task[w].type = "WIN_UPDATE"
      PROVE  \E k \in upd : w = up[k] /\ task[w].win_id = k
  <2>1. \A k : MergeOf(u, k).type # "WIN_UPDATE"
    BY DEF MergeOf, MergeTask
  <2>2. \A k : UpdateOf(e, k).win_id = k
    BY DEF UpdateOf, UpdateTask
  <2>3. \A k \in mrg : task[w] # MergeOf(u, k)
    BY <1>5, <2>1
  <2>4. \E k \in upd : w = up[k] /\ task[w] = UpdateOf(e, k)
    BY <1>4, <2>3
  <2> QED
    BY <2>2, <2>4
<1>6. \A k \in upd : ~e.busy[k] /\ s.busy[k]
  BY <1>1, <1>3 DEF Updatable
<1>7. \A k \in Window : e.busy[k] => s.busy[k]
  BY <1>1, <1>3
<1>8. task \in [A -> Task]
  BY <1>4 DEF task
<1> HIDE DEF A
<1>9. \A v, w \in A :
         /\ task[v].type = "WIN_UPDATE" /\ task[w].type = "WIN_UPDATE"
         /\ task[v].win_id = task[w].win_id
         => v = w
  BY <1>1, <1>5
<1>10. \A w \in A : task[w].type = "WIN_UPDATE" =>
          ~e.busy[task[w].win_id] /\ s.busy[task[w].win_id]
  BY <1>5, <1>6
<1>11. \A w \in A : s.q[w] = in_q[w] \o <<task[w]>>
  BY <1>4
<1> QED
  BY <1>1, <1>2, <1>7, <1>8, <1>9, <1>10, <1>11 DEF Dealt

-----------------------------------------------------------------------------
(* The invariant                                                           *)

\* A worker nothing happened to is in the state it was in.
LEMMA WorkerKept ==
    ASSUME NEW v \in Worker, in_q'[v] = in_q[v], feedback'[v] = feedback[v],
           status'[v] = status[v], wlqTerminated' = wlqTerminated,
           v \in activatedWorker' <=> v \in activatedWorker,
           v \in workerReady' <=> v \in workerReady
    PROVE  /\ Idle(v)' <=> Idle(v)
           /\ \A t : Has(v, t)' <=> Has(v, t)
           /\ Orders(v)' = Orders(v)
BY DEF Idle, Has, Working, Finished, Orders

\* The updates remain exclusive when every task goes on as one of its window.
LEMMA UpdatesKept ==
    ASSUME UpdatesInv, isBusy' = isBusy,
           \A v \in Worker : \A t \in Task : Has(v, t)' =>
               \E u \in Task : Has(v, u) /\ u.type = t.type /\ u.win_id = t.win_id
    PROVE  UpdatesInv'
<1> SUFFICES ASSUME NEW w \in Worker, NEW t \in Task, Has(w, t)', t.type = "WIN_UPDATE"
             PROVE  /\ isBusy[t.win_id]
                    /\ \A v \in Worker : \A u \in Task :
                          Has(v, u)' /\ u.type = "WIN_UPDATE" /\ u.win_id = t.win_id
                          => v = w
  BY DEF UpdatesInv
<1>1. PICK t0 \in Task : Has(w, t0) /\ t0.type = t.type /\ t0.win_id = t.win_id
  OBVIOUS
<1>2. isBusy[t.win_id]
  BY <1>1 DEF UpdatesInv
<1>3. ASSUME NEW v \in Worker, NEW u \in Task,
             Has(v, u)', u.type = "WIN_UPDATE", u.win_id = t.win_id
      PROVE  v = w
  <2>1. PICK u0 \in Task : Has(v, u0) /\ u0.type = u.type /\ u0.win_id = u.win_id
    BY <1>3
  <2> QED
    BY <1>1, <1>3, <2>1 DEF UpdatesInv
<1> QED
  BY <1>2, <1>3

\* The invariant holds at the start: every worker is idle.
LEMMA InitIInv == Init => IInv
<1> SUFFICES ASSUME Init PROVE IInv
  OBVIOUS
<1>1. NUM_WORKER_THREADS \in Nat \ {0} /\ NW_WLQ \in 1..NUM_WORKER_THREADS
  BY WLQAssumption
<1>2. GO_OUT \in Message /\ EOS \in Message
  BY DEF Message
<1>3. /\ activatedWorker \subseteq Worker /\ last_w \in Worker
      /\ eos_received \in 0..NUM_WORKER_THREADS
  BY <1>1 DEF Init, Worker
<1>4. in_q \in [Worker -> Seq(Message)]
  BY <1>2, ShortSequences DEF Init
<1>5. n_readyWorkers = Cardinality(workerReady)
  BY <1>1, Below DEF Init, Worker
<1>6. total \in [Pane -> Int]
  BY WLQAssumption DEF Init, Pane
<1>7. PoolType
  <2>1. toArrive \subseteq Partition /\ open \subseteq Window
    BY DEF Init
  <2>2. cnt_ins \in [Window -> [LocalPane -> Int]] /\ cnt_tasks_com \in [Window -> Int]
    BY DEF Init, UNKNOWN
  <2>3. pendingQueue \in [Window -> Seq(SUBSET Partition)]
    BY EmptySeq DEF Init
  <2>4. n_pendingtasks \in Int /\ workerReady \subseteq Worker
    BY DEF Init
  <2>5. isBusy \in [Window -> BOOLEAN]
    BY Zenon DEF Init
  <2>6. wlqTerminated \in BOOLEAN
    BY Zenon DEF Init
  <2>7. status \in [Worker -> {"running", "frozen", "ended"}]
    BY DEF Init
  <2>8. feedback \in [Worker -> Seq(Task)]
    BY EmptySeq DEF Init
  <2> QED
    BY <1>3, <1>4, <1>5, <1>6, <2>1, <2>2, <2>3, <2>4, <2>5, <2>6, <2>7, <2>8 DEF PoolType
<1>8. StatusInv
  BY <1>1 DEF Init, StatusInv
<1>9. ASSUME NEW w \in Worker PROVE Idle(w)
  BY DEF Init, Idle, Orders
<1>10. ASSUME NEW w \in Worker, NEW t \in Task PROVE ~Has(w, t)
  BY DEF Init, Has, Working, Finished
<1> QED
  BY <1>7, <1>8, <1>9, <1>10 DEF IInv, WorkersInv, UpdatesInv

\* Nothing the invariant speaks of changes.
LEMMA NoChange ==
    ASSUME IInv,
           UNCHANGED <<plqVars, descVars, poolVars, in_q, status, feedback>>
    PROVE  IInv'
BY DEF IInv, PoolType, StatusInv, WorkersInv, UpdatesInv, Idle, Has, Working,
       Finished, Orders, plqVars, descVars, poolVars

\* A worker completes its task and gives it back.
LEMMA ExecuteIInv ==
    ASSUME IInv, NEW w \in Worker, Execute(w)
    PROVE  IInv'
<1> USE DEF IInv
<1> DEFINE t == Head(in_q[w])
<1>1. /\ status[w] = "running" /\ in_q[w] # <<>>
      /\ in_q' = [in_q EXCEPT ![w] = Tail(@)]
      /\ t.type \in {"WIN_UPDATE", "MERGE"}
      /\ UNCHANGED <<plqVars, descVars, poolVars, status>>
  BY DEF Execute
<1>2. PICK t0 \in Task : Working(w, t0)
  <2>1. t # GO_OUT /\ t # EOS
    BY <1>1 DEF GO_OUT, EOS
  <2>2. Head(<<GO_OUT>>) = GO_OUT /\ Head(<<EOS>>) = EOS
    BY ShortSequences DEF Message
  <2>3. in_q[w] # Orders(w)
    BY <1>1, <2>1, <2>2 DEF Orders
  <2> QED
    BY <2>3 DEF WorkersInv, Idle, Has, Finished
<1>3. /\ t = t0
      /\ Tail(in_q[w]) = IF w \in activatedWorker THEN <<>> ELSE <<GO_OUT>>
  BY <1>2, ShortSequences DEF Working, Message
<1>4. PICK t1 \in Task : /\ feedback' = [feedback EXCEPT ![w] = Append(@, t1)]
                         /\ t1.type = t0.type /\ t1.win_id = t0.win_id
  <2>1. CASE feedback' = [feedback EXCEPT ![w] = Append(@, [t EXCEPT !.p2 = {}])]
    <3>1. /\ [t0 EXCEPT !.p2 = {}] \in Task
          /\ [t0 EXCEPT !.p2 = {}].type = t0.type
          /\ [t0 EXCEPT !.p2 = {}].win_id = t0.win_id
      BY DEF Task
    <3> QED
      BY <2>1, <3>1, <1>3
  <2>2. CASE feedback' = [feedback EXCEPT ![w] =
                            Append(@, [t EXCEPT !.p1 = t.p1 \cup t.p2, !.p2 = {}])]
    <3>1. /\ [t0 EXCEPT !.p1 = t0.p1 \cup t0.p2, !.p2 = {}] \in Task
          /\ [t0 EXCEPT !.p1 = t0.p1 \cup t0.p2, !.p2 = {}].type = t0.type
          /\ [t0 EXCEPT !.p1 = t0.p1 \cup t0.p2, !.p2 = {}].win_id = t0.win_id
      BY DEF Task
    <3> QED
      BY <2>2, <3>1, <1>3
  <2> QED
    BY <2>1, <2>2 DEF Execute
<1>5. Finished(w, t1)'
  <2>1. feedback'[w] = <<t1>>
    BY <1>2, <1>4, ShortSequences DEF Working, PoolType
  <2>2. in_q'[w] = IF w \in activatedWorker THEN <<>> ELSE <<GO_OUT>>
    BY <1>1, <1>3 DEF PoolType
  <2> QED
    BY <1>1, <1>2, <2>1, <2>2 DEF Finished, Working, Orders, poolVars
<1>6. ASSUME NEW v \in Worker, v # w
      PROVE  (Idle(v)' <=> Idle(v)) /\ \A u : Has(v, u)' <=> Has(v, u)
  BY <1>1, <1>4, <1>6, WorkerKept DEF PoolType, poolVars
<1>7. WorkersInv'
  BY <1>5, <1>6 DEF WorkersInv, Has
<1>8. UpdatesInv'
  <2>1. isBusy' = isBusy
    BY <1>1 DEF descVars
  <2>2. ASSUME NEW v \in Worker, NEW u \in Task, Has(v, u)'
        PROVE  \E u0 \in Task : Has(v, u0) /\ u0.type = u.type /\ u0.win_id = u.win_id
    <3>1. CASE v = w
      <4>1. u = t1
        <5>1. w \notin workerReady /\ feedback'[w] = <<t1>> /\ <<t1>> # <<>>
          BY <1>2, <1>5, ShortSequences DEF Working, Finished
        <5>2. feedback'[w] = <<u>>
          BY <5>1, <3>1, <2>2 DEF Has, Working, Finished
        <5> QED
          BY <5>1, <5>2
      <4> QED
        BY <4>1, <3>1, <1>2, <1>4 DEF Has
    <3>2. CASE v # w
      BY <3>2, <2>2, <1>6
    <3> QED
      BY <3>1, <3>2
  <2> QED
    BY <2>1, <2>2, UpdatesKept
<1>9. StatusInv'
  BY <1>1 DEF StatusInv, plqVars, poolVars
<1>10. PoolType'
  <2>1. in_q' \in [Worker -> Seq(Message)]
    BY <1>1, HeadTailProperties DEF PoolType
  <2>2. feedback' \in [Worker -> Seq(Task)]
    BY <1>4, AppendProperties DEF PoolType
  <2> QED
    BY <1>1, <2>1, <2>2 DEF PoolType, plqVars, descVars, poolVars
<1> QED
  BY <1>7, <1>8, <1>9, <1>10

\* A worker freezes or ends: the order it takes is the last message it had.
LEMMA LeaveIInv ==
    ASSUME IInv, NEW w \in Worker, Leave(w)
    PROVE  IInv'
<1> USE DEF IInv
<1>1. /\ status[w] = "running" /\ in_q[w] # <<>>
      /\ Head(in_q[w]) \in {GO_OUT, EOS}
      /\ in_q' = [in_q EXCEPT ![w] = Tail(@)]
      /\ status' = [status EXCEPT ![w] =
                      IF Head(in_q[w]) = EOS THEN "ended" ELSE "frozen"]
      /\ UNCHANGED <<plqVars, descVars, poolVars, feedback>>
  BY DEF Leave
<1>2. ASSUME NEW t \in Task PROVE ~Working(w, t)
  <2>1. t # GO_OUT /\ t # EOS
    BY DEF Task, GO_OUT, EOS
  <2>2. Head(<<t>>) = t /\ Head(<<t, GO_OUT>>) = t
    BY ShortSequences DEF Message
  <2> QED
    BY <1>1, <2>1, <2>2 DEF Working
<1>3. in_q[w] = Orders(w) /\ (Idle(w) \/ \E t \in Task : Finished(w, t))
  BY <1>2 DEF WorkersInv, Idle, Has, Finished
<1>4. /\ Head(in_q[w]) = EOS => wlqTerminated
      /\ Head(in_q[w]) # EOS => ~wlqTerminated /\ w \notin activatedWorker
      /\ Tail(in_q[w]) = <<>>
  <2>1. Head(<<GO_OUT>>) = GO_OUT /\ Tail(<<GO_OUT>>) = <<>>
    BY ShortSequences DEF Message
  <2>2. Head(<<EOS>>) = EOS /\ Tail(<<EOS>>) = <<>>
    BY ShortSequences DEF Message
  <2>3. GO_OUT # EOS
    BY DEF GO_OUT, EOS
  <2> QED
    BY <1>1, <1>3, <2>1, <2>2, <2>3 DEF Orders
<1>5. in_q'[w] = <<>> /\ Orders(w)' = <<>>
  BY <1>1, <1>4 DEF PoolType, Orders
<1>6. /\ Idle(w) => Idle(w)'
      /\ \A t : Finished(w, t) => Finished(w, t)'
      /\ \A t : ~Working(w, t)'
  <2>1. status'[w] # "running"
    BY <1>1 DEF PoolType
  <2> QED
    BY <1>1, <1>5, <2>1 DEF Idle, Finished, Working, poolVars
<1>7. \A t : Finished(w, t)' => Finished(w, t)
  BY <1>1, <1>3 DEF Finished, poolVars
<1>8. ASSUME NEW v \in Worker, v # w
      PROVE  (Idle(v)' <=> Idle(v)) /\ \A t : Has(v, t)' <=> Has(v, t)
  BY <1>1, <1>8, WorkerKept DEF PoolType, poolVars
<1>9. WorkersInv'
  BY <1>3, <1>6, <1>8 DEF WorkersInv, Has
<1>10. UpdatesInv'
  <2>1. isBusy' = isBusy
    BY <1>1 DEF descVars
  <2>2. \A v \in Worker : \A t \in Task : Has(v, t)' => Has(v, t)
    BY <1>6, <1>7, <1>8 DEF Has
  <2> QED
    BY <2>1, <2>2, UpdatesKept
<1>11. StatusInv'
  BY <1>1, <1>4 DEF PoolType, StatusInv, plqVars, poolVars
<1>12. PoolType'
  <2>1. in_q' \in [Worker -> Seq(Message)]
    BY <1>1, HeadTailProperties DEF PoolType
  <2> QED
    BY <1>1, <2>1 DEF PoolType, plqVars, descVars, poolVars
<1> QED
  BY <1>9, <1>10, <1>11, <1>12

\* Frozen workers are utilized again.
LEMMA AddWorkersIInv ==
    ASSUME IInv, NEW W \in SUBSET Worker, AddWorkers(W)
    PROVE  IInv'
<1> USE DEF IInv
<1>1. /\ ~wlqTerminated /\ \A w \in W : status[w] = "frozen"
      /\ activatedWorker' = activatedWorker \cup W
      /\ status' = [w \in Worker |-> IF w \in W THEN "running" ELSE status[w]]
      /\ UNCHANGED <<plqVars, descVars, n_pendingtasks, workerReady,
                     n_readyWorkers, last_w, wlqTerminated, in_q, feedback>>
  BY DEF AddWorkers
<1>2. ASSUME NEW w \in W
      PROVE  /\ Idle(w) => Idle(w)'
             /\ \A t : Finished(w, t) <=> Finished(w, t)'
             /\ \A t : ~Working(w, t) /\ ~Working(w, t)'
  <2>1. status[w] = "frozen" /\ status'[w] = "running" /\ w \in activatedWorker'
    BY <1>1
  <2>2. Orders(w) = <<>> /\ Orders(w)' = <<>>
    BY <1>1, <2>1 DEF Orders
  <2>3. in_q[w] = <<>>
    BY <2>1, <2>2 DEF WorkersInv, Idle, Has, Working, Finished
  <2>4. \A t : <<t>> # <<>>
    BY ShortSequences
  <2> QED
    BY <1>1, <2>1, <2>2, <2>3, <2>4 DEF Idle, Working, Finished
<1>3. ASSUME NEW v \in Worker, v \notin W
      PROVE  (Idle(v)' <=> Idle(v)) /\ \A t : Has(v, t)' <=> Has(v, t)
  BY <1>1, <1>3, WorkerKept DEF PoolType
<1>4. WorkersInv'
  BY <1>2, <1>3 DEF WorkersInv, Has
<1>5. UpdatesInv'
  <2>1. isBusy' = isBusy
    BY <1>1 DEF descVars
  <2>2. \A v \in Worker : \A t \in Task : Has(v, t)' => Has(v, t)
    BY <1>2, <1>3 DEF Has
  <2> QED
    BY <2>1, <2>2, UpdatesKept
<1>6. StatusInv'
  BY <1>1 DEF PoolType, StatusInv, plqVars
<1>7. PoolType'
  BY <1>1 DEF PoolType, plqVars, descVars
<1> QED
  BY <1>4, <1>5, <1>6, <1>7

\* Workers are given up: the order follows the task they may have.
LEMMA RemoveWorkersIInv ==
    ASSUME IInv, NEW W \in SUBSET Worker, RemoveWorkers(W)
    PROVE  IInv'
<1> USE DEF IInv
<1>1. /\ ~wlqTerminated /\ W \subseteq activatedWorker
      /\ activatedWorker' = activatedWorker \ W
      /\ in_q' = [w \in Worker |->
                     IF w \in W THEN Append(in_q[w], GO_OUT) ELSE in_q[w]]
      /\ UNCHANGED <<plqVars, descVars, n_pendingtasks, workerReady,
                     n_readyWorkers, last_w, wlqTerminated, status, feedback>>
  BY DEF RemoveWorkers, CanRemove
<1>2. GO_OUT \in Message
  BY DEF Message
<1>3. ASSUME NEW w \in W
      PROVE  /\ Idle(w) => Idle(w)'
             /\ \A t \in Task : Finished(w, t) => Finished(w, t)'
             /\ \A t \in Task : Working(w, t) => Working(w, t)'
             /\ \A t \in Task : Has(w, t)' => Has(w, t)
  <2>1. /\ status[w] = "running" /\ w \in activatedWorker /\ w \notin activatedWorker'
        /\ status'[w] = "running"
    BY <1>1 DEF StatusInv, PoolType
  <2>2. Orders(w) = <<>> /\ Orders(w)' = <<GO_OUT>>
    BY <1>1, <2>1 DEF Orders
  <2>3. in_q'[w] = Append(in_q[w], GO_OUT)
    BY <1>1
  <2>4. Append(<<>>, GO_OUT) = <<GO_OUT>>
    BY <1>2, ShortSequences
  <2>5. \A t \in Task : Append(<<t>>, GO_OUT) = <<t, GO_OUT>>
    <3> SUFFICES ASSUME NEW t \in Task PROVE Append(<<t>>, GO_OUT) = <<t, GO_OUT>>
      OBVIOUS
    <3>1. t \in Message
      BY DEF Message
    <3> QED
      BY <1>2, <3>1, ShortSequences
  <2>6. Idle(w) => Idle(w)'
    BY <1>1, <2>2, <2>3, <2>4 DEF Idle
  <2>7. \A t \in Task : Finished(w, t) => Finished(w, t)'
    BY <1>1, <2>2, <2>3, <2>4 DEF Finished
  <2>8. \A t \in Task : Working(w, t) => Working(w, t)'
    BY <1>1, <2>1, <2>3, <2>5 DEF Working
  <2>9. ASSUME NEW t \in Task, Has(w, t)' PROVE Has(w, t)
    <3>1. ~Idle(w)
      BY <1>1, <2>9 DEF Idle, Has, Working, Finished
    <3>2. PICK u \in Task : Has(w, u)
      BY <3>1 DEF WorkersInv
    <3>3. CASE Finished(w, u)
      <4>1. feedback[w] = <<u>> /\ <<u>> # <<>>
        BY <3>3, ShortSequences DEF Finished
      <4>2. feedback[w] = <<t>>
        BY <4>1, <2>9, <1>1 DEF Has, Working, Finished
      <4>3. t = u
        BY <4>1, <4>2
      <4> QED
        BY <4>3, <3>2
    <3>4. CASE Working(w, u)
      <4>1. in_q'[w] = <<u, GO_OUT>> /\ feedback[w] = <<>>
        BY <3>4, <2>1, <2>3, <2>5 DEF Working
      <4>2. <<t>> # <<>>
        BY ShortSequences
      <4>3. in_q'[w] = <<t, GO_OUT>>
        BY <4>1, <4>2, <2>1, <2>9, <1>1 DEF Has, Working, Finished
      <4>4. t = u
        BY <4>1, <4>3
      <4> QED
        BY <4>4, <3>2
    <3> QED
      BY <3>2, <3>3, <3>4 DEF Has
  <2> QED
    BY <2>6, <2>7, <2>8, <2>9
<1>4. ASSUME NEW v \in Worker, v \notin W
      PROVE  (Idle(v)' <=> Idle(v)) /\ \A t : Has(v, t)' <=> Has(v, t)
  BY <1>1, <1>4, WorkerKept DEF PoolType
<1>5. WorkersInv'
  BY <1>3, <1>4 DEF WorkersInv, Has
<1>6. UpdatesInv'
  <2>1. isBusy' = isBusy
    BY <1>1 DEF descVars
  <2>2. \A v \in Worker : \A t \in Task : Has(v, t)' => Has(v, t)
    BY <1>3, <1>4
  <2> QED
    BY <2>1, <2>2, UpdatesKept
<1>7. StatusInv'
  BY <1>1 DEF PoolType, StatusInv, plqVars
<1>8. PoolType'
  <2>1. in_q' \in [Worker -> Seq(Message)]
    BY <1>1, <1>2, AppendProperties DEF PoolType
  <2> QED
    BY <1>1, <2>1 DEF PoolType, plqVars, descVars
<1> QED
  BY <1>5, <1>6, <1>7, <1>8

\* The emitter, whose fields are now those of e, took back the tasks of the
\* workers done; the windows of all the other updates are busy in e.
TakenBack(done, e) ==
    /\ done \subseteq Worker /\ done \cap workerReady = {}
    /\ e \in EmitterState
    /\ e.ready = workerReady \cup done /\ e.nready = Cardinality(e.ready)
    /\ \A w \in done : \E t \in Task : Finished(w, t)
    /\ \A v \in Worker \ done : \A t \in Task :
          Has(v, t) /\ t.type = "WIN_UPDATE" => e.busy[t.win_id]
    /\ feedback' = [w \in Worker |-> IF w \in done THEN <<>> ELSE feedback[w]]

\* Tasks are dealt to workers that are utilized and not busy.
LEMMA DealWorkers ==
    ASSUME IInv, ~wlqTerminated, NEW done, NEW e, TakenBack(done, e),
           NEW idle \in SUBSET activatedWorker, NEW s, Dealt(e, s, idle),
           workerReady' = s.ready, isBusy' = s.busy, in_q' = s.q,
           UNCHANGED <<activatedWorker, status, wlqTerminated>>
    PROVE  WorkersInv' /\ UpdatesInv'
<1> DEFINE given == e.ready \ s.ready
<1>1. PICK task \in [given -> Task] :
          /\ \A w \in given : s.q[w] = in_q[w] \o <<task[w]>>
          /\ \A w \in given : task[w].type = "WIN_UPDATE" =>
                ~e.busy[task[w].win_id] /\ s.busy[task[w].win_id]
          /\ \A v, w \in given :
                /\ task[v].type = "WIN_UPDATE" /\ task[w].type = "WIN_UPDATE"
                /\ task[v].win_id = task[w].win_id
                => v = w
  BY DEF Dealt
<1>2. /\ s.ready \subseteq e.ready /\ given \subseteq idle /\ e.ready \subseteq Worker
      /\ \A k \in Window : e.busy[k] => s.busy[k]
      /\ \A w \in Worker \ given : in_q'[w] = in_q[w]
  BY DEF Dealt, TakenBack, IInv, PoolType
\* The workers that keep their task.
<1>3. ASSUME NEW v \in Worker, v \notin e.ready
      PROVE  (Idle(v)' <=> Idle(v)) /\ \A t : Has(v, t)' <=> Has(v, t)
  <2>1. in_q'[v] = in_q[v] /\ feedback'[v] = feedback[v]
    BY <1>2, <1>3 DEF TakenBack
  <2>2. v \notin workerReady /\ v \notin workerReady'
    BY <1>2, <1>3 DEF TakenBack
  <2> QED
    BY <2>1, <2>2, WorkerKept
\* The workers that were ready or have become so.
<1>4. ASSUME NEW v \in e.ready
      PROVE  v \in Worker /\ in_q[v] = Orders(v) /\ feedback'[v] = <<>>
  <2>1. CASE v \in done
    BY <2>1 DEF TakenBack, Finished
  <2>2. CASE v \in workerReady /\ v \notin done
    <3>1. v \in Worker
      BY <2>2 DEF IInv, PoolType
    <3>2. Idle(v)
      BY <2>2, <3>1 DEF IInv, WorkersInv, Has, Working, Finished
    <3> QED
      BY <2>2, <3>1, <3>2 DEF Idle, TakenBack
  <2> QED
    BY <2>1, <2>2 DEF TakenBack
<1>5. ASSUME NEW v \in s.ready
      PROVE  v \in Worker /\ Idle(v)'
  <2>1. v \in Worker /\ in_q'[v] = in_q[v]
    BY <1>2
  <2>2. Orders(v)' = Orders(v)
    BY DEF Orders
  <2> QED
    BY <1>2, <1>4, <2>1, <2>2 DEF Idle
<1>6. ASSUME NEW v \in given
      PROVE  v \in Worker /\ Working(v, task[v])' /\ \A u : Has(v, u)' => u = task[v]
  <2>1. v \in Worker /\ v \in activatedWorker /\ status[v] = "running"
    BY <1>2 DEF IInv, PoolType, StatusInv
  <2>2. in_q[v] = <<>> /\ feedback'[v] = <<>>
    BY <1>4, <2>1 DEF Orders
  <2>3. in_q'[v] = <<task[v]>>
    <3>1. <<>> \o <<task[v]>> = <<task[v]>>
      BY ShortSequences
    <3>2. in_q'[v] = in_q[v] \o <<task[v]>>
      BY <1>1
    <3> QED
      BY <2>2, <3>1, <3>2
  <2>4. Working(v, task[v])'
    BY <2>1, <2>2, <2>3 DEF Working
  <2>5. ASSUME NEW u, Has(v, u)' PROVE u = task[v]
    <3>1. <<u>> # <<>>
      BY ShortSequences
    <3>2. in_q'[v] = <<u>>
      BY <2>1, <2>2, <2>5, <3>1 DEF Has, Working, Finished
    <3> QED
      BY <2>3, <3>2
  <2> QED
    BY <2>1, <2>4, <2>5
<1>7. WorkersInv'
  <2> SUFFICES ASSUME NEW v \in Worker PROVE Idle(v)' \/ \E t \in Task : Has(v, t)'
    BY DEF WorkersInv
  <2>1. CASE v \notin e.ready
    <3>1. Idle(v) \/ \E t \in Task : Has(v, t)
      BY DEF IInv, WorkersInv
    <3> QED
      BY <2>1, <3>1, <1>3
  <2>2. CASE v \in s.ready
    BY <2>2, <1>5
  <2>3. CASE v \in given
    BY <2>3, <1>1, <1>6 DEF Has
  <2> QED
    BY <2>1, <2>2, <2>3
<1>8. ASSUME NEW v \in Worker, NEW t \in Task, Has(v, t)'
      PROVE  \/ v \notin e.ready /\ v \notin done /\ Has(v, t)
             \/ v \in given /\ t = task[v]
  <2>1. v \notin s.ready
    BY <1>8 DEF Has, Working, Finished
  <2> QED
    BY <2>1, <1>3, <1>6, <1>8 DEF TakenBack
<1>9. UpdatesInv'
  <2> SUFFICES ASSUME NEW w \in Worker, NEW t \in Task, Has(w, t)', t.type = "WIN_UPDATE"
               PROVE  /\ isBusy'[t.win_id]
                      /\ \A v \in Worker : \A u \in Task :
                            Has(v, u)' /\ u.type = "WIN_UPDATE" /\ u.win_id = t.win_id
                            => v = w
    BY DEF UpdatesInv
  <2>1. t.win_id \in Window
    BY DEF Task
  <2>2. ASSUME NEW v \in Worker, NEW u \in Task, u.type = "WIN_UPDATE",
               v \notin done, Has(v, u)
        PROVE  e.busy[u.win_id]
    BY <2>2 DEF TakenBack
  <2>3. isBusy'[t.win_id]
    BY <1>1, <1>2, <1>8, <2>1, <2>2
  <2>4. ASSUME NEW v \in Worker, NEW u \in Task,
               Has(v, u)', u.type = "WIN_UPDATE", u.win_id = t.win_id
        PROVE  v = w
    <3>1. CASE Has(v, u) /\ v \notin done /\ Has(w, t) /\ w \notin done
      BY <3>1, <2>4 DEF IInv, UpdatesInv
    <3>2. CASE v \in given /\ u = task[v] /\ w \in given /\ t = task[w]
      BY <3>2, <2>4, <1>1
    <3>3. CASE Has(v, u) /\ v \notin done /\ w \in given /\ t = task[w]
      BY <3>3, <2>2, <2>4, <1>1
    <3>4. CASE v \in given /\ u = task[v] /\ Has(w, t) /\ w \notin done
      BY <3>4, <2>2, <2>4, <1>1
    <3> QED
      BY <3>1, <3>2, <3>3, <3>4, <2>4, <1>8
  <2> QED
    BY <2>3, <2>4
<1> QED
  BY <1>7, <1>9

\* The EOS goes to all the workers when each of them is ready.
LEMMA EndWorkers ==
    ASSUME IInv, ~wlqTerminated, NEW done, NEW e, TakenBack(done, e),
           NEW idle, NEW s, Dealt(e, s, idle), s.ready = Worker,
           \A w \in Worker \ activatedWorker : status[w] = "frozen",
           workerReady' = s.ready, wlqTerminated' = TRUE,
           in_q' = [w \in Worker |-> Append(s.q[w], EOS)],
           status' = [w \in Worker |-> "running"]
    PROVE  WorkersInv' /\ UpdatesInv'
<1>1. e.ready = Worker
  BY DEF Dealt, TakenBack, IInv, PoolType
<1>2. ASSUME NEW w \in Worker PROVE Idle(w)'
  <2>1. in_q[w] = Orders(w) /\ feedback'[w] = <<>>
    <3>1. CASE w \in done
      BY <3>1 DEF TakenBack, Finished
    <3>2. CASE w \notin done
      <4>1. w \in workerReady
        BY <3>2, <1>1 DEF TakenBack
      <4> QED
        BY <3>2, <4>1 DEF IInv, WorkersInv, Idle, Has, Working, Finished, TakenBack
    <3> QED
      BY <3>1, <3>2
  <2>2. Orders(w) = <<>>
    BY DEF IInv, StatusInv, PoolType, Orders
  <2>3. s.q[w] = in_q[w]
    BY <1>1 DEF Dealt
  <2>4. in_q'[w] = <<EOS>>
    <3>1. Append(<<>>, EOS) = <<EOS>>
      BY ShortSequences DEF Message
    <3> QED
      BY <2>1, <2>2, <2>3, <3>1
  <2> QED
    BY <2>1, <2>4 DEF Idle, Orders
<1>3. ASSUME NEW w \in Worker, NEW t \in Task PROVE ~Has(w, t)'
  BY DEF Has, Working, Finished
<1> QED
  BY <1>2, <1>3 DEF WorkersInv, UpdatesInv

\* The handlers of the emitter that may end the stage: the tasks of the
\* workers done were taken back, tasks were dealt, and termination is checked.
LEMMA TerminateIInv ==
    ASSUME IInv, ~wlqTerminated, NEW done, NEW e, TakenBack(done, e),
           NEW idle \in SUBSET activatedWorker, NEW s, Dealt(e, s, idle),
           Update(s), Terminate(s), last_w' = last_w,
           total' = total, toArrive' = toArrive,
           eos_received' \in 0..NUM_WORKER_THREADS,
           eos_received' = NUM_WORKER_THREADS => toArrive = {}
    PROVE  IInv'
<1>1. /\ isBusy' = s.busy /\ workerReady' = s.ready /\ open' = s.open
      /\ cnt_ins' = s.ins /\ cnt_tasks_com' = s.com /\ pendingQueue' = s.pending
      /\ n_pendingtasks' = s.npend /\ n_readyWorkers' = s.nready
  BY DEF Update
<1>2. s \in EmitterState /\ s.nready = Cardinality(s.ready)
  BY DEF Dealt
<1>3. feedback' \in [Worker -> Seq(Task)]
  BY EmptySeq DEF TakenBack, IInv, PoolType
<1>4. CASE CheckTermination(eos_received', s.npend, s.nready)
  <2>1. /\ \A w \in Worker \ activatedWorker : status[w] = "frozen"
        /\ activatedWorker' = Worker
        /\ status' = [w \in Worker |-> "running"]
        /\ wlqTerminated' = TRUE
        /\ in_q' = [w \in Worker |-> Append(s.q[w], EOS)]
        /\ eos_received' = NUM_WORKER_THREADS /\ s.nready = NUM_WORKER_THREADS
    BY <1>4 DEF Terminate, CheckTermination
  <2>2. s.ready = Worker
    <3>1. IsFiniteSet(Worker) /\ Cardinality(Worker) = NUM_WORKER_THREADS
      BY WLQAssumption, Below DEF Worker
    <3>2. s.ready \in SUBSET Worker
      BY <1>2 DEF EmitterState
    <3> QED
      BY <1>2, <2>1, <3>1, <3>2, FS_Subset
  <2>3. WorkersInv' /\ UpdatesInv'
    BY <1>1, <2>1, <2>2, EndWorkers
  <2>4. StatusInv'
    BY <1>1, <2>1, <2>2 DEF StatusInv
  <2>5. in_q' \in [Worker -> Seq(Message)]
    <3>1. EOS \in Message
      BY DEF Message
    <3>2. \A w \in Worker : s.q[w] \in Seq(Message)
      BY <1>2 DEF EmitterState
    <3> QED
      BY <2>1, <3>1, <3>2, AppendProperties
  <2>6. PoolType'
    BY <1>1, <1>2, <1>3, <2>1, <2>5 DEF PoolType, EmitterState, IInv
  <2> QED
    BY <2>3, <2>4, <2>6 DEF IInv
<1>5. CASE ~CheckTermination(eos_received', s.npend, s.nready)
  <2>1. in_q' = s.q /\ UNCHANGED <<activatedWorker, status, wlqTerminated>>
    BY <1>5 DEF Terminate
  <2>2. WorkersInv' /\ UpdatesInv'
    BY <1>1, <2>1, DealWorkers
  <2>3. StatusInv'
    BY <2>1 DEF IInv, StatusInv
  <2>4. PoolType'
    BY <1>1, <1>2, <1>3, <2>1 DEF PoolType, EmitterState, IInv
  <2> QED
    BY <2>2, <2>3, <2>4 DEF IInv
<1> QED
  BY <1>4, <1>5

\* When no task is dealt, the emitter is as it was.
LEMMA NothingDealt ==
    ASSUME NEW e \in EmitterState, e.nready = Cardinality(e.ready), e.q = in_q
    PROVE  Dealt(e, e, {})
<1> DEFINE none == [w \in {} |-> w]
<1>1. e.ready \ e.ready = {} /\ none \in [{} -> Task]
  OBVIOUS
<1> QED
  BY <1>1 DEF Dealt

\* The fields of the emitter.
LEMMA EmitterFields ==
    ASSUME IInv
    PROVE  /\ Emitter \in EmitterState
           /\ Emitter.nready = Cardinality(Emitter.ready)
           /\ Emitter.q = in_q /\ Emitter.busy = isBusy
           /\ Emitter.ready = workerReady
<1>1. n_readyWorkers \in Int
  <2>1. IsFiniteSet(workerReady)
    BY WorkerTurn DEF IInv, PoolType
  <2> QED
    BY <2>1, FS_CardinalityType DEF IInv, PoolType
<1> QED
  BY <1>1 DEF Emitter, EmitterState, IInv, PoolType

\* The EOS of a PLQ worker.
LEMMA EosNotifyIInv ==
    ASSUME IInv, EosNotify
    PROVE  IInv'
<1>1. /\ eos_received < NUM_WORKER_THREADS /\ eos_received' = eos_received + 1
      /\ eos_received = NUM_WORKER_THREADS - 1 => toArrive = {}
      /\ Terminate(Emitter)
      /\ UNCHANGED <<total, toArrive, descVars, n_pendingtasks, workerReady,
                     n_readyWorkers, last_w, feedback>>
  BY DEF EosNotify
<1>2. NUM_WORKER_THREADS \in Nat /\ eos_received \in Nat
  BY WLQAssumption DEF IInv, PoolType
<1>3. ~wlqTerminated
  BY <1>1, <1>2 DEF IInv, StatusInv
<1>4. TakenBack({}, Emitter)
  <2>1. feedback' = [w \in Worker |-> feedback[w]]
    BY <1>1 DEF IInv, PoolType
  <2> QED
    BY <2>1, EmitterFields DEF TakenBack, IInv, UpdatesInv
<1>5. Dealt(Emitter, Emitter, {})
  BY EmitterFields, NothingDealt
<1>6. Update(Emitter)
  BY <1>1 DEF Update, Emitter, descVars
<1>7. /\ eos_received' \in 0..NUM_WORKER_THREADS
      /\ eos_received' = NUM_WORKER_THREADS => toArrive = {}
  BY <1>1, <1>2
<1> QED
  BY <1>1, <1>3, <1>4, <1>5, <1>6, <1>7, TerminateIInv

\* The fields of the emitter after the task of worker w was completed.
LEMMA CompletedFields ==
    ASSUME IInv, NEW w \in Worker, NEW t \in Task, Finished(w, t)
    PROVE  /\ Completed(w, t) \in EmitterState
           /\ Completed(w, t).ready = workerReady \cup {w}
           /\ Completed(w, t).nready = Cardinality(workerReady \cup {w})
           /\ Completed(w, t).q = in_q
           /\ \A k \in Window : Completed(w, t).busy[k] <=>
                 isBusy[k] /\ ~(k = t.win_id /\ t.type = "WIN_UPDATE" /\ ~t.finalize)
<1> DEFINE updated == t.type = "WIN_UPDATE" /\ ~t.finalize
           merged  == t.type = "MERGE"
           k0 == t.win_id
           busy2 == [isBusy EXCEPT ![k0] = IF updated THEN FALSE ELSE @]
           com2 == [cnt_tasks_com EXCEPT ![k0] = IF updated \/ merged THEN @ + 1 ELSE @]
           pending2 == [pendingQueue EXCEPT ![k0] = IF merged THEN Append(@, t.p1) ELSE @]
           e == Completed(w, t)
<1>1. e = [Emitter EXCEPT !.busy = busy2, !.com = com2, !.pending = pending2,
                          !.ready = workerReady \cup {w},
                          !.nready = n_readyWorkers + 1]
  BY DEF Completed, Emitter
<1>2. k0 \in Window /\ t.p1 \in SUBSET Partition
  BY DEF Task
<1>3. pending2 \in [Window -> Seq(SUBSET Partition)]
  BY <1>2, AppendProperties DEF IInv, PoolType
<1>4. com2 \in [Window -> Int]
  BY <1>2 DEF IInv, PoolType
<1>5. /\ busy2 \in [Window -> BOOLEAN]
      /\ \A k \in Window : busy2[k] <=> isBusy[k] /\ ~(k = k0 /\ updated)
  BY <1>2 DEF IInv, PoolType
<1>6. n_readyWorkers + 1 = Cardinality(workerReady \cup {w}) /\ n_readyWorkers \in Nat
  <2>1. IsFiniteSet(workerReady) /\ w \notin workerReady
    BY WorkerTurn DEF IInv, PoolType, Finished
  <2>2. Cardinality(workerReady \cup {w}) = Cardinality(workerReady) + 1
    BY <2>1, FS_AddElement
  <2> QED
    BY <2>1, <2>2, FS_CardinalityType DEF IInv, PoolType
<1>7. workerReady \cup {w} \in SUBSET Worker
  BY DEF IInv, PoolType
<1> HIDE DEF busy2, com2, pending2, e
<1>8. e \in EmitterState
  <2>1. Emitter \in EmitterState
    BY EmitterFields
  <2>2. n_readyWorkers + 1 \in Int
    BY <1>6
  <2>3. busy2 \in [Window -> BOOLEAN]
    BY <1>5
  <2> QED
    BY <1>1, <1>3, <1>4, <1>7, <2>1, <2>2, <2>3 DEF EmitterState
<1>9. e.ready = workerReady \cup {w} /\ e.nready = n_readyWorkers + 1 /\ e.q = in_q
      /\ e.busy = busy2
  BY <1>1, EmitterFields DEF EmitterState
<1> QED
  BY <1>5, <1>6, <1>8, <1>9 DEF e

\* The feedback of a worker.
LEMMA RcvFeedbackIInv ==
    ASSUME IInv, NEW w \in Worker, RcvFeedback(w)
    PROVE  IInv'
<1>1. /\ feedback[w] # <<>>
      /\ feedback' = [feedback EXCEPT ![w] = Tail(@)]
      /\ UNCHANGED <<eos_received, total, toArrive, last_w>>
  BY DEF RcvFeedback
<1>2. PICK t \in Task : Finished(w, t)
  BY <1>1 DEF IInv, WorkersInv, Idle, Has, Working
<1>3. Head(feedback[w]) = t /\ Tail(feedback[w]) = <<>>
  BY <1>2, ShortSequences DEF Finished
<1>4. PICK e \in {Completed(w, t)} :
         \E s \in {IF CanServe(w) THEN Schedule(e, {w}) ELSE e} :
            Update(s) /\ Terminate(s)
  BY <1>3 DEF RcvFeedback
<1>5. PICK s \in {IF CanServe(w) THEN Schedule(e, {w}) ELSE e} :
         Update(s) /\ Terminate(s)
  BY <1>4
<1>6. /\ e \in EmitterState /\ e.ready = workerReady \cup {w}
      /\ e.nready = Cardinality(e.ready) /\ e.q = in_q
      /\ \A k \in Window : e.busy[k] <=>
            isBusy[k] /\ ~(k = t.win_id /\ t.type = "WIN_UPDATE" /\ ~t.finalize)
  BY <1>2, <1>4, CompletedFields
<1>7. TakenBack({w}, e)
  <2>1. w \notin workerReady
    BY <1>2 DEF Finished
  <2>2. ASSUME NEW v \in Worker \ {w}, NEW u \in Task, Has(v, u), u.type = "WIN_UPDATE"
        PROVE  e.busy[u.win_id]
    <3>1. isBusy[u.win_id] /\ u.win_id \in Window
      BY <2>2 DEF IInv, UpdatesInv, Task
    <3>2. t.type = "WIN_UPDATE" => t.win_id # u.win_id
      BY <1>2, <2>2 DEF IInv, UpdatesInv, Has
    <3> QED
      BY <1>6, <3>1, <3>2
  <2>3. feedback' = [v \in Worker |-> IF v \in {w} THEN <<>> ELSE feedback[v]]
    BY <1>1, <1>3 DEF IInv, PoolType
  <2> QED
    BY <1>2, <1>6, <2>1, <2>2, <2>3 DEF TakenBack
<1>8. ~wlqTerminated
  BY <1>2 DEF Finished
<1>9. /\ eos_received' \in 0..NUM_WORKER_THREADS
      /\ eos_received' = NUM_WORKER_THREADS => toArrive = {}
  BY <1>1 DEF IInv, PoolType, StatusInv
<1>10. in_q \in [Worker -> Seq(Message)] /\ last_w \in Worker
  BY DEF IInv, PoolType
<1>11. CASE CanServe(w)
  <2>1. s = Schedule(e, {w}) /\ {w} \in SUBSET activatedWorker /\ {w} \in SUBSET e.ready
    BY <1>5, <1>6, <1>11 DEF CanServe
  <2>2. Dealt(e, s, {w})
    BY <1>6, <1>10, <2>1, ScheduledTasks, Scheduling
  <2> QED
    BY <1>1, <1>5, <1>7, <1>8, <1>9, <2>1, <2>2, TerminateIInv
<1>12. CASE ~CanServe(w)
  <2>1. s = e /\ {} \in SUBSET activatedWorker
    BY <1>5, <1>12
  <2>2. Dealt(e, s, {})
    BY <1>6, <2>1, NothingDealt
  <2> QED
    BY <1>1, <1>5, <1>7, <1>8, <1>9, <2>1, <2>2, TerminateIInv
<1> QED
  BY <1>11, <1>12

\* The fields e of the emitter after the results set of x joined the queues.
Enqueued(e, x, inst) ==
    /\ x \in Partition /\ x[1] \in Pane
    /\ e \in EmitterState
    /\ e.ready = workerReady /\ e.nready = Cardinality(e.ready)
    /\ e.busy = isBusy /\ e.q = in_q /\ e.com = cnt_tasks_com
    /\ e.open = open \cup NewDescriptors(x[1])
    /\ e.npend = n_pendingtasks + Cardinality(WindowsOf(x[1]))
    /\ \A k \in Window :
          e.pending[k] = IF k \in WindowsOf(x[1]) THEN Append(pendingQueue[k], {x})
                         ELSE pendingQueue[k]
    /\ \A k \in Window : e.ins[k] =
          IF k \in WindowsOf(x[1]) /\ inst > 0
                /\ cnt_ins[k][x[1] - sp * k] = UNKNOWN
          THEN [cnt_ins[k] EXCEPT ![x[1] - sp * k] = inst]
          ELSE cnt_ins[k]

\* What enqueue changes of the state of the emitter.
LEMMA EnqueueFields ==
    ASSUME IInv, NEW x \in toArrive, NEW inst \in {0, total[x[1]]},
           NEW e, e = Enqueue(x, inst)
    PROVE  Enqueued(e, x, inst)
<1> DEFINE p == x[1]
           wins == WindowsOf(p)
           ins2 == [k \in Window |->
              IF k \in wins /\ inst > 0 /\ cnt_ins[k][p - sp * k] = UNKNOWN
              THEN [cnt_ins[k] EXCEPT ![p - sp * k] = inst]
              ELSE cnt_ins[k]]
           pending2 == [k \in Window |->
              IF k \in wins THEN Append(pendingQueue[k], {x}) ELSE pendingQueue[k]]
<1>1. x \in Partition /\ p \in Pane /\ inst \in Int
  BY DEF IInv, PoolType, Partition
<1>2. Cardinality(wins) \in Int
  <2>1. p \in Int /\ sp \in Nat \ {0} /\ wp \in Int
    BY <1>1, WLQAssumption DEF Pane
  <2>2. FirstWin(p) \in Int /\ LastWin(p) \in Int
    BY <2>1 DEF FirstWin, LastWin
  <2>3. IsFiniteSet(wins)
    BY <2>2, FS_Interval DEF WindowsOf
  <2> QED
    BY <2>3, FS_CardinalityType
<1>3. ins2 \in [Window -> [LocalPane -> Int]]
  BY <1>1 DEF IInv, PoolType
<1>4. pending2 \in [Window -> Seq(SUBSET Partition)]
  BY <1>1, AppendProperties DEF IInv, PoolType
<1>5. e = [Emitter EXCEPT !.open = open \cup NewDescriptors(p), !.ins = ins2,
                          !.pending = pending2,
                          !.npend = n_pendingtasks + Cardinality(wins)]
  BY DEF Enqueue
<1>6. /\ \A k \in Window : pending2[k] = IF k \in wins THEN Append(pendingQueue[k], {x})
                                         ELSE pendingQueue[k]
      /\ \A k \in Window : ins2[k] =
            IF k \in wins /\ inst > 0 /\ cnt_ins[k][p - sp * k] = UNKNOWN
            THEN [cnt_ins[k] EXCEPT ![p - sp * k] = inst]
            ELSE cnt_ins[k]
  OBVIOUS
<1>7. open \cup NewDescriptors(p) \in SUBSET Window
  BY DEF NewDescriptors, IInv, PoolType
<1>8. n_pendingtasks + Cardinality(wins) \in Int
  BY <1>2 DEF IInv, PoolType
<1>9. Emitter.com = cnt_tasks_com
  BY DEF Emitter
<1> HIDE DEF ins2, pending2, wins
<1>10. e \in EmitterState
  BY <1>3, <1>4, <1>5, <1>7, <1>8, EmitterFields DEF EmitterState
<1>11. /\ e.ready = workerReady /\ e.nready = Cardinality(e.ready)
       /\ e.busy = isBusy /\ e.q = in_q /\ e.com = cnt_tasks_com
       /\ e.open = open \cup NewDescriptors(p) /\ e.ins = ins2 /\ e.pending = pending2
       /\ e.npend = n_pendingtasks + Cardinality(wins)
  BY <1>5, <1>9, EmitterFields DEF EmitterState
<1> QED
  BY <1>1, <1>6, <1>10, <1>11 DEF wins, Enqueued

\* A results set arrives.
LEMMA RcvResultsSetIInv ==
    ASSUME IInv, NEW x \in toArrive, NEW inst \in {0, total[x[1]]},
           RcvResultsSet(x, inst)
    PROVE  IInv'
<1> DEFINE idle == activatedWorker \cap workerReady
<1>1. /\ toArrive' = toArrive \ {x}
      /\ UNCHANGED <<total, eos_received, activatedWorker, wlqTerminated, status,
                     feedback>>
  BY DEF RcvResultsSet
<1>2. PICK s \in {Schedule(Enqueue(x, inst), idle)} :
         Update(s) /\ in_q' = s.q /\ last_w' = s.last
  BY DEF RcvResultsSet
<1>4. ~wlqTerminated
  BY DEF IInv, StatusInv
<1>11. PICK e : e = Enqueue(x, inst)
  OBVIOUS
<1>13. /\ e \in EmitterState /\ e.ready = workerReady /\ e.nready = Cardinality(e.ready)
       /\ e.busy = isBusy /\ e.q = in_q
  BY <1>11, EnqueueFields DEF Enqueued
<1>14. TakenBack({}, e)
  <2>1. feedback' = [w \in Worker |-> feedback[w]]
    BY <1>1 DEF IInv, PoolType
  <2> QED
    BY <1>13, <2>1 DEF TakenBack, IInv, UpdatesInv
<1>15. Dealt(e, s, idle)
  <2>1. in_q \in [Worker -> Seq(Message)] /\ last_w \in Worker
    BY DEF IInv, PoolType
  <2>2. idle \in SUBSET e.ready
    BY <1>13
  <2> QED
    BY <1>2, <1>11, <1>13, <2>1, <2>2, ScheduledTasks, Scheduling
<1>16. /\ isBusy' = s.busy /\ workerReady' = s.ready /\ open' = s.open
       /\ cnt_ins' = s.ins /\ cnt_tasks_com' = s.com /\ pendingQueue' = s.pending
       /\ n_pendingtasks' = s.npend /\ n_readyWorkers' = s.nready
  BY <1>2 DEF Update
<1>17. WorkersInv' /\ UpdatesInv'
  BY <1>1, <1>2, <1>4, <1>14, <1>15, <1>16, DealWorkers
<1>18. StatusInv'
  BY <1>1, <1>4 DEF IInv, StatusInv
<1>19. PoolType'
  <2>1. s \in EmitterState /\ s.nready = Cardinality(s.ready)
    BY <1>15 DEF Dealt
  <2> QED
    BY <1>1, <1>2, <1>16, <2>1 DEF PoolType, EmitterState, IInv
<1> QED
  BY <1>17, <1>18, <1>19 DEF IInv

-----------------------------------------------------------------------------
(* The theorems                                                            *)

\* No step of the emitter, of a worker, of the controller or of the collector
\* breaks the invariant.
LEMMA NextIInv == IInv /\ [Next]_vars => IInv'
<1> SUFFICES ASSUME IInv, [Next]_vars PROVE IInv'
  OBVIOUS
<1>1. CASE \E x \in toArrive : \E inst \in {0, total[x[1]]} : RcvResultsSet(x, inst)
  BY <1>1, RcvResultsSetIInv
<1>2. CASE EosNotify
  BY <1>2, EosNotifyIInv
<1>3. CASE \E w \in Worker : RcvFeedback(w)
  BY <1>3, RcvFeedbackIInv
<1>4. CASE \E W \in SUBSET Worker : AddWorkers(W)
  BY <1>4, AddWorkersIInv
<1>5. CASE \E W \in SUBSET Worker : RemoveWorkers(W)
  BY <1>5, RemoveWorkersIInv
<1>6. CASE \E w \in Worker : Execute(w)
  BY <1>6, ExecuteIInv
<1>7. CASE \E w \in Worker : Leave(w)
  BY <1>7, LeaveIInv
<1>8. CASE \E w \in Worker : CollectFrom(w)
  BY <1>8, NoChange DEF CollectFrom
<1>9. CASE UNCHANGED vars
  BY <1>9, NoChange DEF vars, workVars
<1> QED
  BY <1>1, <1>2, <1>3, <1>4, <1>5, <1>6, <1>7, <1>8, <1>9
     DEF Next, EmitterStep, Reconfigure, WorkerStep, Done

\* The inductive invariant holds for ever.
LEMMA AlwaysIInv == Spec => []IInv
<1>1. Init => IInv
  BY InitIInv
<1>2. IInv /\ [Next]_vars => IInv'
  BY NextIInv
<1> QED
  BY <1>1, <1>2, PTL DEF Spec

\* A task in the queue of a worker is the first message, and its only task.
LEMMA TaskIsFirst ==
    ASSUME IInv, NEW w \in Worker, NEW i \in 1..Len(in_q[w]), IsTask(in_q[w][i])
    PROVE  i = 1 /\ in_q[w][1] \in Task /\ Working(w, in_q[w][1])
<1>1. GO_OUT.type = "GO_OUT" /\ EOS.type = "EOS"
  BY DEF GO_OUT, EOS
<1>2. in_q[w] # Orders(w)
  BY <1>1 DEF Orders, IsTask
<1>3. PICK t \in Task : Working(w, t)
  BY <1>2 DEF IInv, WorkersInv, Idle, Has, Finished
<1>4. in_q[w] \in {<<t>>, <<t, GO_OUT>>}
  BY <1>3 DEF Working
<1>5. in_q[w][1] = t /\ Len(in_q[w]) \in {1, 2} /\ (Len(in_q[w]) = 2 => in_q[w][2] = GO_OUT)
  BY <1>4
<1>6. i = 1
  BY <1>1, <1>5 DEF IsTask
<1> QED
  BY <1>3, <1>5, <1>6

\* The invariant implies FrozenHasNoTask.
LEMMA IInvFrozen == IInv => FrozenHasNoTask
<1> SUFFICES ASSUME IInv, NEW w \in Worker
             PROVE  /\ status[w] # "running" => in_q[w] = <<>>
                    /\ \A i, j \in 1..Len(in_q[w]) :
                          in_q[w][i] = GO_OUT /\ IsTask(in_q[w][j]) => j < i
  BY DEF FrozenHasNoTask
<1>1. status[w] # "running" => in_q[w] = <<>>
  BY DEF IInv, WorkersInv, Idle, Has, Working, Finished, Orders
<1>2. ASSUME NEW i \in 1..Len(in_q[w]), NEW j \in 1..Len(in_q[w]),
             in_q[w][i] = GO_OUT, IsTask(in_q[w][j])
      PROVE  j < i
  <2>1. j = 1
    BY <1>2, TaskIsFirst
  <2>2. ~IsTask(in_q[w][i])
    BY <1>2 DEF IsTask, GO_OUT
  <2>3. i # 1
    BY <1>2, <2>1, <2>2
  <2>4. i \in Nat /\ i >= 1
    OBVIOUS
  <2> QED
    BY <2>1, <2>3, <2>4
<1> QED
  BY <1>1, <1>2

\* The invariant implies ReadyWorkers.
LEMMA IInvReady == IInv => ReadyWorkers
<1> SUFFICES ASSUME IInv, NEW w \in Worker
             PROVE  Cardinality({i \in 1..Len(in_q[w]) : IsTask(in_q[w][i])})
                      + Len(feedback[w])
                      = IF w \in workerReady THEN 0 ELSE 1
  BY DEF ReadyWorkers, IInv, PoolType
<1> DEFINE places == {i \in 1..Len(in_q[w]) : IsTask(in_q[w][i])}
<1>1. CASE Idle(w) \/ \E t \in Task : Finished(w, t)
  <2>1. \A t : ~Working(w, t)
    <3>1. \A u : <<u>> # <<>>
      BY ShortSequences
    <3>2. \A u : Finished(w, u) => in_q[w] = Orders(w)
      BY DEF Finished
    <3> QED
      BY <1>1, <3>1 DEF Idle, Finished, Working
  <2>2. places = {}
    BY <2>1, TaskIsFirst
  <2>3. Cardinality(places) = 0
    BY <2>2, FS_EmptySet
  <2>4. CASE Idle(w)
    <3>1. Len(feedback[w]) = 0 /\ w \in workerReady
      BY <2>4, EmptySeq DEF Idle
    <3> QED
      BY <2>3, <3>1
  <2>5. CASE \E t \in Task : Finished(w, t)
    <3>1. Len(feedback[w]) = 1 /\ w \notin workerReady
      BY <2>5 DEF Finished
    <3> QED
      BY <2>3, <3>1
  <2> QED
    BY <1>1, <2>4, <2>5
<1>2. CASE \E t \in Task : Working(w, t)
  <2>1. PICK t \in Task : Working(w, t)
    BY <1>2
  <2>2. Len(in_q[w]) \in {1, 2} /\ in_q[w][1] = t
    BY <2>1 DEF Working
  <2>3. 1 \in places
    BY <2>2 DEF IsTask, Task
  <2>4. places = {1}
    BY <2>3, TaskIsFirst
  <2>5. Cardinality(places) = 1
    BY <2>4, FS_Singleton
  <2>6. Len(feedback[w]) = 0 /\ w \notin workerReady
    BY <2>1, EmptySeq DEF Working
  <2> QED
    BY <2>5, <2>6
<1> QED
  BY <1>1, <1>2 DEF IInv, WorkersInv, Has

\* The invariant implies ExclusiveUpdate.
LEMMA IInvExclusive == IInv => ExclusiveUpdate
<1> SUFFICES ASSUME IInv, NEW v \in Worker, NEW w \in Worker,
                    NEW s \in ToSet(in_q[v]), NEW t \in ToSet(in_q[w]),
                    s.type = "WIN_UPDATE", t.type = "WIN_UPDATE",
                    s.win_id = t.win_id
             PROVE  v = w
  BY DEF ExclusiveUpdate
<1>1. ASSUME NEW u \in Worker, NEW m \in ToSet(in_q[u]), m.type = "WIN_UPDATE"
      PROVE  m \in Task /\ Has(u, m)
  <2>1. PICK i \in DOMAIN in_q[u] : m = in_q[u][i]
    BY DEF ToSet
  <2>2. i \in 1..Len(in_q[u])
    BY <2>1 DEF IInv, PoolType
  <2>3. IsTask(in_q[u][i])
    BY <1>1, <2>1 DEF IsTask
  <2> QED
    BY <2>1, <2>2, <2>3, TaskIsFirst DEF Has
<1> QED
  BY <1>1 DEF IInv, UpdatesInv

\* A task is never queued behind a GO_OUT, whatever the reconfigurations: no
\* worker of any pool freezes with a task (WLQ_Emitter::removeWorkers).
THEOREM TasksPrecedeGoOut == Spec => []FrozenHasNoTask
BY AlwaysIInv, IInvFrozen, PTL

\* workerReady and n_readyWorkers, which checkTermination reads, count exactly
\* the workers that have no task (WLQ_Emitter::sendTaskToWorker, svc).
THEOREM ReadyIsIdle == Spec => []ReadyWorkers
BY AlwaysIInv, IInvReady, PTL

\* isBusy keeps two workers from updating the same window at the same time,
\* although WLQ_Worker::svc takes no lock.
THEOREM UpdatesAreExclusive == Spec => []ExclusiveUpdate
BY AlwaysIInv, IInvExclusive, PTL

-----------------------------------------------------------------------------
(* The windows                                                             *)

\* The tasks in the channels in and back of the workers, each with its worker.
TasksIn(in, back) ==
    {a \in Worker \X Task : a[2] \in ToSet(in[a[1]]) \cup ToSet(back[a[1]])}
Tasks == TasksIn(in_q, feedback)

\* Of some tasks H, those of window k, the merges and the partitions they hold.
Of(H, k)  == {a \in H : a[2].win_id = k}
Merges(H) == {a \in H : a[2].type = "MERGE"}
Carried(a) == a[2].p1 \cup a[2].p2
Parts(H)  == UNION {Carried(a) : a \in H}

\* The partitions of window k, those that came when those of later still have
\* to, and whether all the panes of the window come.
All(k) == {x \in Partition : x[2] <= total[x[1]] /\ k \in WindowsOf(x[1])}
Came(k, later) == {x \in All(k) : x \notin later}
Complete(k) == sp * k + wp - 1 <= MaxPane

\* The partitions of came are each in one place: the results set res of the
\* window, a results set of its queue or one of its tasks H.
Accounted(came, res, queue, H) ==
    /\ came = res \cup (UNION ToSet(queue)) \cup Parts(H)
    /\ Separate(queue)
    /\ res \cap (UNION ToSet(queue)) = {}
    /\ \A a \in H :
          /\ a[2].p1 \cap a[2].p2 = {}
          /\ Carried(a) \cap (res \cup (UNION ToSet(queue))) = {}
          /\ \A b \in H : a # b => Carried(a) \cap Carried(b) = {}

-----------------------------------------------------------------------------
(* The steps of the account of one window                                  *)

\* The partitions that tasks carry, when one more set of tasks is added.
LEMMA PartsAdd ==
    ASSUME NEW H, NEW a
    PROVE  Parts(H \cup {a}) = Parts(H) \cup Carried(a)
BY DEF Parts

\* A partition arrives in the queue.
LEMMA AccountArrive ==
    ASSUME NEW came, NEW res, NEW q \in Seq(SUBSET Partition), NEW H,
           Accounted(came, res, q, H), NEW x \in Partition, x \notin came
    PROVE  Accounted(came \cup {x}, res, Append(q, {x}), H)
<1> DEFINE U == UNION ToSet(q)
           V == UNION ToSet(Append(q, {x}))
<1>1. V = U \cup {x}
  BY AppendToSet
<1>2. x \notin res /\ x \notin U /\ x \notin Parts(H)
  BY DEF Accounted
<1>3. Separate(Append(q, {x}))
  BY <1>2, SeparateAppend DEF Accounted
<1>4. \A a \in H : x \notin Carried(a)
  BY <1>2 DEF Parts
<1> HIDE DEF U, V
<1>5. /\ came = res \cup U \cup Parts(H) /\ res \cap U = {}
      /\ \A a \in H : /\ a[2].p1 \cap a[2].p2 = {}
                      /\ Carried(a) \cap (res \cup U) = {}
                      /\ \A b \in H : a # b => Carried(a) \cap Carried(b) = {}
  BY DEF Accounted, U
<1>6. came \cup {x} = res \cup V \cup Parts(H) /\ res \cap V = {}
  BY <1>1, <1>2, <1>5
<1>7. \A a \in H : Carried(a) \cap (res \cup V) = {}
  BY <1>1, <1>4, <1>5
<1> QED
  BY <1>3, <1>5, <1>6, <1>7 DEF Accounted, V

\* The last results set of the queue is given to a worker with an update.
LEMMA AccountGive ==
    ASSUME NEW came, NEW res, NEW q \in Seq(SUBSET Partition), q # <<>>, NEW H,
           Accounted(came, res, q, H),
           NEW a, a \notin H, a[2].p1 = {}, a[2].p2 = Last(q)
    PROVE  Accounted(came, res, Front(q), H \cup {a})
<1> DEFINE f == Front(q)
           r == Last(q)
           U == UNION ToSet(q)
           V == UNION ToSet(f)
<1>1. Separate(q)
  BY DEF Accounted
<1>2. U = V \cup r
  BY <1>1, SeparateLast
<1>3. Separate(f) /\ r \cap V = {}
  BY <1>1, SeparateLast
<1>4. Carried(a) = r /\ a[2].p1 \cap a[2].p2 = {}
  BY DEF Carried
<1> HIDE DEF U, V, f, r
<1>5. /\ came = res \cup U \cup Parts(H) /\ res \cap U = {}
      /\ \A b \in H : /\ b[2].p1 \cap b[2].p2 = {}
                      /\ Carried(b) \cap (res \cup U) = {}
                      /\ \A c \in H : b # c => Carried(b) \cap Carried(c) = {}
  BY DEF Accounted, U
<1>6. came = res \cup V \cup Parts(H \cup {a}) /\ res \cap V = {}
  BY <1>2, <1>4, <1>5, PartsAdd
<1>7. \A b \in H : Carried(b) \cap (res \cup V) = {} /\ Carried(b) \cap Carried(a) = {}
  BY <1>2, <1>4, <1>5
<1>8. Carried(a) \cap (res \cup V) = {}
  BY <1>2, <1>3, <1>4, <1>5
<1>9. \A b \in H \cup {a} :
         /\ b[2].p1 \cap b[2].p2 = {}
         /\ Carried(b) \cap (res \cup V) = {}
         /\ \A c \in H \cup {a} : b # c => Carried(b) \cap Carried(c) = {}
  BY <1>4, <1>5, <1>7, <1>8
<1>10. Accounted(came, res, f, H \cup {a})
  BY <1>3, <1>6, <1>9 DEF Accounted, V
<1> QED
  BY <1>10 DEF f

\* The last two results sets of the queue are given to a worker with a merge.
LEMMA AccountMerge ==
    ASSUME NEW came, NEW res, NEW q \in Seq(SUBSET Partition), Len(q) > 1, NEW H,
           Accounted(came, res, q, H),
           NEW a, a \notin H, a[2].p1 = Last(q), a[2].p2 = Last(Front(q))
    PROVE  /\ Accounted(came, res, Front(Front(q)), H \cup {a})
           /\ Front(Front(q)) \in Seq(SUBSET Partition)
           /\ Len(q) = Len(Front(Front(q))) + 2
           /\ a[2].p1 # {} /\ a[2].p2 # {}
<1> DEFINE f == Front(q)
           g == Front(f)
           r1 == Last(q)
           r2 == Last(f)
           U == UNION ToSet(q)
           V == UNION ToSet(g)
<1>1. Separate(q) /\ q # <<>>
  BY EmptySeq DEF Accounted
<1>2. /\ f \in Seq(SUBSET Partition) /\ Separate(f) /\ Len(q) = Len(f) + 1
      /\ r1 # {} /\ r1 \cap (UNION ToSet(f)) = {} /\ U = (UNION ToSet(f)) \cup r1
  BY <1>1, SeparateLast
<1> HIDE DEF f
<1>3. f # <<>> /\ Len(f) \in Nat
  BY <1>2, EmptySeq, LenProperties
<1>4. /\ g \in Seq(SUBSET Partition) /\ Separate(g) /\ Len(f) = Len(g) + 1
      /\ r2 # {} /\ r2 \cap V = {} /\ UNION ToSet(f) = V \cup r2
  BY <1>2, <1>3, SeparateLast
<1>5. Len(g) \in Nat
  BY <1>4, LenProperties
<1>6. a[2].p1 = r1 /\ a[2].p2 = r2
  BY DEF f
<1> HIDE DEF U, V, r1, r2, g
<1>7. Carried(a) = r1 \cup r2 /\ a[2].p1 \cap a[2].p2 = {}
  BY <1>2, <1>4, <1>6 DEF Carried
<1>8. Len(q) = Len(g) + 2 /\ a[2].p1 # {} /\ a[2].p2 # {}
  BY <1>2, <1>4, <1>5, <1>6
<1>10. /\ came = res \cup U \cup Parts(H) /\ res \cap U = {}
       /\ \A b \in H : /\ b[2].p1 \cap b[2].p2 = {}
                       /\ Carried(b) \cap (res \cup U) = {}
                       /\ \A c \in H : b # c => Carried(b) \cap Carried(c) = {}
  BY DEF Accounted, U
<1>11. U = V \cup Carried(a) /\ Carried(a) \cap V = {}
  BY <1>2, <1>4, <1>7
<1>12. came = res \cup V \cup Parts(H \cup {a}) /\ res \cap V = {}
  BY <1>10, <1>11, PartsAdd
<1>13. \A b \in H : Carried(b) \cap (res \cup V) = {} /\ Carried(b) \cap Carried(a) = {}
  BY <1>10, <1>11
<1>14. Carried(a) \cap (res \cup V) = {}
  BY <1>10, <1>11
<1>15. \A b \in H \cup {a} :
         /\ b[2].p1 \cap b[2].p2 = {}
         /\ Carried(b) \cap (res \cup V) = {}
         /\ \A c \in H \cup {a} : b # c => Carried(b) \cap Carried(c) = {}
  BY <1>7, <1>10, <1>13, <1>14
<1>16. Accounted(came, res, g, H \cup {a})
  BY <1>4, <1>12, <1>15 DEF Accounted, V
<1> QED
  BY <1>4, <1>8, <1>16 DEF f, g

\* A worker merges the results set of its task into the window.
LEMMA AccountUpdate ==
    ASSUME NEW came, NEW res, NEW q, NEW H, Accounted(came, res, q, H),
           NEW a \in H, a[2].p1 = {},
           NEW b, b[2].p1 = {}, b[2].p2 = {}
    PROVE  Accounted(came, res \cup a[2].p2, q, (H \ {a}) \cup {b})
<1> DEFINE U == UNION ToSet(q)
           G == H \ {a}
<1>1. /\ came = res \cup U \cup Parts(H) /\ res \cap U = {} /\ Separate(q)
      /\ \A c \in H : /\ c[2].p1 \cap c[2].p2 = {}
                      /\ Carried(c) \cap (res \cup U) = {}
                      /\ \A d \in H : c # d => Carried(c) \cap Carried(d) = {}
  BY DEF Accounted
<1>2. Carried(a) = a[2].p2 /\ Carried(b) = {} /\ b[2].p1 \cap b[2].p2 = {}
  BY DEF Carried
<1>3. Parts(H) = Parts(G) \cup Carried(a) /\ Parts(G \cup {b}) = Parts(G) \cup Carried(b)
  <2>1. H = G \cup {a}
    OBVIOUS
  <2> HIDE DEF G
  <2> QED
    BY <2>1, PartsAdd
<1>4. \A c \in G : c \in H /\ c # a
  OBVIOUS
<1> HIDE DEF U, G
<1>5. came = res \cup a[2].p2 \cup U \cup Parts(G \cup {b})
  BY <1>1, <1>2, <1>3
<1>6. (res \cup a[2].p2) \cap U = {}
  BY <1>1, <1>2
<1>7. \A c \in G : /\ c[2].p1 \cap c[2].p2 = {}
                   /\ Carried(c) \cap (res \cup a[2].p2 \cup U) = {}
                   /\ \A d \in G : c # d => Carried(c) \cap Carried(d) = {}
  <2> SUFFICES ASSUME NEW c \in G
               PROVE  Carried(c) \cap (res \cup a[2].p2 \cup U) = {}
    BY <1>1, <1>4
  <2>1. Carried(c) \cap Carried(a) = {} /\ Carried(c) \cap (res \cup U) = {}
    BY <1>1, <1>4
  <2> QED
    BY <2>1, <1>2
<1>8. \A c \in G \cup {b} :
         /\ c[2].p1 \cap c[2].p2 = {}
         /\ Carried(c) \cap (res \cup a[2].p2 \cup U) = {}
         /\ \A d \in G \cup {b} : c # d => Carried(c) \cap Carried(d) = {}
  BY <1>2, <1>7
<1> QED
  BY <1>1, <1>5, <1>6, <1>8 DEF Accounted, U, G

\* A task goes on with the same partitions: they were joined.
LEMMA AccountJoin ==
    ASSUME NEW came, NEW res, NEW q, NEW H, Accounted(came, res, q, H),
           NEW a \in H, NEW b, Carried(b) = Carried(a), b[2].p1 \cap b[2].p2 = {}
    PROVE  Accounted(came, res, q, (H \ {a}) \cup {b})
<1> DEFINE U == UNION ToSet(q)
           G == H \ {a}
<1>1. /\ came = res \cup U \cup Parts(H) /\ res \cap U = {} /\ Separate(q)
      /\ \A c \in H : /\ c[2].p1 \cap c[2].p2 = {}
                      /\ Carried(c) \cap (res \cup U) = {}
                      /\ \A d \in H : c # d => Carried(c) \cap Carried(d) = {}
  BY DEF Accounted
<1>2. Parts(H) = Parts(G) \cup Carried(a) /\ Parts(G \cup {b}) = Parts(G) \cup Carried(b)
  <2>1. H = G \cup {a}
    OBVIOUS
  <2> HIDE DEF G
  <2> QED
    BY <2>1, PartsAdd
<1>3. \A c \in G : c \in H /\ c # a
  OBVIOUS
<1> HIDE DEF U, G
<1>4. came = res \cup U \cup Parts(G \cup {b})
  BY <1>1, <1>2
<1>5. Carried(b) \cap (res \cup U) = {}
  BY <1>1
<1>6. \A c \in G : Carried(c) \cap Carried(b) = {} /\ Carried(b) \cap Carried(c) = {}
  BY <1>1, <1>3
<1>7. \A c \in G \cup {b} :
         /\ c[2].p1 \cap c[2].p2 = {}
         /\ Carried(c) \cap (res \cup U) = {}
         /\ \A d \in G \cup {b} : c # d => Carried(c) \cap Carried(d) = {}
  BY <1>1, <1>3, <1>5, <1>6
<1> QED
  BY <1>1, <1>4, <1>7 DEF Accounted, U, G

\* The emitter takes back a task that holds nothing.
LEMMA AccountDone ==
    ASSUME NEW came, NEW res, NEW q, NEW H, Accounted(came, res, q, H),
           NEW a \in H, Carried(a) = {}
    PROVE  Accounted(came, res, q, H \ {a})
<1> DEFINE G == H \ {a}
<1>1. H = G \cup {a}
  OBVIOUS
<1>2. Parts(H) = Parts(G)
  <2> HIDE DEF G
  <2> QED
    BY <1>1, PartsAdd
<1> QED
  BY <1>2 DEF Accounted

\* The emitter takes back a merged results set: it joins the queue.
LEMMA AccountReturn ==
    ASSUME NEW came, NEW res, NEW q \in Seq(SUBSET Partition), NEW H,
           Accounted(came, res, q, H), NEW a \in H,
           a[2].p1 \in SUBSET Partition, a[2].p1 # {}, a[2].p2 = {}
    PROVE  Accounted(came, res, Append(q, a[2].p1), H \ {a})
<1> DEFINE r == a[2].p1
           U == UNION ToSet(q)
           V == UNION ToSet(Append(q, r))
           G == H \ {a}
<1>1. /\ came = res \cup U \cup Parts(H) /\ res \cap U = {} /\ Separate(q)
      /\ \A c \in H : /\ c[2].p1 \cap c[2].p2 = {}
                      /\ Carried(c) \cap (res \cup U) = {}
                      /\ \A d \in H : c # d => Carried(c) \cap Carried(d) = {}
  BY DEF Accounted
<1>2. Carried(a) = r
  BY DEF Carried
<1>3. Parts(H) = Parts(G) \cup Carried(a)
  <2>1. H = G \cup {a}
    OBVIOUS
  <2> HIDE DEF G
  <2> QED
    BY <2>1, PartsAdd
<1>4. V = U \cup r
  BY AppendToSet
<1>5. r \cap U = {} /\ r \cap res = {}
  BY <1>1, <1>2
<1>6. Separate(Append(q, r))
  BY <1>1, <1>5, SeparateAppend
<1>7. \A c \in G : c \in H /\ c # a
  OBVIOUS
<1> HIDE DEF U, V, G, r
<1>8. came = res \cup V \cup Parts(G) /\ res \cap V = {}
  BY <1>1, <1>2, <1>3, <1>4, <1>5
<1>9. \A c \in G : /\ c[2].p1 \cap c[2].p2 = {}
                   /\ Carried(c) \cap (res \cup V) = {}
                   /\ \A d \in G : c # d => Carried(c) \cap Carried(d) = {}
  <2> SUFFICES ASSUME NEW c \in G PROVE Carried(c) \cap (res \cup V) = {}
    BY <1>1, <1>7
  <2>1. Carried(c) \cap r = {} /\ Carried(c) \cap (res \cup U) = {}
    BY <1>1, <1>2, <1>7
  <2> QED
    BY <2>1, <1>4
<1>10. Accounted(came, res, Append(q, r), G)
  BY <1>6, <1>8, <1>9 DEF Accounted, V
<1> QED
  BY <1>10 DEF r, G

\* One more task, and one less.
LEMMA TaskAdd ==
    ASSUME NEW H, IsFiniteSet(H), NEW a, a \notin H
    PROVE  /\ IsFiniteSet(H \cup {a}) /\ IsFiniteSet(Merges(H))
           /\ Cardinality(H) \in Nat /\ Cardinality(Merges(H)) \in Nat
           /\ Cardinality(H \cup {a}) = Cardinality(H) + 1
           /\ Cardinality(Merges(H \cup {a})) =
                IF a[2].type = "MERGE" THEN Cardinality(Merges(H)) + 1
                ELSE Cardinality(Merges(H))
           /\ \A k : Of(H \cup {a}, k) =
                       IF a[2].win_id = k THEN Of(H, k) \cup {a} ELSE Of(H, k)
<1>1. IsFiniteSet(Merges(H)) /\ a \notin Merges(H)
  BY FS_Subset DEF Merges
<1>2. Merges(H \cup {a}) =
         IF a[2].type = "MERGE" THEN Merges(H) \cup {a} ELSE Merges(H)
  BY DEF Merges
<1>3. \A k : Of(H \cup {a}, k) =
                IF a[2].win_id = k THEN Of(H, k) \cup {a} ELSE Of(H, k)
  BY DEF Of
<1> QED
  BY <1>1, <1>2, <1>3, FS_AddElement, FS_CardinalityType

\* A task leaves the set of tasks.
LEMMA TaskRemove ==
    ASSUME NEW H, IsFiniteSet(H), NEW a \in H
    PROVE  /\ IsFiniteSet(H \ {a}) /\ IsFiniteSet(Merges(H))
           /\ Cardinality(H) \in Nat /\ Cardinality(Merges(H)) \in Nat
           /\ Cardinality(H \ {a}) = Cardinality(H) - 1
           /\ Cardinality(Merges(H \ {a})) =
                IF a[2].type = "MERGE" THEN Cardinality(Merges(H)) - 1
                ELSE Cardinality(Merges(H))
           /\ \A k : Of(H \ {a}, k) =
                       IF a[2].win_id = k THEN Of(H, k) \ {a} ELSE Of(H, k)
<1>1. IsFiniteSet(Merges(H))
  BY FS_Subset DEF Merges
<1>2. Merges(H \ {a}) = IF a[2].type = "MERGE" THEN Merges(H) \ {a} ELSE Merges(H)
  BY DEF Merges
<1>3. a[2].type = "MERGE" => a \in Merges(H)
  BY DEF Merges
<1>4. \A k : Of(H \ {a}, k) = IF a[2].win_id = k THEN Of(H, k) \ {a} ELSE Of(H, k)
  BY DEF Of
<1> QED
  BY <1>1, <1>2, <1>3, <1>4, FS_RemoveElement, FS_CardinalityType

-----------------------------------------------------------------------------
(* Panes and windows                                                       *)

\* The quotient is the largest number whose multiple is not larger.
LEMMA Floor ==
    ASSUME NEW a \in Nat, NEW b \in Nat \ {0}, NEW k \in Nat
    PROVE  /\ a \div b \in Nat
           /\ k <= a \div b <=> b * k <= a
<1> DEFINE q == a \div b
           r == a % b
<1>1. q \in Nat /\ r \in Nat /\ r < b /\ a = b * q + r
  OBVIOUS
<1> HIDE DEF q, r
<1>2. ASSUME k <= q PROVE b * k <= a
  <2>1. PICK d \in Nat : q = k + d
    <3>1. q - k \in Nat /\ q = k + (q - k)
      BY <1>1, <1>2
    <3> QED
      BY <3>1
  <2>2. b * q = b * k + b * d /\ b * k \in Nat /\ b * d \in Nat /\ b * q \in Nat
    BY <2>1
  <2> QED
    BY <1>1, <2>2
<1>3. ASSUME k > q PROVE b * k > a
  <2>1. PICK d \in Nat : k = q + 1 + d
    <3>1. k - q - 1 \in Nat /\ k = q + 1 + (k - q - 1)
      BY <1>1, <1>3
    <3> QED
      BY <3>1
  <2>2. b * k = b * q + b + b * d /\ b * q \in Nat /\ b * d \in Nat /\ b * k \in Nat
    BY <1>1, <2>1
  <2> QED
    BY <1>1, <2>2
<1>4. b * k \in Nat
  OBVIOUS
<1> QED
  BY <1>1, <1>2, <1>3, <1>4 DEF q

\* A pane belongs to the windows that begin at or before it and end at or after
\* it; one of them is the last window that begins at or before it.
LEMMA WindowsOfPane ==
    ASSUME NEW p \in Pane
    PROVE  /\ LastWin(p) \in WindowsOf(p) /\ WindowsOf(p) \subseteq Window
           /\ IsFiniteSet(WindowsOf(p))
           /\ \A k \in WindowsOf(p) : k <= LastWin(p)
           /\ \A k \in Window :
                 k \in WindowsOf(p) <=> sp * k <= p /\ p <= sp * k + wp - 1
<1> DEFINE f == FirstWin(p)
           l == LastWin(p)
<1>1. sp \in Nat \ {0} /\ wp \in Nat /\ sp <= wp /\ MaxPane \in Nat /\ p \in Nat
      /\ p <= MaxPane /\ MaxWindow = MaxPane \div sp /\ MaxWindow \in Nat
  BY WLQAssumption, MaxWindowAssumption DEF Pane
<1>2. l \in Int /\ \A k \in Nat : k <= l <=> sp * k <= p
  <2>1. p + sp \in Nat
    BY <1>1
  <2>2. (p + sp) \div sp \in Nat
    BY <1>1, <2>1, Floor
  <2>3. ASSUME NEW k \in Nat PROVE k <= l <=> sp * k <= p
    <3>1. k + 1 <= (p + sp) \div sp <=> sp * (k + 1) <= p + sp
      BY <1>1, <2>1, Floor
    <3>2. sp * (k + 1) = sp * k + sp /\ sp * k \in Nat
      BY <1>1
    <3> QED
      BY <1>1, <2>2, <3>1, <3>2 DEF LastWin
  <2> QED
    BY <2>2, <2>3 DEF LastWin
<1>3. f \in Nat /\ \A k \in Nat : f <= k <=> p <= sp * k + wp - 1
  <2>1. CASE p < wp
    <3>1. f = 0
      BY <2>1 DEF FirstWin
    <3>2. \A k \in Nat : sp * k \in Nat
      BY <1>1
    <3> QED
      BY <1>1, <2>1, <3>1, <3>2
  <2>2. CASE ~(p < wp)
    <3>1. f = (p + sp - wp) \div sp /\ p + sp - wp \in Nat
      BY <1>1, <2>2 DEF FirstWin
    <3>2. f \in Nat
      BY <1>1, <3>1, Floor
    <3>3. ASSUME NEW k \in Nat PROVE f <= k <=> p <= sp * k + wp - 1
      <4>1. k + 1 <= f <=> sp * (k + 1) <= p + sp - wp
        <5>1. k + 1 \in Nat
          OBVIOUS
        <5> HIDE DEF f
        <5> QED
          BY <1>1, <3>1, <5>1, Floor
      <4>2. sp * (k + 1) = sp * k + sp /\ sp * k \in Nat
        BY <1>1
      <4> QED
        BY <1>1, <3>2, <4>1, <4>2
    <3> QED
      BY <3>2, <3>3
  <2> QED
    BY <2>1, <2>2
<1> HIDE DEF f, l
<1>4. WindowsOf(p) = f..l
  BY DEF WindowsOf, f, l
<1>5. l >= 0 /\ sp * l \in Nat /\ sp * l <= p
  <2>1. 0 <= l <=> sp * 0 <= p
    BY <1>2
  <2>2. l >= 0
    BY <1>1, <2>1
  <2> QED
    BY <1>1, <1>2, <2>2
<1>6. p <= sp * l + wp - 1
  <2>1. l + 1 <= l <=> sp * (l + 1) <= p
    BY <1>2, <1>5
  <2>2. sp * (l + 1) = sp * l + sp
    BY <1>1, <1>2
  <2> QED
    BY <1>1, <1>2, <1>5, <2>1, <2>2
<1>7. l <= MaxWindow
  <2>1. l <= MaxPane \div sp <=> sp * l <= MaxPane
    BY <1>1, <1>2, <1>5, Floor
  <2> QED
    BY <1>1, <1>5, <2>1
<1>8. l \in WindowsOf(p) /\ WindowsOf(p) \subseteq Window
  BY <1>1, <1>2, <1>3, <1>4, <1>5, <1>6, <1>7 DEF Window
<1>9. \A k \in Window : k \in WindowsOf(p) <=> sp * k <= p /\ p <= sp * k + wp - 1
  <2> SUFFICES ASSUME NEW k \in Window
               PROVE  k \in WindowsOf(p) <=> sp * k <= p /\ p <= sp * k + wp - 1
    OBVIOUS
  <2>1. k \in Nat
    BY <1>1 DEF Window
  <2>2. (k <= l <=> sp * k <= p) /\ (f <= k <=> p <= sp * k + wp - 1)
    BY <2>1, <1>2, <1>3
  <2> QED
    BY <2>1, <2>2, <1>2, <1>3, <1>4
<1>10. IsFiniteSet(WindowsOf(p)) /\ \A k \in WindowsOf(p) : k <= l
  BY <1>2, <1>3, <1>4, FS_Interval
<1> QED
  BY <1>8, <1>9, <1>10 DEF l

\* The partitions of a window are finitely many; when all its panes come, they
\* are as many as the numbers of partitions of its panes say.
LEMMA AllFinite ==
    ASSUME NEW k \in Window
    PROVE  /\ IsFiniteSet(Partition) /\ IsFiniteSet(All(k))
           /\ Cardinality(All(k)) \in Nat
           /\ \A S \in SUBSET All(k) :
                 /\ IsFiniteSet(S) /\ Cardinality(S) \in Nat
                 /\ Cardinality(S) <= Cardinality(All(k))
                 /\ Cardinality(S) = Cardinality(All(k)) => S = All(k)
<1>1. MaxPane \in Nat /\ MaxParts \in Nat
  BY WLQAssumption
<1>2. IsFiniteSet(Pane) /\ IsFiniteSet(1..MaxParts)
  BY <1>1, FS_Interval DEF Pane
<1>3. IsFiniteSet(Partition)
  BY <1>2, FS_Product DEF Partition
<1>4. IsFiniteSet(All(k))
  BY <1>3, FS_Subset DEF All
<1> QED
  BY <1>3, <1>4, FS_Subset, FS_CardinalityType

\* All the partitions of a complete window, counted pane by pane.
LEMMA AllCounted ==
    ASSUME total \in Totals, NEW k \in Window, Complete(k),
           NEW f, f = [i \in LocalPane |-> total[sp * k + i]]
    PROVE  SumFunction(f) = Cardinality(All(k))
<1> DEFINE U == Units(f, LocalPane)
           m == [u \in U |-> <<sp * k + u[1], u[2]>>]
<1>1. /\ sp \in Nat /\ wp \in Nat \ {0} /\ MaxPane \in Nat /\ MaxParts \in Nat
      /\ k \in Nat /\ sp * k \in Nat /\ sp * k + wp - 1 <= MaxPane
  BY WLQAssumption, MaxWindowAssumption DEF Complete, Window
<1>2. total \in [Pane -> 1..MaxParts]
  BY WLQAssumption DEF Pane
<1>3. ASSUME NEW i \in LocalPane
      PROVE  /\ sp * k + i \in Pane /\ f[i] = total[sp * k + i] /\ f[i] \in 1..MaxParts
             /\ k \in WindowsOf(sp * k + i)
  <2>1. sp * k + i \in Pane /\ i >= 0 /\ i <= wp - 1 /\ i \in Int
    BY <1>1 DEF LocalPane, Pane
  <2>2. k \in WindowsOf(sp * k + i)
    BY <1>1, <2>1, WindowsOfPane
  <2> QED
    BY <1>2, <2>1, <2>2
<1>4. IsFiniteSet(LocalPane) /\ f \in [LocalPane -> Nat]
  <2>1. IsFiniteSet(LocalPane)
    BY <1>1, FS_Interval DEF LocalPane
  <2>2. \A i \in LocalPane : f[i] \in Nat
    BY <1>1, <1>3
  <2>3. f \in [LocalPane -> Nat]
    <3> DEFINE L == LocalPane
    <3>1. f = [i \in L |-> f[i]]
      OBVIOUS
    <3> HIDE DEF L
    <3> QED
      BY <2>2, <3>1 DEF L
  <2> QED
    BY <2>1, <2>3
<1>5. IsFiniteSet(U) /\ SumFunction(f) = Cardinality(U)
  BY <1>4, SumIsCount
<1>6. ASSUME NEW u \in U
      PROVE  /\ m[u] \in All(k) /\ u[1] \in LocalPane /\ u[2] \in Nat
             /\ u = <<u[1], u[2]>>
  <2>1. u[1] \in LocalPane /\ u[2] \in 1..f[u[1]] /\ u[2] \in Nat /\ u = <<u[1], u[2]>>
    BY DEF Units
  <2>2. /\ sp * k + u[1] \in Pane /\ f[u[1]] = total[sp * k + u[1]]
        /\ f[u[1]] \in 1..MaxParts /\ k \in WindowsOf(sp * k + u[1])
    BY <2>1, <1>3
  <2>3. u[2] \in 1..MaxParts /\ u[2] <= total[sp * k + u[1]]
    BY <2>1, <2>2, <1>1
  <2>4. m[u] = <<sp * k + u[1], u[2]>>
    OBVIOUS
  <2> HIDE DEF m, U
  <2> QED
    BY <2>1, <2>2, <2>3, <2>4 DEF All, Partition
<1>7. ASSUME NEW x \in All(k) PROVE \E u \in U : m[u] = x
  <2>1. /\ x[1] \in Pane /\ x[2] \in 1..MaxParts /\ x = <<x[1], x[2]>>
        /\ x[2] <= total[x[1]] /\ k \in WindowsOf(x[1])
    BY DEF All, Partition
  <2>2. sp * k <= x[1] /\ x[1] <= sp * k + wp - 1 /\ x[1] \in Nat
    BY <2>1, <1>1, WindowsOfPane DEF Pane
  <2>3. /\ x[1] - sp * k \in LocalPane
        /\ sp * k + (x[1] - sp * k) = x[1]
    BY <2>2, <1>1 DEF LocalPane
  <2>4. x[2] \in 1..f[x[1] - sp * k]
    BY <2>1, <2>3, <1>3, <1>2
  <2>5. <<x[1] - sp * k, x[2]>> \in U
    BY <2>3, <2>4, <1>1 DEF Units
  <2> QED
    BY <2>1, <2>3, <2>5
<1>8. ASSUME NEW u \in U, NEW v \in U, m[u] = m[v] PROVE u = v
  <2>1. sp * k + u[1] = sp * k + v[1] /\ u[2] = v[2]
    BY <1>8
  <2>2. u[1] \in Int /\ v[1] \in Int
    <3>1. LocalPane \subseteq Int
      BY <1>1 DEF LocalPane
    <3>2. u[1] \in LocalPane /\ v[1] \in LocalPane
      BY <1>6
    <3> QED
      BY <3>1, <3>2
  <2>3. u[1] = v[1]
    BY <1>1, <2>1, <2>2
  <2> QED
    BY <1>6, <2>1, <2>3
<1>9. m \in Bijection(U, All(k))
  <2> HIDE DEF U
  <2>1. m \in [U -> All(k)]
    BY <1>6
  <2> HIDE DEF m
  <2> QED
    BY <1>7, <1>8, <2>1 DEF Bijection, Injection, IsInjective, Surjection
<1> QED
  BY <1>5, <1>9, FS_Bijection DEF ExistsBijection

-----------------------------------------------------------------------------
(* The invariant of one window                                             *)

\* A window has no descriptor yet, is open, or was finalized.
Stage(open1, end1, k) ==
    IF k \in open1 THEN "open" ELSE IF k >= end1 THEN "none" ELSE "closed"

\* Window k at some stage: whether it is busy, its queue, the number of tasks
\* completed, the partitions that came, its results set and its tasks H.
\* Each partition is in one place.  A results set takes one task, and the
\* merges running now still owe one that the queue does not show: the counter
\* reaches the number of partitions exactly when all is merged.  While a
\* complete window is open there is a results set left to make its last task.
WindowInv(k, stage, busy, queue, com, came, res, H) ==
    /\ IsFiniteSet(H)
    /\ queue \in Seq(SUBSET Partition) /\ com \in Int
    /\ came \subseteq All(k)
    /\ Accounted(came, res, queue, H)
    /\ stage # "closed" =>
          com + Len(queue) + Cardinality(H) + Cardinality(Merges(H)) = Cardinality(came)
    /\ stage = "open" /\ Complete(k) /\ came = All(k) =>
          queue # <<>> \/ Merges(H) # {}
    /\ stage = "none" => queue = <<>> /\ com = 0 /\ res = {} /\ H = {}
    /\ stage = "closed" => queue = <<>> /\ Complete(k) /\ came = All(k)
    /\ \A a \in H : /\ a[2].finalize <=> stage = "closed"
                    /\ a[2].type \in {"WIN_UPDATE", "MERGE"}
                    /\ a[2].type = "WIN_UPDATE" <=> a[2].p1 = {}
                    /\ a[2].finalize => a[2].type = "WIN_UPDATE"
                    /\ a[2].type = "WIN_UPDATE" => busy
                    /\ \A b \in H : a[2].type = "WIN_UPDATE" /\ b[2].type = "WIN_UPDATE"
                                    => a = b

\* All the windows, for fields e of the emitter, tasks H, partitions later
\* still to come, end1 for end_win and results sets res.
Windows(e, H, later, end1, res) ==
    \A k \in Window :
        WindowInv(k, Stage(e.open, end1, k), e.busy[k], e.pending[k], e.com[k],
                  Came(k, later), res[k], Of(H, k))

\* The stream: a pane whose number of partitions is not announced has another
\* partition to come.
StreamInv(later, known) ==
    /\ total \in Totals /\ known \subseteq Pane /\ later \subseteq Partition
    /\ \A x \in later : x[2] <= total[x[1]]
    /\ \A p \in Pane \ known : \E x \in later : x[1] = p

\* The descriptors hold the numbers of partitions that were announced.
Counted(ins, known) ==
    \A k \in Window : \A i \in LocalPane :
        /\ sp * k + i \in known <=> ins[k][i] # UNKNOWN
        /\ sp * k + i \in known => ins[k][i] = total[sp * k + i]

\* n_pendingtasks counts the queued results sets and those the merges owe.
Pending(e, H) ==
    /\ e.npend = SumFunction([k \in Window |-> Len(e.pending[k])])
                 + Cardinality(Merges(H))
    /\ IsFiniteSet(H)

\* A complete window has partitions.
LEMMA AllNonempty ==
    ASSUME NEW k \in Window, Complete(k), total \in Totals
    PROVE  All(k) # {}
<1>1. /\ sp \in Nat /\ wp \in Nat \ {0} /\ MaxPane \in Nat /\ MaxParts \in Nat \ {0}
      /\ k \in Nat /\ sp * k \in Nat /\ sp * k + wp - 1 <= MaxPane
  BY WLQAssumption, MaxWindowAssumption DEF Complete, Window
<1>2. sp * k \in Pane
  BY <1>1 DEF Pane
<1>3. k \in WindowsOf(sp * k)
  BY <1>1, <1>2, WindowsOfPane
<1>4. total[sp * k] \in 1..MaxParts
  BY <1>2, WLQAssumption DEF Pane
<1>5. <<sp * k, 1>> \in Partition /\ 1 <= total[sp * k]
  BY <1>1, <1>2, <1>4 DEF Partition
<1> QED
  BY <1>3, <1>5 DEF All

\* The numbers in the invariant of a window.
Sizes(k, queue, came, H) ==
    /\ Len(queue) \in Nat /\ (Len(queue) = 0 <=> queue = <<>>)
    /\ Cardinality(H) \in Nat /\ (Cardinality(H) = 0 <=> H = {})
    /\ IsFiniteSet(Merges(H)) /\ Cardinality(Merges(H)) \in Nat
    /\ (Cardinality(Merges(H)) = 0 <=> Merges(H) = {})
    /\ Cardinality(came) \in Nat /\ Cardinality(All(k)) \in Nat
    /\ Cardinality(came) <= Cardinality(All(k))
    /\ (Cardinality(came) = Cardinality(All(k)) => came = All(k))
    /\ IsFiniteSet(came) /\ (Cardinality(came) = 0 <=> came = {})

\* The sets that the invariant of a window speaks of are finite.
LEMMA WindowSizes ==
    ASSUME NEW k \in Window, NEW stage, NEW busy, NEW queue, NEW com, NEW came,
           NEW res, NEW H, WindowInv(k, stage, busy, queue, com, came, res, H)
    PROVE  Sizes(k, queue, came, H)
<1>1. /\ IsFiniteSet(H) /\ queue \in Seq(SUBSET Partition) /\ came \in SUBSET All(k)
  BY DEF WindowInv
<1>2. IsFiniteSet(Merges(H))
  BY <1>1, FS_Subset DEF Merges
<1>3. Len(queue) \in Nat /\ (Len(queue) = 0 <=> queue = <<>>)
  BY <1>1, EmptyToSet
<1>4. \A S : IsFiniteSet(S) => Cardinality(S) \in Nat /\ (Cardinality(S) = 0 <=> S = {})
  BY FS_CardinalityType, FS_EmptySet
<1> QED
  BY <1>1, <1>2, <1>3, <1>4, AllFinite DEF Sizes

\* A descriptor is created before any partition of its window came.
LEMMA WindowOpens ==
    ASSUME NEW k \in Window, total \in Totals,
           NEW busy, NEW queue, NEW com, NEW came, NEW res, NEW H,
           WindowInv(k, "none", busy, queue, com, came, res, H)
    PROVE  WindowInv(k, "open", busy, queue, com, came, res, H)
<1>0. Sizes(k, queue, came, H)
  BY WindowSizes
<1>1. /\ queue = <<>> /\ com = 0 /\ H = {} /\ Merges(H) = {}
      /\ com + Len(queue) + Cardinality(H) + Cardinality(Merges(H)) = Cardinality(came)
  BY DEF WindowInv, Merges
<1>2. Len(queue) = 0 /\ Cardinality(H) = 0 /\ Cardinality(Merges(H)) = 0
  BY <1>0, <1>1 DEF Sizes
<1>3. came = {}
  <2>1. Cardinality(came) = 0
    BY <1>1, <1>2
  <2> QED
    BY <2>1, <1>0 DEF Sizes
<1> QED
  BY <1>1, <1>3, AllNonempty DEF WindowInv

\* A partition arrives.
LEMMA WindowArrive ==
    ASSUME NEW k \in Window, NEW busy, NEW queue, NEW com, NEW came, NEW res, NEW H,
           WindowInv(k, "open", busy, queue, com, came, res, H),
           NEW x \in All(k), x \notin came
    PROVE  WindowInv(k, "open", busy, Append(queue, {x}), com, came \cup {x}, res, H)
<1> DEFINE q == Append(queue, {x})
           c == came \cup {x}
<1>0. Sizes(k, queue, came, H)
  BY WindowSizes
<1>1. x \in Partition /\ queue \in Seq(SUBSET Partition) /\ Accounted(came, res, queue, H)
  BY DEF All, WindowInv
<1>2. q \in Seq(SUBSET Partition) /\ q # <<>> /\ Len(q) = Len(queue) + 1
  BY <1>1, AppendToSet
<1>3. Accounted(c, res, q, H)
  BY <1>1, AccountArrive
<1>4. Cardinality(c) = Cardinality(came) + 1
  BY <1>0, FS_AddElement DEF Sizes
<1>5. com + Len(q) + Cardinality(H) + Cardinality(Merges(H)) = Cardinality(c)
  <2> HIDE DEF q, c
  <2> QED
    BY <1>0, <1>2, <1>4 DEF Sizes, WindowInv
<1>6. c \subseteq All(k)
  BY DEF WindowInv
<1> HIDE DEF q, c
<1>7. WindowInv(k, "open", busy, q, com, c, res, H)
  BY <1>2, <1>3, <1>5, <1>6 DEF WindowInv
<1> QED
  BY <1>7 DEF q, c

\* The emitter makes the update of a window: it is the last task of the window
\* exactly when toFinalize says so.
LEMMA WindowUpdate ==
    ASSUME NEW k \in Window, NEW queue, NEW com, NEW came, NEW res, NEW H,
           WindowInv(k, "open", FALSE, queue, com, came, res, H), queue # <<>>,
           NEW final \in BOOLEAN,
           final => Complete(k) /\ Cardinality(All(k)) = com + 1,
           Complete(k) /\ came = All(k) /\ ~final => Cardinality(All(k)) # com + 1,
           NEW a, a \notin H, a[2] = UpdateTask(k, Last(queue), final)
    PROVE  WindowInv(k, IF final THEN "closed" ELSE "open", TRUE, Front(queue), com,
                     came, res, H \cup {a})
<1> DEFINE q == Front(queue)
           G == H \cup {a}
           stage == IF final THEN "closed" ELSE "open"
<1>0. Sizes(k, queue, came, H)
  BY WindowSizes
<1>1. /\ a[2].p1 = {} /\ a[2].p2 = Last(queue) /\ a[2].type = "WIN_UPDATE"
      /\ a[2].finalize = final
  BY DEF UpdateTask
<1>2. /\ queue \in Seq(SUBSET Partition) /\ Accounted(came, res, queue, H)
      /\ IsFiniteSet(H)
      /\ \A b \in H : /\ ~b[2].finalize /\ b[2].type = "MERGE" /\ b[2].p1 # {}
  BY DEF WindowInv
<1>3. Accounted(came, res, q, G)
  BY <1>1, <1>2, AccountGive
<1>4. q \in Seq(SUBSET Partition) /\ Len(queue) = Len(q) + 1 /\ Len(q) \in Nat
  <2>1. Separate(queue)
    BY <1>2 DEF Accounted
  <2>2. q \in Seq(SUBSET Partition) /\ Len(queue) = Len(q) + 1
    BY <2>1, <1>2, SeparateLast
  <2> QED
    BY <2>2, LenProperties
<1>5. /\ IsFiniteSet(G) /\ Cardinality(G) = Cardinality(H) + 1
      /\ Cardinality(Merges(G)) = Cardinality(Merges(H))
      /\ Merges(G) = Merges(H)
  <2>1. Merges(G) = Merges(H)
    BY <1>1 DEF Merges
  <2> QED
    BY <1>1, <1>2, <2>1, TaskAdd
<1> HIDE DEF q, G
<1>6. /\ com + Len(queue) + Cardinality(H) + Cardinality(Merges(H)) = Cardinality(came)
      /\ com \in Int
  BY DEF WindowInv
<1>7. com + Len(q) + Cardinality(G) + Cardinality(Merges(G)) = Cardinality(came)
  BY <1>0, <1>4, <1>5, <1>6 DEF Sizes
<1>8. ASSUME final PROVE q = <<>> /\ Complete(k) /\ came = All(k) /\ H = {}
  <2>1. Len(q) = 0 /\ Cardinality(H) = 0 /\ Cardinality(came) = Cardinality(All(k))
    BY <1>0, <1>4, <1>6, <1>8 DEF Sizes
  <2> QED
    BY <2>1, <1>0, <1>4, <1>8, EmptyToSet DEF Sizes
<1>9. ASSUME ~final, Complete(k), came = All(k) PROVE q # <<>> \/ Merges(G) # {}
  <2> SUFFICES ASSUME q = <<>>, Merges(G) = {} PROVE FALSE
    OBVIOUS
  <2>1. H = {}
    BY <1>2, <1>5 DEF Merges
  <2>2. Len(q) = 0 /\ Cardinality(H) = 0 /\ Cardinality(Merges(H)) = 0
    BY <2>1, <1>4, <1>5, EmptyToSet, FS_EmptySet
  <2> QED
    BY <2>2, <1>4, <1>6, <1>9
<1>10. \A b \in G : /\ b[2].finalize <=> stage = "closed"
                    /\ b[2].type \in {"WIN_UPDATE", "MERGE"}
                    /\ b[2].type = "WIN_UPDATE" <=> b[2].p1 = {}
                    /\ b[2].finalize => b[2].type = "WIN_UPDATE"
                    /\ \A c \in G : b[2].type = "WIN_UPDATE" /\ c[2].type = "WIN_UPDATE"
                                    => b = c
  BY <1>1, <1>2, <1>8 DEF G
<1>11. came \subseteq All(k) /\ stage \in {"open", "closed"}
  BY DEF WindowInv
<1>12. WindowInv(k, stage, TRUE, q, com, came, res, G)
  BY <1>3, <1>4, <1>5, <1>6, <1>7, <1>8, <1>9, <1>10, <1>11 DEF WindowInv
<1> QED
  BY <1>12 DEF q, G

\* The emitter makes a merge of two results sets of a window.
LEMMA WindowMerge ==
    ASSUME NEW k \in Window, NEW busy, NEW queue, NEW com, NEW came, NEW res, NEW H,
           WindowInv(k, "open", busy, queue, com, came, res, H), Len(queue) > 1,
           NEW a, a \notin H, a[2] = MergeTask(k, Last(queue), Last(Front(queue)))
    PROVE  WindowInv(k, "open", busy, Front(Front(queue)), com, came, res, H \cup {a})
<1> DEFINE q == Front(Front(queue))
           G == H \cup {a}
<1>0. Sizes(k, queue, came, H)
  BY WindowSizes
<1>1. /\ a[2].p1 = Last(queue) /\ a[2].p2 = Last(Front(queue))
      /\ a[2].type = "MERGE" /\ a[2].finalize = FALSE
  BY DEF MergeTask
<1>2. /\ queue \in Seq(SUBSET Partition) /\ Accounted(came, res, queue, H)
      /\ IsFiniteSet(H) /\ com \in Int /\ came \subseteq All(k)
      /\ com + Len(queue) + Cardinality(H) + Cardinality(Merges(H)) = Cardinality(came)
      /\ \A b \in H : /\ ~b[2].finalize
                      /\ b[2].type \in {"WIN_UPDATE", "MERGE"}
                      /\ b[2].type = "WIN_UPDATE" <=> b[2].p1 = {}
                      /\ b[2].type = "WIN_UPDATE" => busy
                      /\ \A c \in H : b[2].type = "WIN_UPDATE" /\ c[2].type = "WIN_UPDATE"
                                      => b = c
  BY DEF WindowInv
<1>3. /\ Accounted(came, res, q, G) /\ q \in Seq(SUBSET Partition)
      /\ Len(queue) = Len(q) + 2 /\ a[2].p1 # {}
  BY <1>1, <1>2, AccountMerge
<1>4. Len(q) \in Nat
  BY <1>3, LenProperties
<1>5. /\ IsFiniteSet(G) /\ Cardinality(G) = Cardinality(H) + 1
      /\ Cardinality(Merges(G)) = Cardinality(Merges(H)) + 1
  BY <1>1, <1>2, TaskAdd
<1>6. Merges(G) # {}
  BY <1>1 DEF Merges
<1> HIDE DEF q, G
<1>7. com + Len(q) + Cardinality(G) + Cardinality(Merges(G)) = Cardinality(came)
  BY <1>0, <1>2, <1>3, <1>4, <1>5 DEF Sizes
<1>8. \A b \in G : /\ ~b[2].finalize
                   /\ b[2].type \in {"WIN_UPDATE", "MERGE"}
                   /\ b[2].type = "WIN_UPDATE" <=> b[2].p1 = {}
                   /\ b[2].type = "WIN_UPDATE" => busy
                   /\ \A c \in G : b[2].type = "WIN_UPDATE" /\ c[2].type = "WIN_UPDATE"
                                   => b = c
  BY <1>1, <1>2, <1>3 DEF G
<1>9. WindowInv(k, "open", busy, q, com, came, res, G)
  BY <1>2, <1>3, <1>5, <1>6, <1>7, <1>8 DEF WindowInv
<1> QED
  BY <1>9 DEF q, G

\* The emitter takes back a task of a window: an update, after which the window
\* is no longer busy unless it was the last one, or a merge, whose results set
\* joins the queue.
LEMMA WindowFeedback ==
    ASSUME NEW k \in Window, NEW stage \in {"open", "closed", "none"},
           NEW busy, NEW queue, NEW com, NEW came, NEW res, NEW H,
           WindowInv(k, stage, busy, queue, com, came, res, H),
           NEW a \in H, a[2].p1 \in SUBSET Partition, a[2].p2 = {},
           NEW updated, updated = (a[2].type = "WIN_UPDATE" /\ ~a[2].finalize),
           NEW merged, merged = (a[2].type = "MERGE")
    PROVE  WindowInv(k, stage, IF updated THEN FALSE ELSE busy,
                     IF merged THEN Append(queue, a[2].p1) ELSE queue,
                     IF updated \/ merged THEN com + 1 ELSE com,
                     came, res, H \ {a})
<1> DEFINE q == IF merged THEN Append(queue, a[2].p1) ELSE queue
           c == IF updated \/ merged THEN com + 1 ELSE com
           busy2 == IF updated THEN FALSE ELSE busy
           G == H \ {a}
<1>0. Sizes(k, queue, came, H)
  BY WindowSizes
<1>1. /\ queue \in Seq(SUBSET Partition) /\ Accounted(came, res, queue, H)
      /\ IsFiniteSet(H) /\ com \in Int /\ came \subseteq All(k)
      /\ stage # "closed" =>
            com + Len(queue) + Cardinality(H) + Cardinality(Merges(H)) = Cardinality(came)
      /\ stage = "open" /\ Complete(k) /\ came = All(k) =>
            queue # <<>> \/ Merges(H) # {}
      /\ stage = "none" => H = {}
      /\ stage = "closed" => queue = <<>> /\ Complete(k) /\ came = All(k)
      /\ \A b \in H : /\ b[2].finalize <=> stage = "closed"
                      /\ b[2].type \in {"WIN_UPDATE", "MERGE"}
                      /\ b[2].type = "WIN_UPDATE" <=> b[2].p1 = {}
                      /\ b[2].finalize => b[2].type = "WIN_UPDATE"
                      /\ b[2].type = "WIN_UPDATE" => busy
                      /\ \A d \in H : b[2].type = "WIN_UPDATE" /\ d[2].type = "WIN_UPDATE"
                                      => b = d
  BY DEF WindowInv
<1>2. /\ IsFiniteSet(G) /\ Cardinality(G) = Cardinality(H) - 1
      /\ Cardinality(Merges(G)) = IF merged THEN Cardinality(Merges(H)) - 1
                                  ELSE Cardinality(Merges(H))
      /\ ~merged => Merges(G) = Merges(H)
  <2>1. ~merged => Merges(G) = Merges(H)
    BY DEF Merges
  <2> QED
    BY <1>1, <2>1, TaskRemove
<1>3. /\ q \in Seq(SUBSET Partition) /\ Accounted(came, res, q, G)
      /\ Len(q) = IF merged THEN Len(queue) + 1 ELSE Len(queue)
      /\ merged => q # <<>>
  <2>1. CASE merged
    <3>1. a[2].p1 # {}
      BY <2>1, <1>1
    <3>2. Accounted(came, res, Append(queue, a[2].p1), G)
      BY <3>1, <1>1, AccountReturn
    <3> QED
      BY <2>1, <3>2, <1>1, AppendToSet
  <2>2. CASE ~merged
    <3>1. Carried(a) = {}
      BY <2>2, <1>1 DEF Carried
    <3> QED
      BY <2>2, <3>1, <1>1, AccountDone
  <2> QED
    BY <2>1, <2>2
<1>4. /\ \A b \in G : b \in H /\ b # a
      /\ updated \in BOOLEAN /\ merged \in BOOLEAN
      /\ stage = "none" => FALSE
      /\ stage # "closed" => updated \/ merged
      /\ stage = "closed" => ~updated /\ ~merged
      /\ ~(updated /\ merged)
      /\ merged => stage = "open"
  BY <1>1
<1> HIDE DEF q, G
<1>5. stage # "closed" =>
         c + Len(q) + Cardinality(G) + Cardinality(Merges(G)) = Cardinality(came)
  <2> SUFFICES ASSUME stage # "closed"
               PROVE  c + Len(q) + Cardinality(G) + Cardinality(Merges(G)) = Cardinality(came)
    OBVIOUS
  <2>1. /\ com + Len(queue) + Cardinality(H) + Cardinality(Merges(H)) = Cardinality(came)
        /\ c = com + 1
    BY <1>1, <1>4
  <2>2. /\ Len(queue) \in Nat /\ Cardinality(H) \in Nat
        /\ Cardinality(Merges(H)) \in Nat /\ Cardinality(came) \in Nat
    BY <1>0 DEF Sizes
  <2> HIDE DEF c
  <2>3. CASE merged
    BY <2>1, <2>2, <2>3, <1>1, <1>2, <1>3
  <2>4. CASE ~merged
    BY <2>1, <2>2, <2>4, <1>1, <1>2, <1>3
  <2> QED
    BY <2>3, <2>4
<1>6. c \in Int
  BY <1>1
<1>7. stage = "open" /\ Complete(k) /\ came = All(k) => q # <<>> \/ Merges(G) # {}
  BY <1>1, <1>2, <1>3 DEF q
<1>8. stage = "closed" => q = <<>> /\ Complete(k) /\ came = All(k)
  BY <1>1, <1>4 DEF q
<1>9. \A b \in G : b[2].type = "WIN_UPDATE" => busy2
  <2> SUFFICES ASSUME NEW b \in G, b[2].type = "WIN_UPDATE" PROVE busy2
    OBVIOUS
  <2>1. busy /\ ~updated
    BY <1>1, <1>4
  <2> QED
    BY <2>1
<1>10. \A b \in G : /\ b[2].finalize <=> stage = "closed"
                    /\ b[2].type \in {"WIN_UPDATE", "MERGE"}
                    /\ b[2].type = "WIN_UPDATE" <=> b[2].p1 = {}
                    /\ b[2].finalize => b[2].type = "WIN_UPDATE"
                    /\ \A d \in G : b[2].type = "WIN_UPDATE" /\ d[2].type = "WIN_UPDATE"
                                    => b = d
  BY <1>1, <1>4
<1>11. stage # "none"
  BY <1>4
<1> HIDE DEF c, busy2
<1>12. WindowInv(k, stage, busy2, q, c, came, res, G)
  BY <1>1, <1>2, <1>3, <1>5, <1>6, <1>7, <1>8, <1>9, <1>10, <1>11 DEF WindowInv
<1> QED
  BY <1>12 DEF q, c, busy2, G

\* A worker updates the window.
LEMMA WindowUpdated ==
    ASSUME NEW k \in Window, NEW stage, NEW busy, NEW queue, NEW com, NEW came,
           NEW res, NEW H, WindowInv(k, stage, busy, queue, com, came, res, H),
           NEW a \in H, a[2].type = "WIN_UPDATE", NEW b, b \notin H \ {a},
           b[2].p1 = a[2].p1, b[2].p2 = {}, b[2].type = a[2].type,
           b[2].finalize = a[2].finalize
    PROVE  WindowInv(k, stage, busy, queue, com, came, res \cup a[2].p2,
                     (H \ {a}) \cup {b})
<1> DEFINE F == H \ {a}
           G == F \cup {b}
<1>1. /\ Accounted(came, res, queue, H) /\ IsFiniteSet(H) /\ stage # "none"
      /\ \A c \in H : /\ c[2].finalize <=> stage = "closed"
                      /\ c[2].type \in {"WIN_UPDATE", "MERGE"}
                      /\ c[2].type = "WIN_UPDATE" <=> c[2].p1 = {}
                      /\ c[2].finalize => c[2].type = "WIN_UPDATE"
                      /\ c[2].type = "WIN_UPDATE" => busy
                      /\ \A d \in H : c[2].type = "WIN_UPDATE" /\ d[2].type = "WIN_UPDATE"
                                      => c = d
  BY DEF WindowInv
<1>2. a[2].p1 = {} /\ b[2].p1 = {} /\ b[2].type = "WIN_UPDATE"
  BY <1>1
<1>3. Accounted(came, res \cup a[2].p2, queue, G)
  BY <1>1, <1>2, AccountUpdate
<1>4. /\ IsFiniteSet(F) /\ Cardinality(F) = Cardinality(H) - 1 /\ Cardinality(H) \in Nat
  BY <1>1, TaskRemove
<1>5. Merges(G) = Merges(H)
  BY <1>2 DEF Merges
<1>6. b \notin F /\ \A c \in F : c \in H /\ c # a
  OBVIOUS
<1>7. IsFiniteSet(G) /\ Cardinality(G) = Cardinality(H)
  <2>1. IsFiniteSet(G) /\ Cardinality(G) = Cardinality(F) + 1
    <3> HIDE DEF F
    <3> QED
      BY <1>4, <1>6, FS_AddElement
  <2> QED
    BY <2>1, <1>4
<1> HIDE DEF F
<1>8. \A c \in G : /\ c[2].finalize <=> stage = "closed"
                   /\ c[2].type \in {"WIN_UPDATE", "MERGE"}
                   /\ c[2].type = "WIN_UPDATE" <=> c[2].p1 = {}
                   /\ c[2].finalize => c[2].type = "WIN_UPDATE"
                   /\ c[2].type = "WIN_UPDATE" => busy
                   /\ \A d \in G : c[2].type = "WIN_UPDATE" /\ d[2].type = "WIN_UPDATE"
                                   => c = d
  BY <1>1, <1>2, <1>6
<1> HIDE DEF G
<1>9. WindowInv(k, stage, busy, queue, com, came, res \cup a[2].p2, G)
  BY <1>1, <1>3, <1>5, <1>7, <1>8 DEF WindowInv
<1> QED
  BY <1>9 DEF F, G

\* A worker joins two results sets of a window.
LEMMA WindowMerged ==
    ASSUME NEW k \in Window, NEW stage, NEW busy, NEW queue, NEW com, NEW came,
           NEW res, NEW H, WindowInv(k, stage, busy, queue, com, came, res, H),
           NEW a \in H, a[2].type = "MERGE", NEW b, b \notin H \ {a},
           b[2].p1 = a[2].p1 \cup a[2].p2, b[2].p2 = {}, b[2].type = a[2].type,
           b[2].finalize = a[2].finalize
    PROVE  WindowInv(k, stage, busy, queue, com, came, res, (H \ {a}) \cup {b})
<1> DEFINE F == H \ {a}
           G == F \cup {b}
<1>1. /\ Accounted(came, res, queue, H) /\ IsFiniteSet(H) /\ stage # "none"
      /\ \A c \in H : /\ c[2].finalize <=> stage = "closed"
                      /\ c[2].type \in {"WIN_UPDATE", "MERGE"}
                      /\ c[2].type = "WIN_UPDATE" <=> c[2].p1 = {}
                      /\ c[2].finalize => c[2].type = "WIN_UPDATE"
                      /\ c[2].type = "WIN_UPDATE" => busy
                      /\ \A d \in H : c[2].type = "WIN_UPDATE" /\ d[2].type = "WIN_UPDATE"
                                      => c = d
  BY DEF WindowInv
<1>2. a[2].p1 # {} /\ b[2].p1 # {} /\ b[2].type = "MERGE"
  BY <1>1
<1>3. Accounted(came, res, queue, G)
  <2>1. Carried(b) = Carried(a) /\ b[2].p1 \cap b[2].p2 = {}
    BY DEF Carried
  <2> QED
    BY <2>1, <1>1, AccountJoin
<1>4. /\ IsFiniteSet(F) /\ Cardinality(F) = Cardinality(H) - 1 /\ Cardinality(H) \in Nat
      /\ Cardinality(Merges(F)) = Cardinality(Merges(H)) - 1
      /\ Cardinality(Merges(H)) \in Nat
  BY <1>1, TaskRemove
<1>6. b \notin F /\ \A c \in F : c \in H /\ c # a
  OBVIOUS
<1>5. Merges(G) # {}
  BY <1>2 DEF Merges
<1> HIDE DEF F
<1>7. /\ IsFiniteSet(G) /\ Cardinality(G) = Cardinality(F) + 1
      /\ Cardinality(Merges(G)) = Cardinality(Merges(F)) + 1
  BY <1>2, <1>4, <1>6, TaskAdd
<1>8. \A c \in G : /\ c[2].finalize <=> stage = "closed"
                   /\ c[2].type \in {"WIN_UPDATE", "MERGE"}
                   /\ c[2].type = "WIN_UPDATE" <=> c[2].p1 = {}
                   /\ c[2].finalize => c[2].type = "WIN_UPDATE"
                   /\ c[2].type = "WIN_UPDATE" => busy
                   /\ \A d \in G : c[2].type = "WIN_UPDATE" /\ d[2].type = "WIN_UPDATE"
                                   => c = d
  BY <1>1, <1>2, <1>6
<1> HIDE DEF G
<1>9. Cardinality(G) = Cardinality(H) /\ Cardinality(Merges(G)) = Cardinality(Merges(H))
  BY <1>4, <1>7
<1>10. WindowInv(k, stage, busy, queue, com, came, res, G)
  BY <1>1, <1>3, <1>5, <1>7, <1>8, <1>9 DEF WindowInv
<1> QED
  BY <1>10 DEF F, G

-----------------------------------------------------------------------------
(* The tasks of the workers                                                *)

\* The sets of short sequences.
LEMMA ShortSets ==
    /\ ToSet(<<>>) = {}
    /\ \A a : ToSet(<<a>>) = {a}
    /\ \A a, b : ToSet(<<a, b>>) = {a, b}
<1>1. \A a : ToSet(<<a>>) = {a}
  <2> TAKE a
  <2>1. DOMAIN <<a>> = {1}
    OBVIOUS
  <2> QED
    BY <2>1 DEF ToSet
<1>2. \A a, b : ToSet(<<a, b>>) = {a, b}
  <2> TAKE a, b
  <2>1. DOMAIN <<a, b>> = {1, 2}
    OBVIOUS
  <2> QED
    BY <2>1 DEF ToSet
<1> QED
  BY <1>1, <1>2 DEF ToSet

\* Which tasks the two channels of a worker hold.
LEMMA ChannelTasks ==
    ASSUME IInv, NEW w \in Worker, NEW t \in Task
    PROVE  /\ t \in ToSet(in_q[w]) <=> Working(w, t)
           /\ t \in ToSet(feedback[w]) <=> Finished(w, t)
<1>1. t # GO_OUT /\ t # EOS
  BY DEF Task, GO_OUT, EOS
<1>2. ToSet(Orders(w)) \subseteq {GO_OUT, EOS}
  BY ShortSets DEF Orders
<1>3. CASE Idle(w)
  <2>1. t \notin ToSet(in_q[w]) /\ t \notin ToSet(feedback[w])
    BY <1>1, <1>2, <1>3, ShortSets DEF Idle
  <2> QED
    BY <2>1, <1>3 DEF Idle, Working, Finished
<1>4. ASSUME NEW u \in Task, Working(w, u)
      PROVE  /\ t \in ToSet(in_q[w]) <=> t = u
             /\ t \in ToSet(feedback[w]) <=> FALSE
             /\ Working(w, t) <=> t = u
             /\ ~Finished(w, t)
  <2>1. in_q[w] \in {<<u>>, <<u, GO_OUT>>} /\ feedback[w] = <<>>
    BY <1>4 DEF Working
  <2>2. t \in ToSet(in_q[w]) <=> t = u
    BY <2>1, <1>1, ShortSets
  <2>3. t \notin ToSet(feedback[w])
    BY <2>1, ShortSets
  <2>4. Working(w, t) => t = u
    <3> SUFFICES ASSUME Working(w, t) PROVE t = u
      OBVIOUS
    <3>1. in_q[w] \in {<<t>>, <<t, GO_OUT>>}
      BY DEF Working
    <3>2. t \in ToSet(in_q[w])
      BY <3>1, ShortSets
    <3> QED
      BY <3>2, <2>2
  <2>5. ~Finished(w, t)
    BY <2>1 DEF Finished
  <2> QED
    BY <2>2, <2>3, <2>4, <2>5, <1>4
<1>5. ASSUME NEW u \in Task, Finished(w, u)
      PROVE  /\ t \in ToSet(in_q[w]) <=> FALSE
             /\ t \in ToSet(feedback[w]) <=> t = u
             /\ Finished(w, t) <=> t = u
             /\ ~Working(w, t)
  <2>1. in_q[w] = Orders(w) /\ feedback[w] = <<u>>
    BY <1>5 DEF Finished
  <2>2. t \notin ToSet(in_q[w])
    BY <2>1, <1>1, <1>2
  <2>3. t \in ToSet(feedback[w]) <=> t = u
    BY <2>1, ShortSets
  <2>4. Finished(w, t) => t = u
    <3> SUFFICES ASSUME Finished(w, t) PROVE t = u
      OBVIOUS
    <3>1. feedback[w] = <<t>>
      BY DEF Finished
    <3>2. t \in ToSet(feedback[w])
      BY <3>1, ShortSets
    <3> QED
      BY <3>2, <2>3
  <2>5. ~Working(w, t)
    BY <2>1 DEF Working
  <2> QED
    BY <2>2, <2>3, <2>4, <2>5, <1>5
<1>6. Idle(w) \/ \E u \in Task : Working(w, u) \/ Finished(w, u)
  BY DEF IInv, WorkersInv, Has
<1> QED
  BY <1>3, <1>4, <1>5, <1>6

\* A worker has at most one task, and none when it is ready.
LEMMA OneTask ==
    ASSUME IInv
    PROVE  /\ IsFiniteSet(Tasks)
           /\ \A a \in Tasks : /\ a[1] \in Worker /\ a[2] \in Task /\ a = <<a[1], a[2]>>
                               /\ Has(a[1], a[2]) /\ a[1] \notin workerReady
           /\ \A w \in Worker : \A t \in Task : <<w, t>> \in Tasks <=> Has(w, t)
           /\ \A a, b \in Tasks : a[1] = b[1] => a = b
<1>1. \A a \in Tasks : a[1] \in Worker /\ a[2] \in Task /\ a = <<a[1], a[2]>>
  BY DEF Tasks, TasksIn
<1>2. \A w \in Worker : \A t \in Task : <<w, t>> \in Tasks <=> Has(w, t)
  BY ChannelTasks DEF Tasks, TasksIn, Has
<1>3. \A w \in Worker : \A t \in Task : Has(w, t) => w \notin workerReady
  BY DEF Has, Working, Finished
<1>4. \A a \in Tasks : Has(a[1], a[2]) /\ a[1] \notin workerReady
  BY <1>1, <1>2, <1>3
<1>5. ASSUME NEW w \in Worker, NEW t \in Task, NEW u \in Task, Has(w, t), Has(w, u)
      PROVE  t = u
  <2>1. CASE Working(w, t)
    <3>1. feedback[w] = <<>> /\ in_q[w] \in {<<t>>, <<t, GO_OUT>>}
      BY <2>1 DEF Working
    <3>2. Working(w, u)
      BY <3>1, <1>5 DEF Has, Finished
    <3>3. u \in ToSet(in_q[w])
      BY <3>2, ChannelTasks
    <3>4. u # GO_OUT
      BY DEF Task, GO_OUT
    <3> QED
      BY <3>1, <3>3, <3>4, ShortSets
  <2>2. CASE Finished(w, t)
    <3>1. feedback[w] = <<t>>
      BY <2>2 DEF Finished
    <3>2. Finished(w, u)
      BY <3>1, <1>5 DEF Has, Working
    <3>3. u \in ToSet(feedback[w])
      BY <3>2, ChannelTasks
    <3> QED
      BY <3>1, <3>3, ShortSets
  <2> QED
    BY <2>1, <2>2, <1>5 DEF Has
<1>6. \A a, b \in Tasks : a[1] = b[1] => a = b
  BY <1>1, <1>4, <1>5
<1>7. IsFiniteSet(Tasks)
  <2> DEFINE f == [a \in Tasks |-> a[1]]
  <2>1. f \in Injection(Tasks, Worker)
    <3>1. f \in [Tasks -> Worker]
      BY <1>1
    <3>2. \A a, b \in Tasks : f[a] = f[b] => a = b
      BY <1>6
    <3> QED
      BY <3>1, <3>2 DEF Injection, IsInjective
  <2>2. IsFiniteSet(Worker)
    BY WLQAssumption, Below DEF Worker
  <2> QED
    BY <2>1, <2>2, FS_Injection
<1> QED
  BY <1>1, <1>2, <1>4, <1>6, <1>7

-----------------------------------------------------------------------------
(* The scheduling of tasks                                                 *)

\* toFinalize tells whether one task is left of a window whose panes all come.
LEMMA Finalizable ==
    ASSUME NEW k \in Window, NEW later, NEW known, StreamInv(later, known),
           NEW ins \in [Window -> [LocalPane -> Int]], Counted(ins, known),
           NEW com \in Int
    PROVE  /\ ToFinalize(ins[k], com) => Complete(k) /\ Cardinality(All(k)) = com + 1
           /\ Complete(k) /\ Came(k, later) = All(k) /\ ~ToFinalize(ins[k], com)
                 => Cardinality(All(k)) # com + 1
<1>1. /\ sp \in Nat /\ wp \in Nat \ {0} /\ MaxPane \in Nat /\ k \in Nat /\ sp * k \in Nat
      /\ total \in Totals /\ known \subseteq Pane
  BY WLQAssumption, MaxWindowAssumption DEF StreamInv, Window
<1>2. ASSUME \A i \in LocalPane : ins[k][i] # UNKNOWN
      PROVE  Complete(k) /\ SumFunction(ins[k]) = Cardinality(All(k))
  <2>1. \A i \in LocalPane : sp * k + i \in known /\ ins[k][i] = total[sp * k + i]
    BY <1>2 DEF Counted
  <2>2. Complete(k)
    <3>1. wp - 1 \in LocalPane
      BY <1>1 DEF LocalPane
    <3>2. sp * k + (wp - 1) \in Pane
      BY <1>1, <2>1, <3>1
    <3> QED
      BY <1>1, <3>2 DEF Complete, Pane
  <2>3. ins[k] = [i \in LocalPane |-> total[sp * k + i]]
    <3> DEFINE L == LocalPane
               f == ins[k]
    <3>1. f \in [L -> Int]
      OBVIOUS
    <3>2. \A i \in L : f[i] = total[sp * k + i]
      BY <2>1
    <3> HIDE DEF L, f
    <3>3. f = [i \in L |-> total[sp * k + i]]
      BY <3>1, <3>2
    <3> QED
      BY <3>3 DEF L, f
  <2> QED
    BY <1>1, <2>2, <2>3, AllCounted
<1>3. ASSUME Complete(k), Came(k, later) = All(k), NEW i \in LocalPane
      PROVE  ins[k][i] # UNKNOWN
  <2> DEFINE p == sp * k + i
  <2>1. p \in Pane /\ p \in Nat /\ sp * k <= p /\ p <= sp * k + wp - 1
    BY <1>1, <1>3 DEF Complete, LocalPane, Pane
  <2>2. k \in WindowsOf(p)
    BY <2>1, WindowsOfPane
  <2>3. p \in known
    <3> SUFFICES ASSUME p \notin known PROVE FALSE
      OBVIOUS
    <3>1. PICK x \in later : x[1] = p /\ x \in Partition /\ x[2] <= total[x[1]]
      BY <2>1 DEF StreamInv
    <3>2. x \in All(k)
      BY <2>2, <3>1 DEF All
    <3> QED
      BY <1>3, <3>2 DEF Came
  <2> QED
    BY <2>3 DEF Counted
<1> QED
  BY <1>2, <1>3 DEF ToFinalize

\* Concatenation with a sequence of length one.
LEMMA ConcatOne ==
    ASSUME NEW S, NEW q \in Seq(S), NEW t \in S
    PROVE  ToSet(q \o <<t>>) = ToSet(q) \cup {t}
<1>1. q \o <<t>> = Append(q, t)
  BY AppendIsConcat
<1>2. ToSet(Append(q, t)) = ToSet(q) \cup {t}
  BY AppendToSet
<1> QED
  BY <1>1, <1>2, Zenon

\* The updates and the merges that were given, each with its worker.
UpdatesTo(e, upd, up) == {<<up[k], UpdateOf(e, k)>> : k \in upd}
MergesTo(e, mrg, mg)  == {<<mg[k], MergeOf(e, k)>> : k \in mrg}

\* The tasks that the workers have then.
Given(e, s, upd, mrg, up, mg) ==
    \A back : TasksIn(s.q, back) = TasksIn(in_q, back) \cup UpdatesTo(e, upd, up)
                                     \cup MergesTo(TakeUpdates(e, upd), mrg, mg)

\* The tasks that are given to the ready workers.
LEMMA GivenTasks ==
    ASSUME in_q \in [Worker -> Seq(Message)], NEW e \in EmitterState, NEW s,
           NEW idle \in SUBSET Worker, NEW upd \in SUBSET Window,
           NEW mrg \in SUBSET Window, NEW up, NEW mg,
           Scheduled(e, s, idle, upd, mrg, up, mg)
    PROVE  Given(e, s, upd, mrg, up, mg)
<1> SUFFICES ASSUME NEW back
             PROVE  TasksIn(s.q, back) = TasksIn(in_q, back) \cup UpdatesTo(e, upd, up)
                                           \cup MergesTo(TakeUpdates(e, upd), mrg, mg)
  BY DEF Given
<1> DEFINE u == TakeUpdates(e, upd)
<1>1. /\ up \in [upd -> idle] /\ mg \in [mrg -> idle]
      /\ \A j, k \in upd : up[j] = up[k] => j = k
      /\ \A j, k \in mrg : mg[j] = mg[k] => j = k
      /\ \A j \in upd, k \in mrg : up[j] # mg[k]
      /\ \A k \in upd : /\ UpdateOf(e, k) \in Task
                        /\ s.q[up[k]] = in_q[up[k]] \o <<UpdateOf(e, k)>>
      /\ \A k \in mrg : /\ MergeOf(u, k) \in Task
                        /\ s.q[mg[k]] = in_q[mg[k]] \o <<MergeOf(u, k)>>
      /\ \A w \in Worker : (~\E k \in upd : w = up[k]) /\ (~\E k \in mrg : w = mg[k])
                           => s.q[w] = in_q[w]
  BY DEF Scheduled
<1> HIDE DEF u
<1>2. ASSUME NEW k \in upd
      PROVE  ToSet(s.q[up[k]]) = ToSet(in_q[up[k]]) \cup {UpdateOf(e, k)}
  <2>1. in_q[up[k]] \in Seq(Message) /\ UpdateOf(e, k) \in Message
    BY <1>1 DEF Message
  <2>2. ToSet(in_q[up[k]] \o <<UpdateOf(e, k)>>) = ToSet(in_q[up[k]]) \cup {UpdateOf(e, k)}
    BY <2>1, ConcatOne
  <2> QED
    BY <1>1, <2>2, Zenon
<1>3. ASSUME NEW k \in mrg
      PROVE  ToSet(s.q[mg[k]]) = ToSet(in_q[mg[k]]) \cup {MergeOf(u, k)}
  <2>1. in_q[mg[k]] \in Seq(Message) /\ MergeOf(u, k) \in Message
    BY <1>1 DEF Message
  <2>2. ToSet(in_q[mg[k]] \o <<MergeOf(u, k)>>) = ToSet(in_q[mg[k]]) \cup {MergeOf(u, k)}
    BY <2>1, ConcatOne
  <2> QED
    BY <1>1, <2>2, Zenon
<1>4. ASSUME NEW w \in Worker, NEW t \in Task
      PROVE  <<w, t>> \in TasksIn(s.q, back) <=>
               <<w, t>> \in TasksIn(in_q, back) \cup UpdatesTo(e, upd, up)
                              \cup MergesTo(u, mrg, mg)
  <2>1. CASE \E k \in upd : w = up[k]
    <3>1. PICK k \in upd : w = up[k]
      BY <2>1
    <3>2. <<w, t>> \in UpdatesTo(e, upd, up) <=> t = UpdateOf(e, k)
      BY <3>1, <1>1 DEF UpdatesTo
    <3>3. <<w, t>> \notin MergesTo(u, mrg, mg)
      BY <3>1, <1>1 DEF MergesTo
    <3>4. ToSet(s.q[w]) = ToSet(in_q[w]) \cup {UpdateOf(e, k)}
      BY <3>1, <1>2
    <3> QED
      BY <3>2, <3>3, <3>4 DEF TasksIn
  <2>2. CASE \E k \in mrg : w = mg[k]
    <3>1. PICK k \in mrg : w = mg[k]
      BY <2>2
    <3>2. <<w, t>> \in MergesTo(u, mrg, mg) <=> t = MergeOf(u, k)
      BY <3>1, <1>1 DEF MergesTo
    <3>3. <<w, t>> \notin UpdatesTo(e, upd, up)
      BY <3>1, <1>1 DEF UpdatesTo
    <3>4. ToSet(s.q[w]) = ToSet(in_q[w]) \cup {MergeOf(u, k)}
      BY <3>1, <1>3
    <3> QED
      BY <3>2, <3>3, <3>4 DEF TasksIn
  <2>3. CASE (~\E k \in upd : w = up[k]) /\ (~\E k \in mrg : w = mg[k])
    <3>1. s.q[w] = in_q[w]
      BY <2>3, <1>1
    <3>2. <<w, t>> \notin UpdatesTo(e, upd, up) /\ <<w, t>> \notin MergesTo(u, mrg, mg)
      BY <2>3 DEF UpdatesTo, MergesTo
    <3> QED
      BY <3>1, <3>2 DEF TasksIn
  <2> QED
    BY <2>1, <2>2, <2>3
<1>5. /\ TasksIn(s.q, back) \subseteq Worker \X Task
      /\ TasksIn(in_q, back) \subseteq Worker \X Task
      /\ UpdatesTo(e, upd, up) \subseteq Worker \X Task
      /\ MergesTo(u, mrg, mg) \subseteq Worker \X Task
  <2>1. /\ TasksIn(s.q, back) \subseteq Worker \X Task
        /\ TasksIn(in_q, back) \subseteq Worker \X Task
    BY DEF TasksIn
  <2>2. /\ \A k \in upd : <<up[k], UpdateOf(e, k)>> \in Worker \X Task
        /\ \A k \in mrg : <<mg[k], MergeOf(u, k)>> \in Worker \X Task
    BY <1>1
  <2>3. UpdatesTo(e, upd, up) \subseteq Worker \X Task
    BY <2>2 DEF UpdatesTo
  <2>4. MergesTo(u, mrg, mg) \subseteq Worker \X Task
    BY <2>2 DEF MergesTo
  <2> QED
    BY <2>1, <2>3, <2>4
<1>6. TasksIn(s.q, back) = TasksIn(in_q, back) \cup UpdatesTo(e, upd, up)
                              \cup MergesTo(u, mrg, mg)
  BY <1>4, <1>5
<1> QED
  BY <1>6 DEF u

\* The merges among the tasks when updates or merges are given.
LEMMA UpdatesAreNoMerges ==
    ASSUME NEW H, NEW W, NEW to, NEW e
    PROVE  Merges(H \cup UpdatesTo(e, W, to)) = Merges(H)
<1>1. \A j : UpdateOf(e, j).type = "WIN_UPDATE"
  BY DEF UpdateOf, UpdateTask
<1> QED
  BY <1>1 DEF Merges, UpdatesTo

\* The merges among the tasks when merges are given to workers.
LEMMA MergesAreMerges ==
    ASSUME NEW H, NEW W, NEW to, NEW e
    PROVE  Merges(H \cup MergesTo(e, W, to)) = Merges(H) \cup MergesTo(e, W, to)
<1>1. \A j : MergeOf(e, j).type = "MERGE"
  BY DEF MergeOf, MergeTask
<1> QED
  BY <1>1 DEF Merges, MergesTo

\* The image of some windows under an injection.
LEMMA ImageCount ==
    ASSUME NEW W \in SUBSET Window, NEW S, NEW f \in [W -> S],
           \A j, k \in W : f[j] = f[k] => j = k, \A x \in S : \E k \in W : f[k] = x
    PROVE  /\ IsFiniteSet(S) /\ Cardinality(S) = Cardinality(W)
           /\ IsFiniteSet(W) /\ Cardinality(W) \in Nat
<1>1. IsFiniteSet(W) /\ Cardinality(W) \in Nat
  BY WindowRank, FS_CardinalityType
<1>2. f \in Bijection(W, S)
  BY DEF Bijection, Injection, IsInjective, Surjection
<1> QED
  BY <1>1, <1>2, FS_Bijection DEF ExistsBijection

\* How many merges are given to workers.
LEMMA GivenCount ==
    ASSUME NEW W \in SUBSET Window, NEW e, NEW to, \A j, k \in W : to[j] = to[k] => j = k
    PROVE  /\ IsFiniteSet(UpdatesTo(e, W, to))
           /\ IsFiniteSet(MergesTo(e, W, to))
           /\ Cardinality(MergesTo(e, W, to)) = Cardinality(W)
           /\ IsFiniteSet(W) /\ Cardinality(W) \in Nat
<1>1. IsFiniteSet(UpdatesTo(e, W, to)) /\ IsFiniteSet(W) /\ Cardinality(W) \in Nat
  <2> DEFINE S == UpdatesTo(e, W, to)
             f == [k \in W |-> <<to[k], UpdateOf(e, k)>>]
  <2>1. /\ f \in [W -> S] /\ \A j, k \in W : f[j] = f[k] => j = k
        /\ \A x \in S : \E k \in W : f[k] = x
    BY DEF UpdatesTo
  <2> HIDE DEF S, f
  <2>2. IsFiniteSet(S) /\ IsFiniteSet(W) /\ Cardinality(W) \in Nat
    BY <2>1, ImageCount
  <2> QED
    BY <2>2 DEF S
<1>2. IsFiniteSet(MergesTo(e, W, to)) /\ Cardinality(MergesTo(e, W, to)) = Cardinality(W)
  <2> DEFINE S == MergesTo(e, W, to)
             f == [k \in W |-> <<to[k], MergeOf(e, k)>>]
  <2>1. /\ f \in [W -> S] /\ \A j, k \in W : f[j] = f[k] => j = k
        /\ \A x \in S : \E k \in W : f[k] = x
    BY DEF MergesTo
  <2> HIDE DEF S, f
  <2>2. IsFiniteSet(S) /\ Cardinality(S) = Cardinality(W)
    BY <2>1, ImageCount
  <2> QED
    BY <2>2 DEF S
<1> QED
  BY <1>1, <1>2

\* The updates of some windows that are not busy are taken.
LEMMA UpdatesStep ==
    ASSUME NEW e \in EmitterState, NEW H, NEW later, NEW known, NEW end1 \in Int, NEW res,
           StreamInv(later, known), Counted(e.ins, known), \A k \in e.open : k < end1,
           Windows(e, H, later, end1, res), Pending(e, H),
           NEW upd \in SUBSET Window, upd \subseteq Updatable(e),
           NEW up, \A j, k \in upd : up[j] = up[k] => j = k,
           \A a \in H : \A k \in upd : a[1] # up[k],
           TakeUpdates(e, upd) \in EmitterState
    PROVE  /\ Windows(TakeUpdates(e, upd), H \cup UpdatesTo(e, upd, up), later, end1, res)
           /\ Pending(TakeUpdates(e, upd), H \cup UpdatesTo(e, upd, up))
<1> DEFINE G == H \cup UpdatesTo(e, upd, up)
           pending2 == [k \in Window |->
                          IF k \in upd THEN Front(e.pending[k]) ELSE e.pending[k]]
           busy2 == [k \in Window |-> e.busy[k] \/ k \in upd]
           open2 == {k \in e.open : k \in upd => ~ToFinalize(e.ins[k], e.com[k])}
<1>1. PICK u \in EmitterState : u = TakeUpdates(e, upd)
  BY Zenon
<1>2. /\ u.open = open2 /\ u.busy = busy2 /\ u.pending = pending2 /\ u.com = e.com
      /\ u.npend = e.npend - Cardinality(upd)
  BY <1>1 DEF TakeUpdates, EmitterState
<1>3. /\ e.ins \in [Window -> [LocalPane -> Int]] /\ e.com \in [Window -> Int]
      /\ e.busy \in [Window -> BOOLEAN] /\ e.open \in SUBSET Window /\ e.npend \in Int
      /\ e.pending \in [Window -> Seq(SUBSET Partition)]
  BY DEF EmitterState
<1>4. \A k \in upd : k \in e.open /\ ~e.busy[k] /\ e.pending[k] # <<>>
  BY DEF Updatable
<1>5. ASSUME NEW k
      PROVE  /\ k \in upd => Of(G, k) = Of(H, k) \cup {<<up[k], UpdateOf(e, k)>>}
             /\ k \notin upd => Of(G, k) = Of(H, k)
  <2>1. \A j : UpdateOf(e, j).win_id = j
    BY DEF UpdateOf, UpdateTask
  <2> QED
    BY <2>1 DEF Of, UpdatesTo
<1>6. ASSUME NEW k \in Window, k \notin upd
      PROVE  WindowInv(k, Stage(u.open, end1, k), u.busy[k], u.pending[k], u.com[k],
                       Came(k, later), res[k], Of(G, k))
  <2>1. /\ Stage(u.open, end1, k) = Stage(e.open, end1, k)
        /\ u.busy[k] = e.busy[k] /\ u.pending[k] = e.pending[k] /\ u.com[k] = e.com[k]
    BY <1>2, <1>3, <1>6 DEF Stage
  <2>2. Of(G, k) = Of(H, k)
    BY <1>5, <1>6
  <2> HIDE DEF G
  <2> QED
    BY <2>1, <2>2 DEF Windows
<1>7. ASSUME NEW k \in upd
      PROVE  WindowInv(k, Stage(u.open, end1, k), u.busy[k], u.pending[k], u.com[k],
                       Came(k, later), res[k], Of(G, k))
  <2> DEFINE final == ToFinalize(e.ins[k], e.com[k])
             a == <<up[k], UpdateOf(e, k)>>
             queue == e.pending[k]
  <2>1. k \in Window /\ k \in e.open /\ e.busy[k] = FALSE /\ queue # <<>> /\ k < end1
    BY <1>3, <1>4
  <2>2. WindowInv(k, "open", FALSE, queue, e.com[k], Came(k, later), res[k], Of(H, k))
    BY <2>1 DEF Windows, Stage
  <2>3. /\ final \in BOOLEAN
        /\ final => Complete(k) /\ Cardinality(All(k)) = e.com[k] + 1
        /\ Complete(k) /\ Came(k, later) = All(k) /\ ~final
              => Cardinality(All(k)) # e.com[k] + 1
    <3>1. final \in BOOLEAN
      BY DEF ToFinalize
    <3>2. k \in Window /\ e.com[k] \in Int
      BY <2>1, <1>3
    <3> QED
      BY <1>3, <3>1, <3>2, Finalizable
  <2>4. a \notin Of(H, k) /\ a[2] = UpdateTask(k, Last(queue), final)
    BY DEF Of, UpdateOf
  <2>5. /\ u.busy[k] = TRUE /\ u.pending[k] = Front(queue) /\ u.com[k] = e.com[k]
        /\ Stage(u.open, end1, k) = IF final THEN "closed" ELSE "open"
    <3>1. u.busy[k]
      BY <2>1, <1>2
    <3>2. u.busy[k] \in BOOLEAN
      BY <2>1 DEF EmitterState
    <3>3. u.busy[k] = TRUE
      BY <3>1, <3>2
    <3>4. u.pending[k] = Front(queue) /\ u.com[k] = e.com[k]
      BY <2>1, <1>2
    <3>5. k \in u.open <=> ~final
      BY <2>1, <1>2
    <3>6. ~(k >= end1)
      BY <2>1, MaxWindowAssumption DEF Window
    <3>7. Stage(u.open, end1, k) = IF final THEN "closed" ELSE "open"
      <4> HIDE DEF final
      <4> QED
        BY <3>5, <3>6 DEF Stage
    <3> QED
      BY <3>3, <3>4, <3>7
  <2>6. Of(G, k) = Of(H, k) \cup {a}
    BY <1>5
  <2> HIDE DEF final, a, queue, G
  <2>7. WindowInv(k, IF final THEN "closed" ELSE "open", TRUE, Front(queue), e.com[k],
                  Came(k, later), res[k], Of(H, k) \cup {a})
    BY <2>1, <2>2, <2>3, <2>4, WindowUpdate
  <2> QED
    BY <2>5, <2>6, <2>7
<1>8. Windows(u, G, later, end1, res)
  BY <1>6, <1>7 DEF Windows
<1>9. IsFiniteSet(G) /\ Cardinality(upd) \in Nat
  <2>1. IsFiniteSet(UpdatesTo(e, upd, up)) /\ Cardinality(upd) \in Nat
    BY GivenCount
  <2>2. IsFiniteSet(H)
    BY DEF Pending
  <2> QED
    BY <2>1, <2>2, FS_Union
<1>10. u.npend = SumFunction([k \in Window |-> Len(u.pending[k])]) + Cardinality(Merges(G))
  <2> DEFINE f == [k \in Window |-> Len(e.pending[k])]
             g == [k \in Window |-> Len(u.pending[k])]
  <2>1. f \in [Window -> Nat] /\ g \in [Window -> Nat]
    BY <1>3, LenProperties DEF EmitterState
  <2>2. ASSUME NEW k \in Window PROVE f[k] = IF k \in upd THEN g[k] + 1 ELSE g[k]
    <3>1. CASE k \in upd
      <4>1. WindowInv(k, "open", FALSE, e.pending[k], e.com[k], Came(k, later), res[k], Of(H, k))
        BY <3>1, <1>3, <1>4 DEF Windows, Stage
      <4>2. e.pending[k] \in Seq(SUBSET Partition) /\ Separate(e.pending[k])
            /\ e.pending[k] # <<>>
        BY <4>1, <3>1, <1>4 DEF WindowInv, Accounted
      <4>3. Len(e.pending[k]) = Len(Front(e.pending[k])) + 1
        BY <4>2, SeparateLast
      <4> QED
        BY <4>3, <3>1, <1>2
    <3>2. CASE k \notin upd
      BY <3>2, <1>2
    <3> QED
      BY <3>1, <3>2
  <2>3. IsFiniteSet(Window)
    BY MaxWindowAssumption, FS_Interval DEF Window
  <2> HIDE DEF f, g
  <2>4. /\ SumFunction(f) = SumFunction(g) + Cardinality(upd)
        /\ SumFunction(f) \in Nat /\ SumFunction(g) \in Nat
    BY <2>1, <2>2, <2>3, SumOneMore
  <2>5. e.npend = SumFunction(f) + Cardinality(Merges(H)) /\ IsFiniteSet(Merges(H))
    BY FS_Subset DEF Pending, f, Merges
  <2>6. Merges(G) = Merges(H) /\ Cardinality(Merges(H)) \in Nat
    <3>1. Merges(G) = Merges(H)
      BY UpdatesAreNoMerges
    <3> QED
      BY <3>1, <2>5, FS_CardinalityType
  <2>7. u.npend = SumFunction(g) + Cardinality(Merges(G))
    BY <2>4, <2>5, <2>6, <1>2, <1>9
  <2> QED
    BY <2>7 DEF g
<1> QED
  BY <1>1, <1>8, <1>9, <1>10 DEF Pending

\* The sum over the windows when those of T have one more, or two more.
LEMMA SumTwoMore ==
    ASSUME NEW T \in SUBSET Window, NEW f \in [Window -> Nat], NEW g \in [Window -> Nat],
           NEW n \in {1, 2},
           \A k \in Window : f[k] = IF k \in T THEN g[k] + n ELSE g[k]
    PROVE  /\ SumFunction(f) = SumFunction(g) + n * Cardinality(T)
           /\ SumFunction(f) \in Nat /\ SumFunction(g) \in Nat
<1> DEFINE h == [k \in Window |-> IF k \in T THEN g[k] + 1 ELSE g[k]]
<1>1. IsFiniteSet(Window) /\ Cardinality(T) \in Nat
  <2>1. IsFiniteSet(Window)
    BY MaxWindowAssumption, FS_Interval DEF Window
  <2>2. Cardinality(T) \in Nat
    BY RankOrder
  <2> QED
    BY <2>1, <2>2
<1>2. h \in [Window -> Nat] /\ \A k \in Window : h[k] = IF k \in T THEN g[k] + 1 ELSE g[k]
  OBVIOUS
<1>3. n = 2 => \A k \in Window : f[k] = IF k \in T THEN h[k] + 1 ELSE h[k]
  OBVIOUS
<1>4. n = 1 => \A k \in Window : f[k] = IF k \in T THEN g[k] + 1 ELSE g[k]
  OBVIOUS
<1> HIDE DEF h
<1>5. SumFunction(h) = SumFunction(g) + Cardinality(T) /\ SumFunction(g) \in Nat
  BY <1>1, <1>2, SumOneMore
<1>6. CASE n = 1
  BY <1>1, <1>4, <1>6, SumOneMore
<1>7. CASE n = 2
  <2>1. SumFunction(f) = SumFunction(h) + Cardinality(T) /\ SumFunction(f) \in Nat
    BY <1>1, <1>2, <1>3, <1>7, SumOneMore
  <2> QED
    BY <2>1, <1>1, <1>5, <1>7
<1> QED
  BY <1>6, <1>7

\* Merges of some windows with two results sets or more are taken.
LEMMA MergesStep ==
    ASSUME NEW e \in EmitterState, NEW H, NEW later, NEW end1 \in Int, NEW res,
           \A k \in e.open : k < end1,
           Windows(e, H, later, end1, res), Pending(e, H),
           NEW mrg \in SUBSET Window, \A k \in mrg : k \in e.open /\ Len(e.pending[k]) > 1,
           NEW mg, \A j, k \in mrg : mg[j] = mg[k] => j = k,
           \A a \in H : \A k \in mrg : a[1] # mg[k],
           NEW s, s.open = e.open, s.busy = e.busy, s.com = e.com,
           s.pending = TakeMerges(e, mrg).pending, s.npend = TakeMerges(e, mrg).npend,
           s \in EmitterState
    PROVE  /\ Windows(s, H \cup MergesTo(e, mrg, mg), later, end1, res)
           /\ Pending(s, H \cup MergesTo(e, mrg, mg))
<1> DEFINE G == H \cup MergesTo(e, mrg, mg)
           pending2 == [k \in Window |->
                          IF k \in mrg THEN Front(Front(e.pending[k])) ELSE e.pending[k]]
<1>1. s.pending = pending2 /\ s.npend = e.npend - Cardinality(mrg)
  BY DEF TakeMerges, EmitterState
<1>2. /\ e.open \in SUBSET Window /\ e.npend \in Int
      /\ e.pending \in [Window -> Seq(SUBSET Partition)]
  BY DEF EmitterState
<1>3. ASSUME NEW k
      PROVE  /\ k \in mrg => Of(G, k) = Of(H, k) \cup {<<mg[k], MergeOf(e, k)>>}
             /\ k \notin mrg => Of(G, k) = Of(H, k)
  <2>1. \A j : MergeOf(e, j).win_id = j
    BY DEF MergeOf, MergeTask
  <2> QED
    BY <2>1 DEF Of, MergesTo
<1>4. ASSUME NEW k \in Window
      PROVE  /\ Stage(s.open, end1, k) = Stage(e.open, end1, k)
             /\ s.busy[k] = e.busy[k] /\ s.com[k] = e.com[k]
  BY DEF Stage
<1>5. ASSUME NEW k \in mrg
      PROVE  /\ k \in Window
             /\ WindowInv(k, "open", e.busy[k], e.pending[k], e.com[k], Came(k, later),
                          res[k], Of(H, k))
             /\ Stage(e.open, end1, k) = "open"
             /\ Len(e.pending[k]) > 1
  BY DEF Windows, Stage
<1>6. ASSUME NEW k \in Window, k \notin mrg
      PROVE  WindowInv(k, Stage(s.open, end1, k), s.busy[k], s.pending[k], s.com[k],
                       Came(k, later), res[k], Of(G, k))
  <2>1. s.pending[k] = e.pending[k] /\ Of(G, k) = Of(H, k)
    BY <1>1, <1>3, <1>6
  <2> HIDE DEF G
  <2> QED
    BY <2>1, <1>4 DEF Windows
<1>7. ASSUME NEW k \in mrg
      PROVE  WindowInv(k, Stage(s.open, end1, k), s.busy[k], s.pending[k], s.com[k],
                       Came(k, later), res[k], Of(G, k))
  <2> DEFINE a == <<mg[k], MergeOf(e, k)>>
             queue == e.pending[k]
  <2>1. a \notin Of(H, k) /\ a[2] = MergeTask(k, Last(queue), Last(Front(queue)))
    BY DEF Of, MergeOf
  <2>2. s.pending[k] = Front(Front(queue)) /\ Of(G, k) = Of(H, k) \cup {a}
    BY <1>1, <1>3
  <2>3. /\ k \in Window /\ Len(queue) > 1 /\ Stage(s.open, end1, k) = "open"
        /\ s.busy[k] = e.busy[k] /\ s.com[k] = e.com[k]
        /\ WindowInv(k, "open", s.busy[k], queue, s.com[k], Came(k, later), res[k], Of(H, k))
    <3> HIDE DEF G
    <3> QED
      BY <1>4, <1>5
  <2> HIDE DEF a, queue, G
  <2>4. WindowInv(k, "open", s.busy[k], Front(Front(queue)), s.com[k],
                  Came(k, later), res[k], Of(H, k) \cup {a})
    BY <2>1, <2>3, WindowMerge
  <2> QED
    BY <2>2, <2>3, <2>4
<1>8. Windows(s, G, later, end1, res)
  BY <1>6, <1>7 DEF Windows
<1>9. /\ IsFiniteSet(G) /\ Cardinality(mrg) \in Nat /\ IsFiniteSet(Merges(H))
      /\ Cardinality(Merges(H)) \in Nat
      /\ Cardinality(Merges(G)) = Cardinality(Merges(H)) + Cardinality(mrg)
  <2> DEFINE M == MergesTo(e, mrg, mg)
  <2>1. IsFiniteSet(M) /\ Cardinality(M) = Cardinality(mrg) /\ Cardinality(mrg) \in Nat
    BY GivenCount
  <2>2. IsFiniteSet(H) /\ IsFiniteSet(Merges(H)) /\ Cardinality(Merges(H)) \in Nat
    BY FS_Subset, FS_CardinalityType DEF Pending, Merges
  <2>3. Merges(G) = Merges(H) \cup M
    BY MergesAreMerges
  <2>4. Merges(H) \cap M = {}
    BY DEF Merges, MergesTo
  <2> HIDE DEF M
  <2>5. Cardinality(Merges(H) \cup M) = Cardinality(Merges(H)) + Cardinality(M)
    <3>1. Cardinality(Merges(H) \cup M) = Cardinality(Merges(H)) + Cardinality(M)
                                            - Cardinality(Merges(H) \cap M)
      BY <2>1, <2>2, FS_Union
    <3>2. Cardinality(Merges(H) \cap M) = 0
      BY <2>4, FS_EmptySet
    <3> QED
      BY <3>1, <3>2, <2>1, <2>2
  <2>6. IsFiniteSet(G)
    BY <2>1, <2>2, FS_Union DEF M
  <2> HIDE DEF G
  <2> QED
    BY <2>1, <2>2, <2>3, <2>5, <2>6
<1>10. s.npend = SumFunction([k \in Window |-> Len(s.pending[k])]) + Cardinality(Merges(G))
  <2> DEFINE f == [k \in Window |-> Len(e.pending[k])]
             g == [k \in Window |-> Len(s.pending[k])]
  <2>1. \A k \in Window : Len(e.pending[k]) \in Nat /\ Len(s.pending[k]) \in Nat
    BY LenProperties DEF EmitterState
  <2>2. f \in [Window -> Nat] /\ g \in [Window -> Nat]
    BY <2>1
  <2>3. ASSUME NEW k \in Window PROVE f[k] = IF k \in mrg THEN g[k] + 2 ELSE g[k]
    <3>1. CASE k \in mrg
      <4>1. e.pending[k] \in Seq(SUBSET Partition) /\ Separate(e.pending[k])
            /\ Len(e.pending[k]) > 1
        BY <3>1, <1>5 DEF WindowInv, Accounted
      <4>2. PICK q : q = e.pending[k]
        OBVIOUS
      <4>3. q # <<>>
        BY <4>1, <4>2, EmptySeq
      <4>4. /\ Len(q) = Len(Front(q)) + 1 /\ Front(q) \in Seq(SUBSET Partition)
            /\ Separate(Front(q))
        <5>1. q \in Seq(SUBSET Partition) /\ Separate(q)
          BY <4>1, <4>2
        <5> QED
          BY ONLY <4>3, <5>1, SeparateLast
      <4>5. Front(q) # <<>> /\ Len(Front(q)) \in Nat
        BY <4>1, <4>2, <4>4, EmptySeq, LenProperties
      <4>6. Len(Front(q)) = Len(Front(Front(q))) + 1
        BY ONLY <4>4, <4>5, SeparateLast
      <4>7. s.pending[k] = Front(Front(q))
        BY <3>1, <4>2, <1>1
      <4>8. g[k] = Len(Front(Front(q))) /\ f[k] = Len(q)
        BY <3>1, <4>2, <4>7
      <4>9. g[k] \in Nat
        BY <2>2
      <4> HIDE DEF f, g
      <4> QED
        BY <3>1, <4>4, <4>5, <4>6, <4>8, <4>9
    <3>2. CASE k \notin mrg
      BY <3>2, <1>1
    <3> QED
      BY <3>1, <3>2
  <2> HIDE DEF f, g
  <2>4. \A k \in Window : f[k] = IF k \in mrg THEN g[k] + 2 ELSE g[k]
    BY <2>3
  <2> HIDE DEF G, pending2
  <2>5. /\ SumFunction(f) = SumFunction(g) + 2 * Cardinality(mrg)
        /\ SumFunction(f) \in Nat /\ SumFunction(g) \in Nat
    BY ONLY mrg \in SUBSET Window, <2>2, <2>4, SumTwoMore
  <2>6. e.npend = SumFunction(f) + Cardinality(Merges(H))
    BY DEF Pending, f
  <2>7. s.npend = SumFunction(g) + Cardinality(Merges(G))
    BY <2>5, <2>6, <1>1, <1>9
  <2> QED
    BY <2>7 DEF g
<1> QED
  BY <1>8, <1>9, <1>10 DEF Pending

-----------------------------------------------------------------------------
(* The invariant of the stage and its steps                                *)

\* The invariant, for fields e of the emitter, tasks H, partitions later still
\* to come, announced panes known, end1 for end_win and results sets res.
Core(e, H, later, known, end1, res) ==
    /\ StreamInv(later, known)
    /\ Counted(e.ins, known)
    /\ end1 \in 0..(MaxWindow + 1) /\ \A k \in e.open : k < end1
    /\ Windows(e, H, later, end1, res)
    /\ Pending(e, H)

\* The tasks taken from the queues are given to idle workers without a task.
LEMMA ScheduledCore ==
    ASSUME NEW e \in EmitterState, NEW H, NEW later, NEW known, NEW end1, NEW res,
           Core(e, H, later, known, end1, res),
           NEW idle \in SUBSET Worker, \A a \in H : a[1] \notin idle,
           NEW upd \in SUBSET Window, NEW mrg \in SUBSET Window, NEW up, NEW mg, NEW s,
           Scheduled(e, s, idle, upd, mrg, up, mg)
    PROVE  /\ Core(s, H \cup UpdatesTo(e, upd, up)
                        \cup MergesTo(TakeUpdates(e, upd), mrg, mg),
                   later, known, end1, res)
           /\ s.open \subseteq e.open
<1> DEFINE u == TakeUpdates(e, upd)
           G == H \cup UpdatesTo(e, upd, up)
<1>1. /\ upd \subseteq Updatable(e) /\ mrg \subseteq Mergeable(e, u.pending)
      /\ up \in [upd -> idle] /\ mg \in [mrg -> idle]
      /\ \A j, k \in upd : up[j] = up[k] => j = k
      /\ \A j, k \in mrg : mg[j] = mg[k] => j = k
      /\ \A j \in upd, k \in mrg : up[j] # mg[k]
      /\ s \in EmitterState /\ u \in EmitterState
      /\ s.open = u.open /\ s.ins = e.ins /\ s.com = e.com /\ s.busy = u.busy
      /\ s.pending = TakeMerges(u, mrg).pending /\ s.npend = TakeMerges(u, mrg).npend
  BY DEF Scheduled
<1>2. /\ end1 \in Int /\ \A k \in e.open : k < end1
      /\ StreamInv(later, known) /\ Counted(e.ins, known)
      /\ Windows(e, H, later, end1, res) /\ Pending(e, H) /\ end1 \in 0..(MaxWindow + 1)
  BY DEF Core
<1>3. (\A a \in H : \A k \in upd : a[1] # up[k]) /\ (\A a \in H : \A k \in mrg : a[1] # mg[k])
  BY <1>1
<1>4. Windows(u, G, later, end1, res) /\ Pending(u, G)
  BY <1>1, <1>2, <1>3, UpdatesStep
<1>5. \A a \in G : \A k \in mrg : a[1] # mg[k]
  BY <1>1, <1>3 DEF UpdatesTo
<1>6. u.open \subseteq e.open /\ u.com = e.com
  BY DEF TakeUpdates, EmitterState
<1>7. \A k \in mrg : k \in u.open /\ Len(u.pending[k]) > 1
  <2> SUFFICES ASSUME NEW k \in mrg PROVE k \in u.open /\ Len(u.pending[k]) > 1
    OBVIOUS
  <2>1. k \in e.open /\ Len(u.pending[k]) > 1
    BY <1>1 DEF Mergeable
  <2>2. k < end1 /\ k \in Int /\ k \in Window
    BY <2>1, <1>2, MaxWindowAssumption DEF EmitterState, Window
  <2>3. k \notin u.open => Stage(u.open, end1, k) = "closed"
    BY <2>2, <1>2 DEF Stage
  <2>4. Stage(u.open, end1, k) = "closed" => u.pending[k] = <<>>
    BY <2>2, <1>4 DEF Windows, WindowInv
  <2>5. u.pending[k] = <<>> => Len(u.pending[k]) = 0
    BY EmptySeq
  <2> QED
    BY <2>1, <2>3, <2>4, <2>5
<1>8. \A k \in u.open : k < end1
  BY <1>2, <1>6
<1>9. s.com = u.com
  BY <1>1, <1>6
<1> HIDE DEF u, G
<1>10. /\ Windows(s, G \cup MergesTo(u, mrg, mg), later, end1, res)
       /\ Pending(s, G \cup MergesTo(u, mrg, mg))
  BY <1>1, <1>2, <1>4, <1>5, <1>7, <1>8, <1>9, MergesStep
<1>11. Counted(s.ins, known) /\ s.open \subseteq e.open /\ \A k \in s.open : k < end1
  BY <1>1, <1>2, <1>6, <1>8
<1>12. Core(s, G \cup MergesTo(u, mrg, mg), later, known, end1, res)
  BY <1>2, <1>10, <1>11 DEF Core
<1> QED
  BY <1>11, <1>12 DEF u, G

\* The variables after a step are the fields of the emitter that it computed.
LEMMA CoreNext ==
    ASSUME total' = total, NEW s, Update(s),
           Core(s, Tasks', toArrive', announced', end_win', results')
    PROVE  Core(Emitter, Tasks, toArrive, announced, end_win, results)'
<1>1. /\ open' = s.open /\ cnt_ins' = s.ins /\ cnt_tasks_com' = s.com
      /\ pendingQueue' = s.pending /\ isBusy' = s.busy /\ n_pendingtasks' = s.npend
  BY DEF Update
<1>2. /\ StreamInv(toArrive', announced') /\ Counted(s.ins, announced')
      /\ end_win' \in 0..(MaxWindow + 1) /\ \A k \in s.open : k < end_win'
      /\ Windows(s, Tasks', toArrive', end_win', results')
      /\ Pending(s, Tasks')
  BY DEF Core
<1>3. \A k \in Window : All(k)' = All(k) /\ Came(k, toArrive)' = Came(k, toArrive')
  BY DEF All, Came
<1>4. /\ Emitter.open' = open' /\ Emitter.ins' = cnt_ins' /\ Emitter.com' = cnt_tasks_com'
      /\ Emitter.pending' = pendingQueue' /\ Emitter.busy' = isBusy'
      /\ Emitter.npend' = n_pendingtasks'
  BY DEF Emitter
<1>5. StreamInv(toArrive, announced)'
  BY <1>2 DEF StreamInv
<1>6. Counted(Emitter.ins, announced)'
  BY <1>1, <1>2, <1>4 DEF Counted
<1>7. Pending(Emitter, Tasks)'
  BY <1>1, <1>2, <1>4 DEF Pending
<1>8. ASSUME NEW k \in Window
      PROVE  WindowInv(k, Stage(Emitter.open, end_win, k), Emitter.busy[k],
                       Emitter.pending[k], Emitter.com[k], Came(k, toArrive), results[k],
                       Of(Tasks, k))'
  <2>1. WindowInv(k, Stage(open', end_win', k), isBusy'[k], pendingQueue'[k],
                  cnt_tasks_com'[k], Came(k, toArrive'), results'[k], Of(Tasks', k))
    BY <1>1, <1>2 DEF Windows
  <2> QED
    BY <2>1, <1>3, <1>4 DEF WindowInv
<1> QED
  BY <1>1, <1>2, <1>4, <1>5, <1>6, <1>7, <1>8 DEF Core, Windows

\* A results set joins the queues of all the windows of its pane, descriptors
\* being created for those that have none.
LEMMA EnqueueCore ==
    ASSUME IInv, Core(Emitter, Tasks, toArrive, announced, end_win, results),
           NEW x \in toArrive, NEW inst \in {0, total[x[1]]},
           inst = 0 => \/ x[1] \in announced
                       \/ \E y \in toArrive : y # x /\ y[1] = x[1],
           NEW later, later = toArrive \ {x},
           NEW known, known = IF inst = 0 THEN announced ELSE announced \cup {x[1]},
           NEW end1, end1 = IF LastWin(x[1]) + 1 > end_win THEN LastWin(x[1]) + 1
                            ELSE end_win,
           NEW e, e = Enqueue(x, inst)
    PROVE  Core(e, Tasks, later, known, end1, results)
<1> DEFINE p == x[1]
           wins == WindowsOf(p)
<1>0. Enqueued(e, x, inst)
  BY EnqueueFields
<1>1. /\ x \in Partition /\ p \in Pane /\ e \in EmitterState
      /\ e.busy = isBusy /\ e.com = cnt_tasks_com
      /\ e.open = open \cup NewDescriptors(p)
      /\ e.npend = n_pendingtasks + Cardinality(wins)
      /\ \A k \in Window :
            e.pending[k] = IF k \in wins THEN Append(pendingQueue[k], {x})
                           ELSE pendingQueue[k]
      /\ \A k \in Window : e.ins[k] =
            IF k \in wins /\ inst > 0 /\ cnt_ins[k][p - sp * k] = UNKNOWN
            THEN [cnt_ins[k] EXCEPT ![p - sp * k] = inst]
            ELSE cnt_ins[k]
  BY <1>0 DEF Enqueued
<1>2. /\ StreamInv(toArrive, announced) /\ Counted(cnt_ins, announced)
      /\ end_win \in 0..(MaxWindow + 1) /\ \A k \in open : k < end_win
      /\ \A k \in Window :
            WindowInv(k, Stage(open, end_win, k), isBusy[k], pendingQueue[k],
                      cnt_tasks_com[k], Came(k, toArrive), results[k], Of(Tasks, k))
      /\ n_pendingtasks = SumFunction([k \in Window |-> Len(pendingQueue[k])])
                            + Cardinality(Merges(Tasks))
      /\ IsFiniteSet(Tasks)
  BY DEF Core, Emitter, Windows, Pending
<1>3. /\ LastWin(p) \in Window /\ LastWin(p) \in wins /\ wins \subseteq Window
      /\ \A k \in wins : k <= LastWin(p)
      /\ \A k \in Window : k \in wins <=> sp * k <= p /\ p <= sp * k + wp - 1
  BY <1>1, WindowsOfPane
<1>4. /\ sp \in Nat /\ wp \in Nat \ {0} /\ p \in Nat /\ MaxWindow \in Nat
      /\ Window \subseteq Nat /\ end_win \in Nat /\ LastWin(p) \in Nat
      /\ LastWin(p) <= MaxWindow
  BY <1>1, <1>2, <1>3, WLQAssumption, MaxWindowAssumption DEF Pane, Window
<1>5. total[p] \in 1..MaxParts /\ x[2] <= total[p] /\ MaxParts \in Nat
  BY <1>1, <1>2, WLQAssumption DEF StreamInv, Pane
<1>6. /\ end1 \in 0..(MaxWindow + 1) /\ end_win <= end1
      /\ \A k \in Nat : k <= LastWin(p) => k < end1
      /\ \A k \in Nat : k >= end_win /\ k > LastWin(p) => k >= end1
  BY <1>2, <1>4
<1> HIDE DEF wins
<1>7. StreamInv(later, known)
  <2>1. /\ total \in Totals /\ announced \subseteq Pane /\ toArrive \subseteq Partition
        /\ \A y \in toArrive : y[2] <= total[y[1]]
        /\ \A q \in Pane \ announced : \E y \in toArrive : y[1] = q
    BY <1>2 DEF StreamInv
  <2>2. ASSUME NEW q \in Pane \ known PROVE \E y \in later : y[1] = q
    <3>1. q \notin announced /\ (q = p => inst = 0)
      BY <2>2
    <3>2. CASE q = p
      BY <3>1, <3>2
    <3>3. CASE q # p
      BY <2>1, <3>1, <3>3
    <3> QED
      BY <3>2, <3>3
  <2> QED
    BY <1>1, <2>1, <2>2 DEF StreamInv
<1>8. Counted(e.ins, known)
  <2> SUFFICES ASSUME NEW k \in Window, NEW i \in LocalPane
               PROVE  /\ sp * k + i \in known <=> e.ins[k][i] # UNKNOWN
                      /\ sp * k + i \in known => e.ins[k][i] = total[sp * k + i]
    BY DEF Counted
  <2>1. /\ sp * k + i \in announced <=> cnt_ins[k][i] # UNKNOWN
        /\ sp * k + i \in announced => cnt_ins[k][i] = total[sp * k + i]
    BY <1>2 DEF Counted
  <2>2. k \in Nat /\ i \in Nat /\ i <= wp - 1 /\ sp * k \in Nat
    BY <1>4 DEF LocalPane
  <2>3. cnt_ins[k] \in [LocalPane -> Int]
    BY DEF IInv, PoolType
  <2>4. CASE sp * k + i # p
    <3>1. i # p - sp * k
      BY <2>2, <2>4, <1>4
    <3>2. e.ins[k][i] = cnt_ins[k][i]
      BY <3>1, <2>3, <1>1
    <3> QED
      BY <3>2, <2>1, <2>4
  <2>5. CASE sp * k + i = p /\ inst = 0
    <3>1. e.ins[k] = cnt_ins[k]
      BY <1>1, <2>5
    <3> QED
      BY <3>1, <2>1, <2>5
  <2>6. CASE sp * k + i = p /\ inst # 0
    <3>1. i = p - sp * k /\ inst = total[p] /\ inst > 0 /\ inst # UNKNOWN
      BY <2>2, <2>6, <1>4, <1>5 DEF UNKNOWN
    <3>2. k \in wins
      BY <2>2, <2>6, <1>3, <1>4
    <3>3. e.ins[k][i] = IF cnt_ins[k][i] = UNKNOWN THEN inst ELSE cnt_ins[k][i]
      BY <3>1, <3>2, <2>3, <1>1
    <3> QED
      BY <3>1, <3>3, <2>1, <2>6
  <2> QED
    BY <2>4, <2>5, <2>6
<1>9. \A k \in e.open : k < end1
  <2> SUFFICES ASSUME NEW k \in e.open PROVE k < end1
    OBVIOUS
  <2>1. k \in Nat
    BY <1>1, <1>4 DEF EmitterState
  <2>2. k \in open => k < end_win
    BY <1>2
  <2>3. k \notin open => k <= LastWin(p)
    BY <1>1 DEF NewDescriptors
  <2> QED
    BY <2>1, <2>2, <2>3, <1>4, <1>6
<1>10. ASSUME NEW k \in Window
       PROVE  WindowInv(k, Stage(e.open, end1, k), e.busy[k], e.pending[k], e.com[k],
                        Came(k, later), results[k], Of(Tasks, k))
  <2> DEFINE W(stage, queue, came) ==
               WindowInv(k, stage, isBusy[k], queue, cnt_tasks_com[k], came, results[k],
                         Of(Tasks, k))
  <2>1. W(Stage(open, end_win, k), pendingQueue[k], Came(k, toArrive))
    BY <1>2
  <2>2. k \in Nat /\ (k \in NewDescriptors(p) <=> end_win <= k /\ k <= LastWin(p))
    BY <1>4 DEF NewDescriptors
  <2>3. total \in Totals
    BY <1>2 DEF StreamInv
  <2>4. x \in All(k) <=> k \in wins
    BY <1>1, <1>5 DEF All, wins
  <2>5. CASE k \in wins
    <3>1. x \in All(k) /\ x \notin Came(k, toArrive)
      BY <2>4, <2>5 DEF Came
    <3>2. Stage(open, end_win, k) # "closed"
      BY <2>1, <3>1 DEF WindowInv
    <3>3. W("open", pendingQueue[k], Came(k, toArrive))
      <4>1. CASE Stage(open, end_win, k) = "open"
        BY <2>1, <4>1
      <4>2. CASE Stage(open, end_win, k) = "none"
        <5>1. W("none", pendingQueue[k], Came(k, toArrive))
          BY <2>1, <4>2
        <5> QED
          BY <5>1, <2>3, WindowOpens
      <4> QED
        BY <3>2, <4>1, <4>2 DEF Stage
    <3>4. W("open", Append(pendingQueue[k], {x}), Came(k, toArrive) \cup {x})
      BY <3>1, <3>3, WindowArrive
    <3>5. Came(k, later) = Came(k, toArrive) \cup {x}
      BY <3>1 DEF Came
    <3>6. k \in e.open
      <4>1. k \notin open => k >= end_win
        BY <3>2 DEF Stage
      <4> QED
        BY <4>1, <2>2, <2>5, <1>1, <1>3, <1>4
    <3>7. Stage(e.open, end1, k) = "open"
      BY <3>6 DEF Stage
    <3>8. e.pending[k] = Append(pendingQueue[k], {x})
      BY <2>5, <1>1
    <3> HIDE DEF W
    <3>9. W(Stage(e.open, end1, k), e.pending[k], Came(k, later))
      BY <3>4, <3>5, <3>7, <3>8
    <3> QED
      BY <3>9, <1>1 DEF W
  <2>6. CASE k \notin wins
    <3>1. Came(k, later) = Came(k, toArrive) /\ e.pending[k] = pendingQueue[k]
      BY <2>4, <2>6, <1>1 DEF Came
    <3>2. CASE k \in NewDescriptors(p)
      <4>1. Stage(open, end_win, k) = "none"
        <5>1. ~(k < end_win) /\ k >= end_win
          BY <2>2, <3>2, <1>4
        <5>2. k \notin open
          BY <5>1, <1>2
        <5> QED
          BY <5>1, <5>2 DEF Stage
      <4>2. W("none", pendingQueue[k], Came(k, toArrive))
        BY <2>1, <4>1
      <4>3. W("open", pendingQueue[k], Came(k, toArrive))
        BY <4>2, <2>3, WindowOpens
      <4>4. Stage(e.open, end1, k) = "open"
        BY <3>2, <1>1 DEF Stage
      <4> HIDE DEF W
      <4>5. W(Stage(e.open, end1, k), e.pending[k], Came(k, later))
        BY <4>3, <4>4, <3>1
      <4> QED
        BY <4>5, <1>1 DEF W
    <3>3. CASE k \notin NewDescriptors(p)
      <4>1. k \in e.open <=> k \in open
        BY <3>3, <1>1
      <4>2. k \notin open => (k >= end_win <=> k >= end1)
        BY <2>2, <3>3, <1>2, <1>4, <1>6
      <4>3. Stage(e.open, end1, k) = Stage(open, end_win, k)
        BY <4>1, <4>2 DEF Stage
      <4> HIDE DEF W
      <4>4. W(Stage(e.open, end1, k), e.pending[k], Came(k, later))
        BY <4>3, <3>1, <2>1
      <4> QED
        BY <4>4, <1>1 DEF W
    <3> QED
      BY <3>2, <3>3
  <2> QED
    BY <2>5, <2>6
<1>11. Pending(e, Tasks)
  <2> DEFINE f == [k \in Window |-> Len(e.pending[k])]
             g == [k \in Window |-> Len(pendingQueue[k])]
  <2>1. \A k \in Window : Len(e.pending[k]) \in Nat /\ Len(pendingQueue[k]) \in Nat
    BY <1>1, LenProperties DEF EmitterState, IInv, PoolType
  <2>2. f \in [Window -> Nat] /\ g \in [Window -> Nat]
    BY <2>1
  <2>3. ASSUME NEW k \in Window PROVE f[k] = IF k \in wins THEN g[k] + 1 ELSE g[k]
    <3>1. pendingQueue[k] \in Seq(SUBSET Partition) /\ {x} \in SUBSET Partition
      BY <1>1 DEF IInv, PoolType
    <3>2. Len(Append(pendingQueue[k], {x})) = Len(pendingQueue[k]) + 1
      BY <3>1, AppendToSet
    <3> QED
      BY <3>2, <1>1
  <2>4. wins \in SUBSET Window
    BY <1>3
  <2> HIDE DEF f, g
  <2>5. /\ SumFunction(f) = SumFunction(g) + 1 * Cardinality(wins)
        /\ SumFunction(f) \in Nat /\ SumFunction(g) \in Nat
    BY <2>2, <2>3, <2>4, SumTwoMore
  <2>6. Cardinality(wins) \in Nat
    BY <2>4, RankOrder
  <2>7. Cardinality(Merges(Tasks)) \in Nat
    BY <1>2, FS_Subset, FS_CardinalityType DEF Merges
  <2>8. e.npend = SumFunction(f) + Cardinality(Merges(Tasks))
    BY <2>5, <2>6, <2>7, <1>1, <1>2 DEF g
  <2> QED
    BY <2>8, <1>2 DEF Pending, f
<1>12. Windows(e, Tasks, later, end1, results)
  BY <1>10 DEF Windows
<1> QED
  BY <1>6, <1>7, <1>8, <1>9, <1>11, <1>12 DEF Core

\* The windows, in the fields e of the emitter, after the task t was given back.
TakenFrom(e, t, updated, merged) ==
    /\ e \in EmitterState
    /\ e.open = open /\ e.ins = cnt_ins /\ e.npend = n_pendingtasks
    /\ \A k \in Window \ {t.win_id} :
          /\ e.busy[k] = isBusy[k] /\ e.com[k] = cnt_tasks_com[k]
          /\ e.pending[k] = pendingQueue[k]
    /\ \E k \in Window :
          /\ k = t.win_id
          /\ e.busy[k] = IF updated THEN FALSE ELSE isBusy[k]
          /\ e.com[k] = IF updated \/ merged THEN cnt_tasks_com[k] + 1
                        ELSE cnt_tasks_com[k]
          /\ e.pending[k] = IF merged THEN Append(pendingQueue[k], t.p1)
                            ELSE pendingQueue[k]

\* What the completion of a task does to the tasks and the windows.
LEMMA CompletedWindows ==
    ASSUME IInv, NEW w \in Worker, NEW t \in Task, Finished(w, t),
           NEW e, e = Completed(w, t),
           NEW updated, updated = (t.type = "WIN_UPDATE" /\ ~t.finalize),
           NEW merged, merged = (t.type = "MERGE")
    PROVE  TakenFrom(e, t, updated, merged)
<1> DEFINE k0 == t.win_id
           busy2 == [isBusy EXCEPT ![k0] = IF updated THEN FALSE ELSE @]
           com2  == [cnt_tasks_com EXCEPT ![k0] = IF updated \/ merged THEN @ + 1 ELSE @]
           pending2 == [pendingQueue EXCEPT ![k0] = IF merged THEN Append(@, t.p1) ELSE @]
<1>1. e \in EmitterState
  BY CompletedFields
<1>2. e = [Emitter EXCEPT !.busy = busy2, !.com = com2, !.pending = pending2,
                          !.ready = workerReady \cup {w},
                          !.nready = n_readyWorkers + 1]
  BY DEF Completed, Emitter
<1>3. k0 \in Window
  BY DEF Task
<1>4. /\ busy2[k0] = IF updated THEN FALSE ELSE isBusy[k0]
      /\ com2[k0] = IF updated \/ merged THEN cnt_tasks_com[k0] + 1 ELSE cnt_tasks_com[k0]
      /\ pending2[k0] = IF merged THEN Append(pendingQueue[k0], t.p1) ELSE pendingQueue[k0]
      /\ \A k \in Window \ {k0} : /\ busy2[k] = isBusy[k] /\ com2[k] = cnt_tasks_com[k]
                                  /\ pending2[k] = pendingQueue[k]
  BY <1>3 DEF IInv, PoolType
<1> HIDE DEF busy2, com2, pending2
<1>5. /\ e.open = open /\ e.ins = cnt_ins /\ e.npend = n_pendingtasks
      /\ e.busy = busy2 /\ e.com = com2 /\ e.pending = pending2
  BY <1>2 DEF Emitter
<1> HIDE DEF k0
<1>6. /\ e.busy[k0] = IF updated THEN FALSE ELSE isBusy[k0]
      /\ e.com[k0] = IF updated \/ merged THEN cnt_tasks_com[k0] + 1 ELSE cnt_tasks_com[k0]
      /\ e.pending[k0] = IF merged THEN Append(pendingQueue[k0], t.p1) ELSE pendingQueue[k0]
      /\ \A k \in Window \ {k0} : /\ e.busy[k] = isBusy[k] /\ e.com[k] = cnt_tasks_com[k]
                                  /\ e.pending[k] = pendingQueue[k]
  BY <1>4, <1>5
<1> QED
  BY <1>1, <1>3, <1>5, <1>6, Zenon DEF k0, TakenFrom

\* The emitter takes back the task of a worker.
LEMMA CompletedCore ==
    ASSUME IInv, Core(Emitter, Tasks, toArrive, announced, end_win, results),
           NEW w \in Worker, NEW t \in Task, Finished(w, t), t.p2 = {},
           NEW e, e = Completed(w, t)
    PROVE  Core(e, Tasks \ {<<w, t>>}, toArrive, announced, end_win, results)
<1> DEFINE a == <<w, t>>
           H == Tasks
           updated == t.type = "WIN_UPDATE" /\ ~t.finalize
           merged  == t.type = "MERGE"
<1>1. a \in H /\ IsFiniteSet(H)
  BY OneTask DEF Has
<1>2. /\ StreamInv(toArrive, announced) /\ Counted(cnt_ins, announced)
      /\ end_win \in 0..(MaxWindow + 1) /\ \A k \in open : k < end_win
      /\ \A k \in Window :
            WindowInv(k, Stage(open, end_win, k), isBusy[k], pendingQueue[k],
                      cnt_tasks_com[k], Came(k, toArrive), results[k], Of(H, k))
      /\ n_pendingtasks = SumFunction([k \in Window |-> Len(pendingQueue[k])])
                            + Cardinality(Merges(H))
  BY DEF Core, Emitter, Windows, Pending
<1>0. TakenFrom(e, t, updated, merged)
  BY CompletedWindows
<1>3. /\ e \in EmitterState
      /\ e.open = open /\ e.ins = cnt_ins /\ e.npend = n_pendingtasks
      /\ \A k \in Window \ {t.win_id} :
            /\ e.busy[k] = isBusy[k] /\ e.com[k] = cnt_tasks_com[k]
            /\ e.pending[k] = pendingQueue[k]
      /\ \E k \in Window :
            /\ k = t.win_id
            /\ e.busy[k] = IF updated THEN FALSE ELSE isBusy[k]
            /\ e.com[k] = IF updated \/ merged THEN cnt_tasks_com[k] + 1
                          ELSE cnt_tasks_com[k]
            /\ e.pending[k] = IF merged THEN Append(pendingQueue[k], t.p1)
                              ELSE pendingQueue[k]
  BY <1>0, Zenon DEF TakenFrom
<1>4. a[2] = t /\ t.p1 \in SUBSET Partition
  BY DEF Task
<1> HIDE DEF H, a
<1>5. /\ IsFiniteSet(H \ {a})
      /\ IsFiniteSet(Merges(H)) /\ Cardinality(Merges(H)) \in Nat
      /\ Cardinality(Merges(H \ {a})) = IF merged THEN Cardinality(Merges(H)) - 1
                                        ELSE Cardinality(Merges(H))
      /\ \A k : t.win_id = k => Of(H \ {a}, k) = Of(H, k) \ {a}
      /\ \A k : t.win_id # k => Of(H \ {a}, k) = Of(H, k)
  <2>1. /\ \A k : t.win_id = k => Of(H \ {a}, k) = Of(H, k) \ {a}
        /\ \A k : t.win_id # k => Of(H \ {a}, k) = Of(H, k)
    BY <1>4 DEF Of
  <2>2. /\ IsFiniteSet(H \ {a})
        /\ IsFiniteSet(Merges(H)) /\ Cardinality(Merges(H)) \in Nat
        /\ Cardinality(Merges(H \ {a})) = IF a[2].type = "MERGE"
                                          THEN Cardinality(Merges(H)) - 1
                                          ELSE Cardinality(Merges(H))
    BY <1>1, TaskRemove
  <2> QED
    BY <2>1, <2>2, <1>4
<1>6. ASSUME NEW k \in Window
      PROVE  WindowInv(k, Stage(e.open, end_win, k), e.busy[k], e.pending[k], e.com[k],
                       Came(k, toArrive), results[k], Of(H \ {a}, k))
  <2>1. CASE k # t.win_id
    <3>1. Of(H \ {a}, k) = Of(H, k)
      BY <1>5, <2>1
    <3>2. e.busy[k] = isBusy[k] /\ e.com[k] = cnt_tasks_com[k] /\ e.pending[k] = pendingQueue[k]
      BY <1>3, <2>1
    <3> QED
      BY <3>1, <3>2, <1>2, <1>3
  <2>2. CASE k = t.win_id
    <3>1. Of(H \ {a}, k) = Of(H, k) \ {a} /\ a \in Of(H, k)
      BY <1>1, <1>4, <1>5, <2>2 DEF Of
    <3> DEFINE busy2 == IF updated THEN FALSE ELSE isBusy[k]
               com2 == IF updated \/ merged THEN cnt_tasks_com[k] + 1 ELSE cnt_tasks_com[k]
               queue2 == IF merged THEN Append(pendingQueue[k], t.p1) ELSE pendingQueue[k]
    <3>2. e.busy[k] = busy2 /\ e.com[k] = com2 /\ e.pending[k] = queue2
      BY <1>3, <2>2
    <3>3. Stage(open, end_win, k) \in {"open", "closed", "none"}
      BY DEF Stage
    <3>4. PICK s \in {"open", "closed", "none"} : s = Stage(open, end_win, k)
      BY <3>3
    <3>5. WindowInv(k, s, isBusy[k], pendingQueue[k], cnt_tasks_com[k],
                    Came(k, toArrive), results[k], Of(H, k))
      BY <1>2, <3>4
    <3>6. /\ a[2].p1 \in SUBSET Partition /\ a[2].p2 = {}
          /\ updated = (a[2].type = "WIN_UPDATE" /\ ~a[2].finalize)
          /\ merged = (a[2].type = "MERGE")
          /\ a[2].p1 = t.p1
      BY <1>4
    <3> HIDE DEF updated, merged
    <3>7. WindowInv(k, s, IF updated THEN FALSE ELSE isBusy[k],
                    IF merged THEN Append(pendingQueue[k], a[2].p1) ELSE pendingQueue[k],
                    IF updated \/ merged THEN cnt_tasks_com[k] + 1 ELSE cnt_tasks_com[k],
                    Came(k, toArrive), results[k], Of(H, k) \ {a})
      BY <3>1, <3>5, <3>6, WindowFeedback
    <3>8. WindowInv(k, s, busy2, queue2, com2, Came(k, toArrive), results[k],
                    Of(H \ {a}, k))
      BY <3>1, <3>6, <3>7
    <3>9. s = Stage(e.open, end_win, k)
      BY <3>4, <1>3
    <3> HIDE DEF busy2, com2, queue2
    <3> QED
      BY <3>2, <3>8, <3>9
  <2> QED
    BY <2>1, <2>2
<1>7. e.npend = SumFunction([k \in Window |-> Len(e.pending[k])])
                  + Cardinality(Merges(H \ {a}))
  <2> DEFINE f == [k \in Window |-> Len(e.pending[k])]
             g == [k \in Window |-> Len(pendingQueue[k])]
             T == IF merged THEN {t.win_id} ELSE {}
  <2>1. \A k \in Window : Len(e.pending[k]) \in Nat /\ Len(pendingQueue[k]) \in Nat
    BY <1>3, LenProperties DEF EmitterState, IInv, PoolType
  <2>2. f \in [Window -> Nat] /\ g \in [Window -> Nat]
    BY <2>1
  <2>3. t.win_id \in Window /\ T \in SUBSET Window
        /\ Cardinality(T) = IF merged THEN 1 ELSE 0
    BY FS_Singleton, FS_EmptySet DEF Task
  <2>4. ASSUME NEW k \in Window PROVE f[k] = IF k \in T THEN g[k] + 1 ELSE g[k]
    <3>1. pendingQueue[k] \in Seq(SUBSET Partition)
      BY DEF IInv, PoolType
    <3>2. Len(Append(pendingQueue[k], t.p1)) = Len(pendingQueue[k]) + 1
      BY <3>1, <1>4, AppendToSet
    <3>3. k \in T <=> k = t.win_id /\ merged
      OBVIOUS
    <3>4. k \in T => e.pending[k] = Append(pendingQueue[k], t.p1)
      BY <3>3, <1>3
    <3>5. k \notin T => e.pending[k] = pendingQueue[k]
      BY <3>3, <1>3
    <3> QED
      BY <3>2, <3>4, <3>5
  <2> HIDE DEF f, g, T, merged
  <2>5. /\ SumFunction(f) = SumFunction(g) + 1 * Cardinality(T)
        /\ SumFunction(f) \in Nat /\ SumFunction(g) \in Nat
    BY <2>2, <2>3, <2>4, SumTwoMore
  <2>6. n_pendingtasks = SumFunction(g) + Cardinality(Merges(H))
    BY <1>2 DEF g
  <2>7. e.npend = SumFunction(f) + Cardinality(Merges(H \ {a}))
    BY <2>3, <2>5, <2>6, <1>3, <1>5
  <2> QED
    BY <2>7 DEF f
<1>8. Pending(e, H \ {a}) /\ Windows(e, H \ {a}, toArrive, end_win, results)
  BY <1>5, <1>6, <1>7 DEF Pending, Windows
<1>9. Core(e, H \ {a}, toArrive, announced, end_win, results)
  BY <1>2, <1>3, <1>8 DEF Core
<1> QED
  BY <1>9 DEF H, a

\* The windows of the tasks that wait in the input queues q of the workers.
Nothing   == [w \in Worker |-> <<>>]
Queued(q) == {a[2].win_id : a \in TasksIn(q, Nothing)}

\* After the search for tasks from e to s: the tasks it gave are all it added to
\* the queues, and a window that it finalized has its last task in one of them.
Searched(e, s, back, later, known, end1, res) ==
    /\ Core(s, TasksIn(s.q, back), later, known, end1, res)
    /\ s \in EmitterState /\ s.open \subseteq e.open
    /\ Queued(in_q) \subseteq Queued(s.q)
    /\ Queued(s.q) \subseteq Queued(in_q) \cup e.open
    /\ e.open \subseteq s.open \cup Queued(s.q)

\* Schedule keeps the invariant, whichever workers it finds idle.
LEMMA ScheduleStep ==
    ASSUME IInv, NEW e \in EmitterState, e.nready = Cardinality(e.ready),
           NEW back, NEW H, H = TasksIn(in_q, back),
           NEW later, NEW known, NEW end1, NEW res, Core(e, H, later, known, end1, res),
           NEW idle \in SUBSET e.ready, \A a \in H : a[1] \notin idle,
           NEW s, s = Schedule(e, idle)
    PROVE  Searched(e, s, back, later, known, end1, res)
<1>1. in_q \in [Worker -> Seq(Message)] /\ last_w \in Worker /\ idle \in SUBSET Worker
  BY DEF IInv, PoolType, EmitterState
<1>2. PICK upd \in SUBSET Window, mrg \in SUBSET Window :
         \E up, mg : Scheduled(e, s, idle, upd, mrg, up, mg)
  BY <1>1, ScheduledTasks
<1>3. PICK up, mg : Scheduled(e, s, idle, upd, mrg, up, mg)
  BY <1>2
<1> DEFINE U == UpdatesTo(e, upd, up)
           M == MergesTo(TakeUpdates(e, upd), mrg, mg)
<1>4. ASSUME NEW some
      PROVE  TasksIn(s.q, some) = TasksIn(in_q, some) \cup U \cup M
  <2>1. Given(e, s, upd, mrg, up, mg)
    BY <1>1, <1>3, GivenTasks
  <2> QED
    BY <2>1, Zenon DEF Given
<1>5. TasksIn(s.q, Nothing) = TasksIn(in_q, Nothing) \cup U \cup M
  <2> HIDE DEF U, M
  <2> QED
    BY <1>4
<1>6. Core(s, H \cup U \cup M, later, known, end1, res) /\ s.open \subseteq e.open
  BY <1>1, <1>3, ScheduledCore
<1>7. /\ s \in EmitterState /\ upd \subseteq Updatable(e)
      /\ mrg \subseteq Mergeable(e, TakeUpdates(e, upd).pending)
      /\ s.open = TakeUpdates(e, upd).open
  BY <1>3 DEF Scheduled
<1>8. upd \subseteq e.open /\ mrg \subseteq e.open
  BY <1>7 DEF Updatable, Mergeable
<1>9. /\ \A a \in U : a[2].win_id \in upd
      /\ \A a \in M : a[2].win_id \in mrg
      /\ \A k \in upd : \E a \in U : a[2].win_id = k
  <2>1. \A j : UpdateOf(e, j).win_id = j /\ MergeOf(TakeUpdates(e, upd), j).win_id = j
    BY DEF UpdateOf, MergeOf, UpdateTask, MergeTask
  <2>2. \A a \in U : a[2].win_id \in upd
    BY <2>1 DEF UpdatesTo
  <2>3. ASSUME NEW k \in upd PROVE \E a \in U : a[2].win_id = k
    <3>1. <<up[k], UpdateOf(e, k)>> \in U
      BY DEF UpdatesTo
    <3> QED
      BY <2>1, <3>1
  <2>4. \A a \in M : a[2].win_id \in mrg
    BY <2>1 DEF MergesTo
  <2> QED
    BY <2>2, <2>3, <2>4, Zenon
<1>10. e.open \subseteq s.open \cup upd
  BY <1>7 DEF TakeUpdates, EmitterState
<1> HIDE DEF U, M
<1>11. Queued(in_q) \subseteq Queued(s.q)
  BY <1>5 DEF Queued
<1>12. Queued(s.q) \subseteq Queued(in_q) \cup e.open
  BY <1>5, <1>8, <1>9 DEF Queued
<1>13. e.open \subseteq s.open \cup Queued(s.q)
  BY <1>5, <1>9, <1>10 DEF Queued
<1> QED
  BY <1>4, <1>6, <1>7, <1>11, <1>12, <1>13 DEF Searched

\* The orders to freeze and to end are no tasks.
LEMMA TasksSame ==
    ASSUME NEW q \in [Worker -> Seq(Message)], NEW r,
           \A w \in Worker : r[w] \in {q[w], Append(q[w], GO_OUT), Append(q[w], EOS)}
    PROVE  (\A back : TasksIn(r, back) = TasksIn(q, back)) /\ Queued(r) = Queued(q)
<1>1. \A t \in Task : t # GO_OUT /\ t # EOS
  BY DEF Task, GO_OUT, EOS
<1>2. ASSUME NEW w \in Worker, NEW t \in Task
      PROVE  t \in ToSet(r[w]) <=> t \in ToSet(q[w])
  <2>1. q[w] \in Seq(Message) /\ GO_OUT \in Message /\ EOS \in Message
    BY DEF Message
  <2>2. /\ ToSet(Append(q[w], GO_OUT)) = ToSet(q[w]) \cup {GO_OUT}
        /\ ToSet(Append(q[w], EOS)) = ToSet(q[w]) \cup {EOS}
    BY <2>1, AppendToSet
  <2>3. CASE r[w] = q[w]
    BY <2>3
  <2>4. CASE r[w] = Append(q[w], GO_OUT)
    BY <2>2, <2>4, <1>1
  <2>5. CASE r[w] = Append(q[w], EOS)
    BY <2>2, <2>5, <1>1
  <2> QED
    BY <2>3, <2>4, <2>5
<1>3. \A back : TasksIn(r, back) = TasksIn(q, back)
  BY <1>2 DEF TasksIn
<1> QED
  BY <1>3 DEF Queued

-----------------------------------------------------------------------------
(* The windows the collector waits for                                     *)

\* A window is still to be sent to the collector while it is open or has no
\* descriptor yet, while its last task waits in a queue, or while it is in the
\* channel of a worker.
InChannel == UNION {ToSet(to_coll[w]) : w \in Worker}
ToSend == {k \in Window : \/ k \in open \/ k >= end_win
                          \/ k \in Queued(in_q) \/ k \in InChannel}

\* The collector as it is when the rest of the stage is left out.
Alone == INSTANCE WLQCollectorAlone_proofs WITH toArrive <- ToSend

\* No slot before first_win_id is open.
FirstInv ==
    /\ first_win_id \in Nat /\ first_win_id <= end_win
    /\ \A k \in open : k >= first_win_id

\* A task given back holds no second results set.
BackInv == \A w \in Worker : \A t \in ToSet(feedback[w]) : t.p2 = {}

\* No window is in two places of the channels chan.
Distinct(chan) ==
    \A u, v \in Worker : \A i \in 1..Len(chan[u]), j \in 1..Len(chan[v]) :
       chan[u][i] = chan[v][j] => u = v /\ i = j

\* A window in the channel to the collector is closed, its last task was
\* executed and it is in one place of one channel.
SentInv ==
    /\ to_coll \in [Worker -> Seq(Window)]
    /\ \A k \in InChannel : k \notin open /\ k < end_win /\ k \notin Queued(in_q)
    /\ Distinct(to_coll)

WInv ==
    /\ Core(Emitter, Tasks, toArrive, announced, end_win, results)
    /\ FirstInv /\ BackInv /\ SentInv
    /\ results \in [Window -> SUBSET Partition]
    /\ wlqTerminated => n_pendingtasks = 0
    /\ Alone!Inv

\* The collector takes no part in a step, or receives a window.
LEMMA AloneSame ==
    ASSUME Alone!Inv, ToSend' = ToSend, UNCHANGED collectorVars
    PROVE  Alone!Inv'
<1>1. UNCHANGED Alone!vars
  BY DEF Alone!vars, collectorVars
<1>2. [Alone!Next]_(Alone!vars)
  BY <1>1
<1>3. Alone!Inv /\ [Alone!Next]_(Alone!vars) => Alone!Inv'
  BY Alone!InvNext, MaxWindowAssumption
<1> QED
  BY <1>2, <1>3

\* The collector of the stage takes a step of the collector alone.
LEMMA AloneReceives ==
    ASSUME NEW id \in ToSend, ToSend' = ToSend \ {id}, Collect(id)
    PROVE  Alone!Next
<1>1. id \in Alone!Window
  BY DEF ToSend, Alone!Window, Window
<1>2. Alone!Collect(id)
  BY DEF Collect, Transmit, Buffer, IsNext, Slot, FirstFree, NULL,
         Alone!Collect, Alone!Transmit, Alone!Buffer, Alone!IsNext, Alone!Slot,
         Alone!FirstFree, Alone!NULL
<1> QED
  BY <1>1, <1>2 DEF Alone!Next, Alone!Receive

\* The emitter opens windows that had no descriptor and closes windows by
\* giving their last task away: the windows still to be sent stay the same.
LEMMA SentByEmitter ==
    ASSUME SentInv, end_win \in Int, end_win' \in Int, end_win <= end_win',
           to_coll' = to_coll,
           open' \subseteq open \cup {k \in Window : k >= end_win},
           \A k \in Window : k >= end_win =>
               k >= end_win' \/ k \in open' \cup Queued(in_q'),
           open \subseteq open' \cup Queued(in_q'),
           Queued(in_q) \subseteq Queued(in_q'),
           Queued(in_q') \subseteq Queued(in_q) \cup open \cup {k \in Window : k >= end_win}
    PROVE  SentInv' /\ ToSend' = ToSend
<1>1. InChannel' = InChannel /\ Window \subseteq Int
  BY MaxWindowAssumption DEF InChannel, Window
<1>2. Queued(in_q)' = Queued(in_q')
  BY DEF Queued, TasksIn
<1>3. InChannel \subseteq Window
  BY DEF SentInv, InChannel, ToSet
<1>4. \A k \in InChannel : k \notin open' /\ k < end_win' /\ k \notin Queued(in_q')
  BY <1>1, <1>3 DEF SentInv
<1>5. SentInv'
  BY <1>1, <1>2, <1>4 DEF SentInv
<1>6. ASSUME NEW k \in Window
      PROVE  (k \in open' \/ k >= end_win' \/ k \in Queued(in_q)' \/ k \in InChannel')
               <=> (k \in open \/ k >= end_win \/ k \in Queued(in_q) \/ k \in InChannel)
  <2>1. k \in Int /\ (k >= end_win' => k >= end_win)
    BY <1>1
  <2> QED
    BY <2>1, <1>1, <1>2
<1>7. ToSend' = ToSend
  <2>1. Window' = Window
    BY DEF Window
  <2> QED
    BY <2>1, <1>6 DEF ToSend
<1> QED
  BY <1>5, <1>7

-----------------------------------------------------------------------------
(* The steps of the emitter                                                *)

\* A results set arrives.
LEMMA RcvResultsSetWInv ==
    ASSUME IInv, WInv, NEW x \in toArrive, NEW inst \in {0, total[x[1]]},
           RcvResultsSet(x, inst)
    PROVE  WInv'
<1> DEFINE idle == activatedWorker \cap workerReady
<1>1. /\ inst = 0 => \/ x[1] \in announced
                     \/ \E y \in toArrive : y # x /\ y[1] = x[1]
      /\ toArrive' = toArrive \ {x}
      /\ announced' = IF inst = 0 THEN announced ELSE announced \cup {x[1]}
      /\ end_win' = IF LastWin(x[1]) + 1 > end_win THEN LastWin(x[1]) + 1 ELSE end_win
      /\ UNCHANGED <<total, wlqTerminated, feedback, to_coll, results, collectorVars>>
  BY DEF RcvResultsSet, dataVars
<1>2. PICK s \in {Schedule(Enqueue(x, inst), idle)} :
         /\ Update(s) /\ in_q' = s.q
         /\ first_win_id' = CHOOSE k \in first_win_id..end_win' :
                               /\ k \in s.open \/ k = end_win'
                               /\ first_win_id..(k - 1) \cap s.open = {}
  BY DEF RcvResultsSet
<1>3. PICK e : e = Enqueue(x, inst)
  OBVIOUS
<1>4. s = Schedule(e, idle)
  BY <1>2, <1>3
<1>5. Core(Emitter, Tasks, toArrive, announced, end_win, results)
  BY DEF WInv
<1>6. Core(e, Tasks, toArrive', announced', end_win', results)
  BY <1>1, <1>3, <1>5, EnqueueCore
<1>7. /\ x \in Partition /\ x[1] \in Pane /\ e \in EmitterState
      /\ e.ready = workerReady /\ e.nready = Cardinality(e.ready)
      /\ e.open = open \cup NewDescriptors(x[1])
  <2>1. Enqueued(e, x, inst)
    BY <1>3, EnqueueFields
  <2> QED
    BY <2>1 DEF Enqueued
<1>8. idle \in SUBSET e.ready /\ \A a \in Tasks : a[1] \notin idle
  BY <1>7, OneTask
<1>9. Tasks = TasksIn(in_q, feedback)
  BY DEF Tasks
<1> HIDE DEF idle
<1>10. /\ Core(s, TasksIn(s.q, feedback), toArrive', announced', end_win', results)
       /\ s \in EmitterState /\ s.open \subseteq e.open
       /\ Queued(in_q) \subseteq Queued(s.q)
       /\ Queued(s.q) \subseteq Queued(in_q) \cup e.open
       /\ e.open \subseteq s.open \cup Queued(s.q)
  BY <1>4, <1>6, <1>7, <1>8, <1>9, ScheduleStep DEF Searched
<1>11. Tasks' = TasksIn(s.q, feedback) /\ results' = results /\ open' = s.open
  BY <1>1, <1>2 DEF Tasks, TasksIn, Update
<1>12. Core(Emitter, Tasks, toArrive, announced, end_win, results)'
  BY <1>1, <1>2, <1>10, <1>11, CoreNext
<1>13. /\ end_win \in Nat /\ end_win' \in Nat /\ end_win <= end_win'
       /\ LastWin(x[1]) \in Window /\ Window \subseteq Nat
       /\ \A k \in Window : k >= end_win => k >= end_win' \/ k \in NewDescriptors(x[1])
       /\ NewDescriptors(x[1]) \subseteq {k \in Window : k >= end_win}
       /\ MaxWindow \in Nat
  <2>1. /\ end_win \in 0..(MaxWindow + 1) /\ MaxWindow \in Nat
    BY <1>5, MaxWindowAssumption DEF Core
  <2>2. LastWin(x[1]) \in Window /\ Window \subseteq Nat
    <3>1. LastWin(x[1]) \in WindowsOf(x[1]) /\ WindowsOf(x[1]) \subseteq Window
      BY <1>7, WindowsOfPane
    <3> QED
      BY <3>1, <2>1 DEF Window
  <2>3. end_win \in Nat /\ LastWin(x[1]) \in Nat
    <3>1. end_win \in Nat
      BY <2>1
    <3>2. LastWin(x[1]) \in Nat
      BY <2>2, Zenon
    <3> QED
      BY <3>1, <3>2
  <2>4. end_win' \in Nat /\ end_win <= end_win'
    BY <2>3, <1>1
  <2>5. ASSUME NEW k \in Window, k >= end_win
        PROVE  k >= end_win' \/ k \in NewDescriptors(x[1])
    <3>1. k \in Nat
      BY <2>2
    <3>2. k >= end_win' \/ k <= LastWin(x[1])
      BY <3>1, <2>3, <2>5, <1>1
    <3> QED
      BY <3>1, <3>2, <2>3, <2>5 DEF NewDescriptors
  <2>6. NewDescriptors(x[1]) \subseteq {k \in Window : k >= end_win}
    BY <2>2, <2>3 DEF NewDescriptors
  <2> QED
    BY <2>1, <2>2, <2>3, <2>4, <2>5, <2>6
<1>14. SentInv' /\ ToSend' = ToSend
  <2>1. open' \subseteq open \cup {k \in Window : k >= end_win}
    BY <1>7, <1>10, <1>11, <1>13
  <2>2. \A k \in Window : k >= end_win => k >= end_win' \/ k \in open' \cup Queued(in_q')
    BY <1>2, <1>7, <1>10, <1>11, <1>13
  <2>3. open \subseteq open' \cup Queued(in_q')
    BY <1>2, <1>7, <1>10, <1>11
  <2>4. Queued(in_q) \subseteq Queued(in_q')
    BY <1>2, <1>10
  <2>5. Queued(in_q') \subseteq Queued(in_q) \cup open \cup {k \in Window : k >= end_win}
    BY <1>2, <1>7, <1>10, <1>13
  <2> QED
    BY <2>1, <2>2, <2>3, <2>4, <2>5, <1>1, <1>13, SentByEmitter DEF WInv
<1>15. FirstInv'
  <2> DEFINE T == {k \in first_win_id..end_win' : k \in s.open \/ k = end_win'}
  <2>1. first_win_id \in Nat /\ first_win_id <= end_win /\ \A k \in open : k >= first_win_id
    BY DEF WInv, FirstInv
  <2>2. T \in SUBSET Nat /\ end_win' \in T
    BY <2>1, <1>13
  <2>3. PICK m \in T : \A k \in T : m <= k
    BY <2>2, Alone!LeastNatural, MaxWindowAssumption
  <2>4. ASSUME NEW k \in first_win_id..(m - 1) PROVE k \notin s.open
    <3> SUFFICES ASSUME k \in s.open PROVE FALSE
      OBVIOUS
    <3>1. k \in T
      BY <2>1, <2>2, <1>13
    <3> QED
      BY <3>1, <2>2, <2>3
  <2>5. /\ first_win_id' \in first_win_id..end_win'
        /\ first_win_id..(first_win_id' - 1) \cap s.open = {}
    BY <2>3, <2>4, <1>2
  <2>6. ASSUME NEW k \in s.open PROVE k \in Nat /\ k >= first_win_id
    <3>1. e.open \in SUBSET Window
      BY <1>7 DEF EmitterState
    <3>2. k \in Nat /\ (k \in open \/ k \in NewDescriptors(x[1]))
      BY <3>1, <1>7, <1>10, <1>13
    <3>3. k \in open \/ k >= end_win
      BY <3>2, <1>13
    <3> QED
      BY <3>2, <3>3, <2>1, <1>13
  <2>7. \A k \in open' : k >= first_win_id'
    BY <2>1, <2>5, <2>6, <1>11, <1>13
  <2> QED
    BY <2>1, <2>5, <2>7, <1>13 DEF FirstInv
<1>16. BackInv'
  BY <1>1 DEF WInv, BackInv
<1>17. wlqTerminated' => n_pendingtasks' = 0
  BY <1>1 DEF IInv, StatusInv
<1>18. Alone!Inv'
  BY <1>1, <1>14, AloneSame DEF WInv
<1> QED
  BY <1>1, <1>12, <1>14, <1>15, <1>16, <1>17, <1>18 DEF WInv

\* The stage ends, or not yet: the EOS is no task.
LEMMA TasksAtEnd ==
    ASSUME NEW s, s.q \in [Worker -> Seq(Message)], Terminate(s)
    PROVE  /\ \A back : TasksIn(in_q', back) = TasksIn(s.q, back)
           /\ Queued(in_q') = Queued(s.q)
           /\ wlqTerminated' => wlqTerminated \/ s.npend = 0
<1>1. \A w \in Worker : in_q'[w] \in {s.q[w], Append(s.q[w], GO_OUT), Append(s.q[w], EOS)}
  <2>1. in_q' = [w \in Worker |-> Append(s.q[w], EOS)] \/ in_q' = s.q
    BY DEF Terminate
  <2> QED
    BY <2>1
<1>2. wlqTerminated' => wlqTerminated \/ s.npend = 0
  BY DEF Terminate, CheckTermination
<1>3. PICK r : r = in_q'
  OBVIOUS
<1>4. \A w \in Worker : r[w] \in {s.q[w], Append(s.q[w], GO_OUT), Append(s.q[w], EOS)}
  BY <1>1, <1>3
<1>5. PICK q \in [Worker -> Seq(Message)] : q = s.q
  OBVIOUS
<1>6. (\A back : TasksIn(r, back) = TasksIn(q, back)) /\ Queued(r) = Queued(q)
  BY <1>4, <1>5, TasksSame
<1> QED
  BY <1>2, <1>3, <1>5, <1>6

\* The emitter keeps the windows that are open, or closes some of them by
\* giving their last task away: all but the account of the windows follows.
LEMMA EmitterKeeps ==
    ASSUME IInv, WInv, UNCHANGED <<first_win_id, end_win, to_coll, results, collectorVars>>,
           NEW s, s \in EmitterState, Terminate(s), Update(s), s.open \subseteq open,
           Queued(in_q) \subseteq Queued(s.q),
           Queued(s.q) \subseteq Queued(in_q) \cup open,
           open \subseteq s.open \cup Queued(s.q), ~wlqTerminated,
           BackInv', Core(Emitter, Tasks, toArrive, announced, end_win, results)'
    PROVE  WInv'
<1>1. Queued(in_q') = Queued(s.q) /\ (wlqTerminated' => s.npend = 0)
  BY TasksAtEnd DEF EmitterState
<1>2. open' = s.open /\ n_pendingtasks' = s.npend
  BY DEF Update
<1>3. end_win \in Int /\ end_win' \in Int /\ end_win <= end_win'
  BY DEF WInv, Core
<1>4. SentInv' /\ ToSend' = ToSend
  <2>1. \A k \in Window : k >= end_win => k >= end_win' \/ k \in open' \cup Queued(in_q')
    OBVIOUS
  <2>2. open' \subseteq open \cup {k \in Window : k >= end_win}
    BY <1>2
  <2>3. open \subseteq open' \cup Queued(in_q')
    BY <1>1, <1>2
  <2>4. Queued(in_q) \subseteq Queued(in_q')
    BY <1>1
  <2>5. Queued(in_q') \subseteq Queued(in_q) \cup open \cup {k \in Window : k >= end_win}
    BY <1>1
  <2> QED
    BY <1>3, <2>1, <2>2, <2>3, <2>4, <2>5, SentByEmitter DEF WInv
<1>5. FirstInv'
  BY <1>2 DEF WInv, FirstInv
<1>6. Alone!Inv'
  BY <1>4, AloneSame DEF WInv
<1> QED
  BY <1>1, <1>2, <1>4, <1>5, <1>6 DEF WInv

\* The EOS of a worker of the pane-level stage.
LEMMA EosNotifyWInv ==
    ASSUME IInv, WInv, EosNotify
    PROVE  WInv'
<1>1. /\ UNCHANGED <<total, toArrive, announced, descVars, n_pendingtasks, workerReady,
                     n_readyWorkers, feedback, to_coll, dataVars, collectorVars>>
      /\ Terminate(Emitter)
      /\ eos_received < NUM_WORKER_THREADS
  BY DEF EosNotify
<1>2. Emitter \in EmitterState /\ Emitter.q = in_q /\ Emitter.open = open
  BY EmitterFields DEF Emitter
<1>3. Update(Emitter)
  BY <1>1 DEF Update, Emitter, descVars
<1>4. in_q \in [Worker -> Seq(Message)]
  BY DEF IInv, PoolType
<1>5. Tasks' = Tasks
  <2>1. \A back : TasksIn(in_q', back) = TasksIn(in_q, back)
    BY <1>1, <1>2, <1>4, TasksAtEnd
  <2>2. Tasks' = TasksIn(in_q', feedback)
    BY <1>1 DEF Tasks, TasksIn
  <2> QED
    BY <2>1, <2>2 DEF Tasks
<1>6. Core(Emitter, Tasks, toArrive, announced, end_win, results)'
  <2>1. Core(Emitter, Tasks', toArrive', announced', end_win', results')
    BY <1>1, <1>5 DEF WInv, descVars, dataVars
  <2> QED
    BY <2>1, <1>1, <1>3, CoreNext
<1>7. BackInv'
  BY <1>1 DEF WInv, BackInv
<1>8. ~wlqTerminated
  <2>1. NUM_WORKER_THREADS \in Nat
    BY WLQAssumption
  <2> QED
    BY <2>1, <1>1 DEF IInv, StatusInv
<1>9. UNCHANGED <<first_win_id, end_win, to_coll, results, collectorVars>>
  BY <1>1 DEF descVars, dataVars
<1> QED
  BY <1>1, <1>2, <1>3, <1>6, <1>7, <1>8, <1>9, EmitterKeeps

\* The tasks when the emitter takes one back.
LEMMA TasksBack ==
    ASSUME IInv, NEW w \in Worker, NEW t \in Task, Finished(w, t),
           feedback' = [feedback EXCEPT ![w] = Tail(@)]
    PROVE  TasksIn(in_q, feedback') = Tasks \ {<<w, t>>}
<1>1. feedback[w] = <<t>> /\ Tail(feedback[w]) = <<>>
  BY ShortSequences DEF Finished
<1>2. \A v \in Worker : feedback'[v] = IF v = w THEN <<>> ELSE feedback[v]
  BY <1>1 DEF IInv, PoolType
<1>3. ToSet(feedback[w]) = {t} /\ ToSet(feedback'[w]) = {}
  BY <1>2, <1>1, ShortSets
<1>4. t \notin ToSet(in_q[w])
  <2>1. ~Working(w, t)
    BY ShortSequences DEF Finished, Working
  <2> QED
    BY <2>1, ChannelTasks
<1>5. ASSUME NEW v \in Worker, NEW u \in Task
      PROVE  u \in ToSet(in_q[v]) \cup ToSet(feedback'[v]) <=>
                u \in ToSet(in_q[v]) \cup ToSet(feedback[v]) /\ <<v, u>> # <<w, t>>
  <2>1. CASE v = w
    BY <2>1, <1>3, <1>4
  <2>2. CASE v # w
    BY <2>2, <1>2
  <2> QED
    BY <2>1, <2>2
<1>6. ASSUME NEW a \in Worker \X Task
      PROVE  a \in TasksIn(in_q, feedback') <=> a \in Tasks /\ a # <<w, t>>
  <2>1. a[1] \in Worker /\ a[2] \in Task /\ a = <<a[1], a[2]>>
    OBVIOUS
  <2> QED
    BY <2>1, <1>5 DEF Tasks, TasksIn
<1>7. TasksIn(in_q, feedback') \subseteq Worker \X Task /\ Tasks \subseteq Worker \X Task
  BY DEF Tasks, TasksIn
<1> QED
  BY <1>6, <1>7

\* The feedback of a worker.
LEMMA RcvFeedbackWInv ==
    ASSUME IInv, WInv, NEW w \in Worker, RcvFeedback(w)
    PROVE  WInv'
<1>1. /\ feedback[w] # <<>>
      /\ feedback' = [feedback EXCEPT ![w] = Tail(@)]
      /\ UNCHANGED <<total, toArrive, announced, first_win_id, end_win, to_coll, results,
                     collectorVars>>
  BY DEF RcvFeedback, dataVars
<1>2. PICK t \in Task : Finished(w, t)
  BY <1>1 DEF IInv, WorkersInv, Idle, Has, Working
<1>3. Head(feedback[w]) = t /\ Tail(feedback[w]) = <<>> /\ feedback[w] = <<t>>
  BY <1>2, ShortSequences DEF Finished
<1>4. PICK e \in {Completed(w, t)} :
         \E s \in {IF CanServe(w) THEN Schedule(e, {w}) ELSE e} :
            Update(s) /\ Terminate(s)
  BY <1>3 DEF RcvFeedback
<1>5. PICK s \in {IF CanServe(w) THEN Schedule(e, {w}) ELSE e} :
         Update(s) /\ Terminate(s)
  BY <1>4
<1>6. /\ e \in EmitterState /\ e.ready = workerReady \cup {w}
      /\ e.nready = Cardinality(e.ready) /\ e.q = in_q
  BY <1>2, <1>4, CompletedFields
<1>7. e.open = open
  BY <1>4 DEF Completed, Emitter
<1> DEFINE H == TasksIn(in_q, feedback')
<1>8. H = Tasks \ {<<w, t>>}
  BY <1>1, <1>2, TasksBack
<1>9. t.p2 = {}
  <2>1. t \in ToSet(feedback[w])
    BY <1>2, ChannelTasks
  <2> QED
    BY <2>1 DEF WInv, BackInv
<1> HIDE DEF H
<1>10. Core(e, H, toArrive, announced, end_win, results)
  BY <1>2, <1>4, <1>8, <1>9, CompletedCore DEF WInv
<1>11. /\ Core(s, TasksIn(s.q, feedback'), toArrive, announced, end_win, results)
       /\ s \in EmitterState /\ s.open \subseteq open
       /\ Queued(in_q) \subseteq Queued(s.q)
       /\ Queued(s.q) \subseteq Queued(in_q) \cup open
       /\ open \subseteq s.open \cup Queued(s.q)
  <2>1. CASE CanServe(w)
    <3> DEFINE idle == {w}
    <3>1. s = Schedule(e, idle) /\ idle \in SUBSET e.ready
      BY <1>5, <1>6, <2>1
    <3>2. \A a \in H : a[1] \notin idle
      <4>1. <<w, t>> \in Tasks
        BY <1>2, OneTask DEF Has
      <4> QED
        BY <4>1, <1>8, OneTask
    <3> HIDE DEF idle
    <3>3. PICK back : back = feedback'
      OBVIOUS
    <3>4. H = TasksIn(in_q, back)
      BY <3>3 DEF H
    <3>5. Searched(e, s, back, toArrive, announced, end_win, results)
      BY <1>6, <1>10, <3>1, <3>2, <3>4, ScheduleStep
    <3> QED
      BY <1>7, <3>3, <3>5 DEF Searched
  <2>2. CASE ~CanServe(w)
    <3>1. s = e
      BY <1>5, <2>2
    <3> QED
      BY <3>1, <1>6, <1>7, <1>10 DEF H
  <2> QED
    BY <2>1, <2>2
<1>12. Core(Emitter, Tasks, toArrive, announced, end_win, results)'
  <2>1. \A back : TasksIn(in_q', back) = TasksIn(s.q, back)
    BY <1>5, <1>11, TasksAtEnd DEF EmitterState
  <2>2. Tasks' = TasksIn(in_q', feedback')
    BY DEF Tasks, TasksIn
  <2>3. Core(s, Tasks', toArrive', announced', end_win', results')
    BY <1>1, <1>11, <2>1, <2>2
  <2> QED
    BY <2>3, <1>1, <1>5, CoreNext
<1>13. BackInv'
  <2> SUFFICES ASSUME NEW v \in Worker, NEW u \in ToSet(feedback'[v]) PROVE u.p2 = {}
    BY DEF BackInv
  <2>1. feedback'[v] = IF v = w THEN <<>> ELSE feedback[v]
    BY <1>1, <1>3 DEF IInv, PoolType
  <2>2. v # w
    BY <2>1, ShortSets
  <2> QED
    BY <2>1, <2>2 DEF WInv, BackInv
<1>14. ~wlqTerminated
  BY <1>2 DEF Finished
<1> QED
  BY <1>1, <1>5, <1>11, <1>12, <1>13, <1>14, EmitterKeeps

-----------------------------------------------------------------------------
(* The steps of the workers                                                *)

\* Worker w replaced its task t by t2, which it gave back.
Executed(w, t, t2) ==
    /\ Working(w, t)
    /\ t2.type = t.type /\ t2.win_id = t.win_id /\ t2.finalize = t.finalize
    /\ t2.p2 = {}
    /\ t.type = "WIN_UPDATE" => t2.p1 = t.p1
    /\ t.type = "MERGE" => t2.p1 = t.p1 \cup t.p2
    /\ in_q' = [in_q EXCEPT ![w] = Tail(@)]
    /\ \A u \in Task : u \notin ToSet(Tail(in_q[w]))
    /\ \A v \in Worker : feedback'[v] = IF v = w THEN <<t2>> ELSE feedback[v]
    /\ t.type = "WIN_UPDATE" => results' = [results EXCEPT ![t.win_id] = @ \cup t.p2]
    /\ t.type # "WIN_UPDATE" => results' = results
    /\ t.type = "WIN_UPDATE" /\ t.finalize =>
          to_coll' = [to_coll EXCEPT ![w] = Append(@, t.win_id)]
    /\ ~(t.type = "WIN_UPDATE" /\ t.finalize) => to_coll' = to_coll
    /\ UNCHANGED <<plqVars, descVars, poolVars, status, collectorVars>>

\* What the execution of a task changes.
LEMMA ExecutedTask ==
    ASSUME IInv, NEW w \in Worker, Execute(w)
    PROVE  \E t, t2 \in Task : Executed(w, t, t2)
<1> DEFINE t == Head(in_q[w])
<1>1. /\ status[w] = "running" /\ in_q[w] # <<>>
      /\ in_q' = [in_q EXCEPT ![w] = Tail(@)]
      /\ t.type \in {"WIN_UPDATE", "MERGE"}
      /\ UNCHANGED <<plqVars, descVars, poolVars, status, collectorVars>>
  BY DEF Execute
<1>2. PICK t0 \in Task : Working(w, t0)
  <2>1. t # GO_OUT /\ t # EOS
    BY <1>1 DEF GO_OUT, EOS
  <2>2. Head(<<GO_OUT>>) = GO_OUT /\ Head(<<EOS>>) = EOS
    BY ShortSequences DEF Message
  <2>3. in_q[w] # Orders(w)
    BY <1>1, <2>1, <2>2 DEF Orders
  <2> QED
    BY <2>3 DEF IInv, WorkersInv, Idle, Has, Finished
<1>3. t = t0 /\ Tail(in_q[w]) \in {<<>>, <<GO_OUT>>}
  BY <1>2, ShortSequences DEF Working, Message
<1>4. \A u \in Task : u \notin ToSet(Tail(in_q[w]))
  <2>1. \A u \in Task : u # GO_OUT
    BY DEF Task, GO_OUT
  <2>2. PICK q : q = Tail(in_q[w])
    OBVIOUS
  <2>3. ToSet(q) \subseteq {GO_OUT}
    BY <2>2, <1>3, ShortSets
  <2> QED
    BY <2>1, <2>2, <2>3
<1>5. feedback[w] = <<>> /\ \A u : Append(<<>>, u) = <<u>>
  BY <1>2, ShortSequences DEF Working
<1>6. \A t2 \in Task : feedback' = [feedback EXCEPT ![w] = Append(@, t2)] =>
         \A v \in Worker : feedback'[v] = IF v = w THEN <<t2>> ELSE feedback[v]
  BY <1>5 DEF IInv, PoolType
<1>7. CASE t.type = "WIN_UPDATE"
  <2> DEFINE t2 == [t EXCEPT !.p2 = {}]
  <2>1. /\ results' = [results EXCEPT ![t.win_id] = @ \cup t.p2]
        /\ feedback' = [feedback EXCEPT ![w] = Append(@, t2)]
        /\ to_coll' = IF t.finalize THEN [to_coll EXCEPT ![w] = Append(@, t.win_id)]
                      ELSE to_coll
    BY <1>7 DEF Execute
  <2>2. /\ t2 \in Task /\ t2.type = t.type /\ t2.win_id = t.win_id
        /\ t2.finalize = t.finalize /\ t2.p2 = {} /\ t2.p1 = t.p1
    BY <1>3 DEF Task
  <2> HIDE DEF t2, t
  <2> QED
    BY <1>1, <1>2, <1>3, <1>4, <1>6, <1>7, <2>1, <2>2 DEF Executed
<1>8. CASE t.type = "MERGE"
  <2> DEFINE t2 == [t EXCEPT !.p1 = t.p1 \cup t.p2, !.p2 = {}]
  <2>1. /\ feedback' = [feedback EXCEPT ![w] = Append(@, t2)]
        /\ UNCHANGED <<results, to_coll>>
    BY <1>8 DEF Execute
  <2>2. /\ t2 \in Task /\ t2.type = t.type /\ t2.win_id = t.win_id
        /\ t2.finalize = t.finalize /\ t2.p2 = {} /\ t2.p1 = t.p1 \cup t.p2
    BY <1>3 DEF Task
  <2> HIDE DEF t2, t
  <2> QED
    BY <1>1, <1>2, <1>3, <1>4, <1>6, <1>8, <2>1, <2>2 DEF Executed
<1> QED
  BY <1>1, <1>7, <1>8

\* The tasks after it: t2 takes the place of t, which leaves the input queue.
LEMMA ExecutedTasks ==
    ASSUME IInv, NEW w \in Worker, NEW t \in Task, NEW t2 \in Task, Executed(w, t, t2)
    PROVE  /\ <<w, t>> \in Tasks /\ <<w, t2>> \notin Tasks \ {<<w, t>>}
           /\ Tasks' = (Tasks \ {<<w, t>>}) \cup {<<w, t2>>}
           /\ <<w, t>> \in TasksIn(in_q, Nothing)
           /\ TasksIn(in_q', Nothing) = TasksIn(in_q, Nothing) \ {<<w, t>>}
           /\ TasksIn(in_q, Nothing) \subseteq Tasks
<1>1. /\ Working(w, t)
      /\ in_q' = [in_q EXCEPT ![w] = Tail(@)]
      /\ \A u \in Task : u \notin ToSet(Tail(in_q[w]))
      /\ \A v \in Worker : feedback'[v] = IF v = w THEN <<t2>> ELSE feedback[v]
  BY DEF Executed
<1>2. Has(w, t)
  BY <1>1 DEF Has
<1>3. <<w, t>> \in Tasks
  BY <1>2, OneTask
<1>4. <<w, t2>> \notin Tasks \ {<<w, t>>}
  <2> SUFFICES ASSUME <<w, t2>> \in Tasks, <<w, t2>> # <<w, t>> PROVE FALSE
    OBVIOUS
  <2>1. <<w, t2>>[1] = <<w, t>>[1]
    OBVIOUS
  <2> QED
    BY <2>1, <1>3, OneTask
<1>5. \A v \in Worker : in_q'[v] = IF v = w THEN Tail(in_q[w]) ELSE in_q[v]
  BY <1>1 DEF IInv, PoolType
<1>6. ASSUME NEW u \in Task
      PROVE  /\ u \in ToSet(in_q[w]) <=> u = t
             /\ u \notin ToSet(feedback[w]) /\ u \notin ToSet(in_q'[w])
             /\ u \in ToSet(feedback'[w]) <=> u = t2
  <2>1. Working(w, u) => u = t
    <3> SUFFICES ASSUME Working(w, u), u # t PROVE FALSE
      OBVIOUS
    <3>1. <<w, u>> \in Tasks /\ <<w, u>>[1] = <<w, t>>[1]
      BY OneTask DEF Has
    <3>2. <<w, u>> = <<w, t>>
      BY <3>1, <1>3, OneTask
    <3> QED
      BY <3>2
  <2>2. u \in ToSet(in_q[w]) <=> u = t
    BY <2>1, <1>1, ChannelTasks
  <2>3. u \notin ToSet(feedback[w])
    BY <1>1, ShortSets DEF Working
  <2>4. u \notin ToSet(in_q'[w])
    BY <1>1, <1>5
  <2>5. u \in ToSet(feedback'[w]) <=> u = t2
    BY <1>1, ShortSets
  <2> QED
    BY <2>2, <2>3, <2>4, <2>5
<1>7. ToSet(<<>>) = {} /\ \A v \in Worker : Nothing[v] = <<>>
  BY ShortSets DEF Nothing
<1>8. ASSUME NEW v \in Worker, NEW u \in Task
      PROVE  /\ u \in ToSet(in_q'[v]) \cup ToSet(feedback'[v]) <=>
                   \/ u \in ToSet(in_q[v]) \cup ToSet(feedback[v]) /\ <<v, u>> # <<w, t>>
                   \/ <<v, u>> = <<w, t2>>
             /\ u \in ToSet(in_q'[v]) \cup ToSet(Nothing[v]) <=>
                   u \in ToSet(in_q[v]) \cup ToSet(Nothing[v]) /\ <<v, u>> # <<w, t>>
  <2>1. CASE v = w
    <3>1. /\ <<v, u>> = <<w, t>> <=> u = t
          /\ <<v, u>> = <<w, t2>> <=> u = t2
      BY <2>1
    <3> QED
      BY <3>1, <2>1, <1>6, <1>7
  <2>2. CASE v # w
    BY <2>2, <1>1, <1>5, <1>7
  <2> QED
    BY <2>1, <2>2
<1> DEFINE T == Tasks'
           Q == TasksIn(in_q', Nothing)
           P == TasksIn(in_q, Nothing)
<1>9. /\ T \subseteq Worker \X Task /\ Q \subseteq Worker \X Task
      /\ Tasks \subseteq Worker \X Task /\ P \subseteq Worker \X Task
  BY DEF Tasks, TasksIn
<1>10. ASSUME NEW a \in Worker \X Task
       PROVE  /\ a \in T <=> (a \in Tasks /\ a # <<w, t>>) \/ a = <<w, t2>>
              /\ a \in Q <=> a \in P /\ a # <<w, t>>
              /\ a \in P => a \in Tasks
  <2>1. a[1] \in Worker /\ a[2] \in Task /\ a = <<a[1], a[2]>>
    OBVIOUS
  <2>2. /\ a \in T <=> a[2] \in ToSet(in_q'[a[1]]) \cup ToSet(feedback'[a[1]])
        /\ a \in Tasks <=> a[2] \in ToSet(in_q[a[1]]) \cup ToSet(feedback[a[1]])
        /\ a \in Q <=> a[2] \in ToSet(in_q'[a[1]]) \cup ToSet(Nothing[a[1]])
        /\ a \in P <=> a[2] \in ToSet(in_q[a[1]]) \cup ToSet(Nothing[a[1]])
    BY DEF Tasks, TasksIn
  <2> HIDE DEF T, Q, P
  <2>3. a \in P => a \in Tasks
    BY <2>1, <2>2, <1>7
  <2>4. a \in T <=> (a \in Tasks /\ a # <<w, t>>) \/ a = <<w, t2>>
    BY <2>1, <2>2, <1>8
  <2>5. a \in Q <=> a \in P /\ a # <<w, t>>
    BY <2>1, <2>2, <1>8
  <2> QED
    BY <2>3, <2>4, <2>5
<1>11. <<w, t>> \in P
  BY <1>6 DEF TasksIn
<1>12. <<w, t2>> \in Worker \X Task
  OBVIOUS
<1> HIDE DEF T, Q, P
<1>13. T = (Tasks \ {<<w, t>>}) \cup {<<w, t2>>}
  BY <1>9, <1>10, <1>12
<1>14. Q = P \ {<<w, t>>} /\ P \subseteq Tasks
  BY <1>9, <1>10
<1> QED
  BY <1>3, <1>4, <1>11, <1>13, <1>14 DEF T, Q, P

\* The account of the windows after it.
LEMMA ExecutedCore ==
    ASSUME IInv, WInv, NEW w \in Worker, NEW t \in Task, NEW t2 \in Task,
           Executed(w, t, t2), NEW G, G = (Tasks \ {<<w, t>>}) \cup {<<w, t2>>},
           <<w, t>> \in Tasks, <<w, t2>> \notin Tasks \ {<<w, t>>}
    PROVE  Core(Emitter, G, toArrive, announced, end_win, results')
<1> DEFINE H == Tasks
           a == <<w, t>>
           b == <<w, t2>>
<1>1. /\ Core(Emitter, H, toArrive, announced, end_win, results)
      /\ results \in [Window -> SUBSET Partition]
      /\ a \in H /\ b \notin H \ {a} /\ G = (H \ {a}) \cup {b}
  BY DEF WInv
<1>2. a[2] = t /\ b[2] = t2
  OBVIOUS
<1>3. /\ b[2].type = a[2].type /\ b[2].win_id = a[2].win_id
      /\ b[2].finalize = a[2].finalize /\ b[2].p2 = {}
      /\ a[2].type = "WIN_UPDATE" => b[2].p1 = a[2].p1
      /\ a[2].type = "MERGE" => b[2].p1 = a[2].p1 \cup a[2].p2
      /\ a[2].type \in {"WIN_UPDATE", "MERGE"} /\ t.win_id \in Window
      /\ a[2].win_id = t.win_id
  BY <1>2 DEF Executed, Task
<1>4. ASSUME NEW k \in Window, k # t.win_id PROVE results'[k] = results[k]
  <2>1. CASE t.type = "WIN_UPDATE"
    BY <2>1, <1>1, <1>4 DEF Executed
  <2>2. CASE t.type # "WIN_UPDATE"
    BY <2>2 DEF Executed
  <2> QED
    BY <2>1, <2>2
<1>5. a[2].type = "WIN_UPDATE" => results'[t.win_id] = results[t.win_id] \cup a[2].p2
  BY <1>1, <1>2, <1>3 DEF Executed
<1>6. a[2].type = "MERGE" => results'[t.win_id] = results[t.win_id]
  BY <1>2 DEF Executed
<1> HIDE DEF H, a, b
<1>7. IsFiniteSet(H) /\ IsFiniteSet(G) /\ Cardinality(Merges(G)) = Cardinality(Merges(H))
  <2> DEFINE F == H \ {a}
  <2>1. IsFiniteSet(H)
    BY <1>1 DEF Core, Pending
  <2>2. /\ IsFiniteSet(F) /\ IsFiniteSet(Merges(H)) /\ Cardinality(Merges(H)) \in Nat
        /\ Cardinality(Merges(F)) = IF a[2].type = "MERGE"
                                    THEN Cardinality(Merges(H)) - 1
                                    ELSE Cardinality(Merges(H))
    BY <2>1, <1>1, TaskRemove
  <2>3. b \notin F /\ G = F \cup {b}
    BY <1>1
  <2> HIDE DEF F
  <2>4. /\ IsFiniteSet(F \cup {b})
        /\ Cardinality(Merges(F \cup {b})) = IF b[2].type = "MERGE"
                                             THEN Cardinality(Merges(F)) + 1
                                             ELSE Cardinality(Merges(F))
    BY <2>2, <2>3, TaskAdd
  <2>5. IsFiniteSet(H) /\ IsFiniteSet(G)
    BY <2>1, <2>3, <2>4
  <2>6. Merges(F \cup {b}) = Merges(G)
    BY <2>3
  <2> DEFINE mH == Cardinality(Merges(H))
             mF == Cardinality(Merges(F))
             mG == Cardinality(Merges(G))
  <2>7. /\ mH \in Nat
        /\ mF = IF a[2].type = "MERGE" THEN mH - 1 ELSE mH
        /\ mG = IF a[2].type = "MERGE" THEN mF + 1 ELSE mF
    BY <2>2, <2>4, <2>6, <1>3
  <2> HIDE DEF mH, mF, mG
  <2>8. mG = mH
    BY <2>7
  <2> QED
    BY <2>5, <2>8 DEF mG, mH
<1>8. ASSUME NEW k \in Window
      PROVE  WindowInv(k, Stage(open, end_win, k), isBusy[k], pendingQueue[k],
                       cnt_tasks_com[k], Came(k, toArrive), results'[k], Of(G, k))
  <2>1. WindowInv(k, Stage(open, end_win, k), isBusy[k], pendingQueue[k],
                  cnt_tasks_com[k], Came(k, toArrive), results[k], Of(H, k))
    BY <1>1 DEF Core, Windows, Emitter
  <2>2. CASE k # t.win_id
    <3>1. Of(G, k) = Of(H, k) /\ results'[k] = results[k]
      BY <2>2, <1>1, <1>3, <1>4 DEF Of
    <3> QED
      BY <2>1, <3>1
  <2>3. CASE k = t.win_id
    <3> DEFINE Hk == Of(H, k)
    <3>1. /\ Of(G, k) = (Hk \ {a}) \cup {b} /\ a \in Hk /\ b \notin Hk \ {a}
      BY <2>3, <1>1, <1>3 DEF Of
    <3> HIDE DEF Hk
    <3>2. CASE a[2].type = "WIN_UPDATE"
      <4>1. WindowInv(k, Stage(open, end_win, k), isBusy[k], pendingQueue[k],
                      cnt_tasks_com[k], Came(k, toArrive), results[k] \cup a[2].p2,
                      (Hk \ {a}) \cup {b})
        BY <2>1, <3>1, <3>2, <1>3, WindowUpdated DEF Hk
      <4> QED
        BY <4>1, <3>1, <3>2, <2>3, <1>5
    <3>3. CASE a[2].type = "MERGE"
      <4>1. WindowInv(k, Stage(open, end_win, k), isBusy[k], pendingQueue[k],
                      cnt_tasks_com[k], Came(k, toArrive), results[k],
                      (Hk \ {a}) \cup {b})
        BY <2>1, <3>1, <3>3, <1>3, WindowMerged DEF Hk
      <4> QED
        BY <4>1, <3>1, <3>3, <2>3, <1>6
    <3> QED
      BY <3>2, <3>3, <1>3
  <2> QED
    BY <2>2, <2>3
<1>9. Windows(Emitter, G, toArrive, end_win, results')
  BY <1>8 DEF Windows, Emitter
<1>10. Pending(Emitter, G)
  BY <1>1, <1>7 DEF Core, Pending
<1> QED
  BY <1>1, <1>9, <1>10 DEF Core

\* A window that was not in the channels enters one of them, at its end.
Entered(chan, chan2, w, k) ==
    /\ chan2 \in [Worker -> Seq(Window)] /\ Distinct(chan2)
    /\ \A v \in Worker \ {w} : ToSet(chan2[v]) = ToSet(chan[v])
    /\ ToSet(chan2[w]) = ToSet(chan[w]) \cup {k}

\* A channel with one more message.
LEMMA ChannelAppend ==
    ASSUME NEW chan \in [Worker -> Seq(Window)], NEW w \in Worker, NEW k \in Window,
           \A v \in Worker : k \notin ToSet(chan[v]), Distinct(chan),
           NEW chan2, chan2 = [chan EXCEPT ![w] = Append(@, k)]
    PROVE  Entered(chan, chan2, w, k)
<1>1. /\ chan2 \in [Worker -> Seq(Window)] /\ chan2[w] = Append(chan[w], k)
      /\ \A v \in Worker \ {w} : chan2[v] = chan[v]
  BY AppendProperties
<1>2. /\ \A v \in Worker \ {w} : ToSet(chan2[v]) = ToSet(chan[v])
      /\ ToSet(chan2[w]) = ToSet(chan[w]) \cup {k}
  <2>1. chan[w] \in Seq(Window)
    OBVIOUS
  <2>2. ToSet(chan2[w]) = ToSet(chan[w]) \cup {k}
    BY <1>1, <2>1, AppendToSet
  <2> QED
    BY <1>1, <2>2
<1>3. ASSUME NEW v \in Worker, NEW i \in 1..Len(chan2[v])
      PROVE  \/ i \in 1..Len(chan[v]) /\ chan2[v][i] = chan[v][i] /\ chan2[v][i] # k
             \/ v = w /\ i = Len(chan[w]) + 1 /\ chan2[v][i] = k
  <2>1. chan[v] \in Seq(Window) /\ Len(chan[v]) \in Nat
    BY LenProperties
  <2>2. \A n \in 1..Len(chan[v]) : chan[v][n] \in ToSet(chan[v])
    BY <2>1 DEF ToSet
  <2>3. CASE v = w
    <3>1. /\ Len(chan2[w]) = Len(chan[w]) + 1
          /\ \A n \in 1..Len(chan[w]) : chan2[w][n] = chan[w][n]
          /\ chan2[w][Len(chan[w]) + 1] = k
      BY <1>1, <2>1, <2>3, AppendProperties
    <3> QED
      BY <2>1, <2>2, <2>3, <3>1
  <2>4. CASE v # w
    BY <1>1, <2>2, <2>4
  <2> QED
    BY <2>3, <2>4
<1>4. ASSUME NEW u \in Worker, NEW v \in Worker, NEW i \in 1..Len(chan2[u]),
             NEW j \in 1..Len(chan2[v]), chan2[u][i] = chan2[v][j]
      PROVE  u = v /\ i = j
  <2>1. CASE chan2[u][i] = k
    BY <1>3, <1>4, <2>1
  <2>2. CASE chan2[u][i] # k
    <3>1. /\ i \in 1..Len(chan[u]) /\ j \in 1..Len(chan[v])
          /\ chan[u][i] = chan[v][j]
      BY <1>3, <1>4, <2>2
    <3> QED
      BY <3>1 DEF Distinct
  <2> QED
    BY <2>1, <2>2
<1>5. Distinct(chan2)
  BY <1>4 DEF Distinct
<1> QED
  BY <1>1, <1>2, <1>5 DEF Entered

\* The windows still to be sent after it: the window of a last task goes from
\* the input queue to the channel to the collector.
LEMMA ExecutedSent ==
    ASSUME IInv, WInv, NEW w \in Worker, NEW t \in Task, NEW t2 \in Task,
           Executed(w, t, t2)
    PROVE  SentInv' /\ ToSend' = ToSend
<1> DEFINE k == t.win_id
           a == <<w, t>>
           P == TasksIn(in_q, Nothing)
           Q == TasksIn(in_q', Nothing)
<1>1. /\ a \in Tasks /\ a \in P /\ Q = P \ {a} /\ P \subseteq Tasks
      /\ a[2] = t /\ k \in Window
  BY ExecutedTasks DEF Task
<1>2. /\ open' = open /\ end_win' = end_win /\ SentInv
  BY DEF Executed, descVars, WInv
<1>3. WindowInv(k, Stage(open, end_win, k), isBusy[k], pendingQueue[k],
                cnt_tasks_com[k], Came(k, toArrive), results[k], Of(Tasks, k))
  BY <1>1 DEF WInv, Core, Windows, Emitter
<1>4. /\ a \in Of(Tasks, k)
      /\ \A b \in Of(Tasks, k) : b[2].finalize <=> Stage(open, end_win, k) = "closed"
      /\ Stage(open, end_win, k) # "none"
      /\ \A b \in Of(Tasks, k) : b[2].finalize => b[2].type = "WIN_UPDATE"
      /\ \A b, c \in Of(Tasks, k) : b[2].type = "WIN_UPDATE" /\ c[2].type = "WIN_UPDATE"
                                    => b = c
  <2>1. a \in Of(Tasks, k)
    BY <1>1 DEF Of
  <2>2. Stage(open, end_win, k) # "none"
    BY <2>1, <1>3 DEF WindowInv
  <2> QED
    BY <2>1, <2>2, <1>3 DEF WindowInv
<1>5. \A j : j \in Queued(in_q) <=> \E b \in P : b[2].win_id = j
  BY DEF Queued
<1>6. \A j : j \in Queued(in_q)' <=> \E b \in Q : b[2].win_id = j
  BY DEF Queued, TasksIn
<1>7. /\ k \in Queued(in_q)
      /\ \A j : j # k => (j \in Queued(in_q)' <=> j \in Queued(in_q))
  <2> HIDE DEF a, P, Q
  <2> QED
    BY <1>1, <1>5, <1>6
<1>8. k \notin InChannel
  BY <1>2, <1>7 DEF SentInv
<1>9. CASE t.finalize
  <2>1. t.type = "WIN_UPDATE" /\ Stage(open, end_win, k) = "closed"
    BY <1>1, <1>4, <1>9
  <2>2. k \notin open /\ k < end_win
    <3>1. end_win \in Int /\ k \in Int
      BY <1>1, MaxWindowAssumption DEF WInv, Core, Window
    <3> QED
      BY <2>1, <3>1 DEF Stage
  <2>3. k \notin Queued(in_q)'
    <3>1. \A b \in P : b[2].win_id = k => b = a
      <4> SUFFICES ASSUME NEW b \in P, b[2].win_id = k PROVE b = a
        OBVIOUS
      <4>1. b \in Of(Tasks, k)
        BY <1>1 DEF Of
      <4> QED
        BY <4>1, <2>1, <1>4
    <3> HIDE DEF a, P, Q
    <3> QED
      BY <3>1, <1>1, <1>6
  <2>4. to_coll' = [to_coll EXCEPT ![w] = Append(@, k)]
    BY <1>9, <2>1 DEF Executed
  <2>5. /\ to_coll' \in [Worker -> Seq(Window)] /\ Distinct(to_coll')
        /\ \A v \in Worker \ {w} : ToSet(to_coll'[v]) = ToSet(to_coll[v])
        /\ ToSet(to_coll'[w]) = ToSet(to_coll[w]) \cup {k}
    <3>1. PICK chan2 : chan2 = to_coll'
      OBVIOUS
    <3>2. \A v \in Worker : k \notin ToSet(to_coll[v])
      BY <1>8 DEF InChannel
    <3>3. chan2 = [to_coll EXCEPT ![w] = Append(@, k)]
      BY <2>4, <3>1
    <3>4. to_coll \in [Worker -> Seq(Window)] /\ Distinct(to_coll)
      BY <1>2 DEF SentInv
    <3> HIDE DEF k
    <3>5. Entered(to_coll, chan2, w, k)
      BY <1>1, <3>2, <3>3, <3>4, ChannelAppend
    <3> QED
      BY <3>1, <3>5 DEF Entered
  <2>6. InChannel' = InChannel \cup {k}
    BY <2>5 DEF InChannel
  <2> HIDE DEF k
  <2>7. \A j \in InChannel' : j \notin open' /\ j < end_win' /\ j \notin Queued(in_q)'
    BY <1>2, <1>7, <2>2, <2>3, <2>6 DEF SentInv
  <2>8. SentInv'
    BY <2>5, <2>7 DEF SentInv
  <2>9. ToSend' = ToSend
    <3>1. Window' = Window
      BY DEF Window
    <3>2. \A j \in Window :
             (j \in open' \/ j >= end_win' \/ j \in Queued(in_q)' \/ j \in InChannel')
               <=> (j \in open \/ j >= end_win \/ j \in Queued(in_q) \/ j \in InChannel)
      BY <1>2, <1>7, <2>3, <2>6
    <3> QED
      BY <3>1, <3>2 DEF ToSend
  <2> QED
    BY <2>8, <2>9
<1>10. CASE ~t.finalize
  <2>1. Stage(open, end_win, k) # "closed" /\ Stage(open, end_win, k) # "none"
    BY <1>1, <1>4, <1>10
  <2>2. k \in open
    BY <2>1 DEF Stage
  <2>3. to_coll' = to_coll
    BY <1>10 DEF Executed
  <2>4. InChannel' = InChannel
    BY <2>3 DEF InChannel
  <2> HIDE DEF k
  <2>5. \A j \in InChannel' : j \notin open' /\ j < end_win' /\ j \notin Queued(in_q)'
    BY <1>2, <1>7, <1>8, <2>4 DEF SentInv
  <2>6. SentInv'
    BY <1>2, <2>3, <2>5 DEF SentInv
  <2>7. ToSend' = ToSend
    <3>1. Window' = Window
      BY DEF Window
    <3>2. \A j \in Window :
             (j \in open' \/ j >= end_win' \/ j \in Queued(in_q)' \/ j \in InChannel')
               <=> (j \in open \/ j >= end_win \/ j \in Queued(in_q) \/ j \in InChannel)
      BY <1>2, <1>7, <2>2, <2>4
    <3> QED
      BY <3>1, <3>2 DEF ToSend
  <2> QED
    BY <2>6, <2>7
<1> QED
  BY <1>9, <1>10

\* A worker executes its task.
LEMMA ExecuteWInv ==
    ASSUME IInv, WInv, NEW w \in Worker, Execute(w)
    PROVE  WInv'
<1>1. PICK t \in Task, t2 \in Task : Executed(w, t, t2)
  BY ExecutedTask
<1>2. /\ <<w, t>> \in Tasks /\ <<w, t2>> \notin Tasks \ {<<w, t>>}
      /\ Tasks' = (Tasks \ {<<w, t>>}) \cup {<<w, t2>>}
  BY <1>1, ExecutedTasks
<1>3. UNCHANGED <<plqVars, descVars, poolVars, collectorVars>>
  BY <1>1 DEF Executed
<1>4. Core(Emitter, Tasks', toArrive, announced, end_win, results')
  <2>1. PICK G : G = Tasks'
    OBVIOUS
  <2>2. G = (Tasks \ {<<w, t>>}) \cup {<<w, t2>>}
    BY <1>2, <2>1
  <2> QED
    BY <1>1, <1>2, <2>1, <2>2, ExecutedCore
<1>5. Core(Emitter, Tasks, toArrive, announced, end_win, results)'
  <2>1. Core(Emitter, Tasks', toArrive', announced', end_win', results')
    BY <1>3, <1>4 DEF plqVars, descVars
  <2>2. Update(Emitter)
    BY <1>3 DEF Update, Emitter, descVars, poolVars
  <2>3. total' = total
    BY <1>3 DEF plqVars
  <2> QED
    BY <2>1, <2>2, <2>3, CoreNext
<1>6. SentInv' /\ ToSend' = ToSend
  BY <1>1, ExecutedSent
<1>7. FirstInv'
  BY <1>3 DEF WInv, FirstInv, descVars
<1>8. BackInv'
  <2> SUFFICES ASSUME NEW v \in Worker, NEW u \in ToSet(feedback'[v]) PROVE u.p2 = {}
    BY DEF BackInv
  <2>1. feedback'[v] = IF v = w THEN <<t2>> ELSE feedback[v]
    BY <1>1 DEF Executed
  <2>2. CASE v = w
    <3>1. u = t2
      BY <2>1, <2>2, ShortSets
    <3> QED
      BY <3>1, <1>1 DEF Executed
  <2>3. CASE v # w
    BY <2>1, <2>3 DEF WInv, BackInv
  <2> QED
    BY <2>2, <2>3
<1>9. results' \in [Window -> SUBSET Partition]
  <2>1. results \in [Window -> SUBSET Partition]
    BY DEF WInv
  <2>2. CASE t.type = "WIN_UPDATE"
    <3>1. t.win_id \in Window /\ t.p2 \in SUBSET Partition
      BY DEF Task
    <3>2. results' = [results EXCEPT ![t.win_id] = @ \cup t.p2]
      BY <1>1, <2>2 DEF Executed
    <3> QED
      BY <2>1, <3>1, <3>2
  <2>3. CASE t.type # "WIN_UPDATE"
    BY <1>1, <2>1, <2>3 DEF Executed
  <2> QED
    BY <2>2, <2>3
<1>10. wlqTerminated' => n_pendingtasks' = 0
  BY <1>3 DEF WInv, poolVars
<1>11. Alone!Inv'
  BY <1>3, <1>6, AloneSame DEF WInv
<1> QED
  BY <1>5, <1>6, <1>7, <1>8, <1>9, <1>10, <1>11 DEF WInv

-----------------------------------------------------------------------------
(* The other steps                                                         *)

\* A step that changes neither the tasks nor the windows.
LEMMA TasksKept ==
    ASSUME IInv, WInv,
           UNCHANGED <<plqVars, descVars, n_pendingtasks, wlqTerminated, feedback, to_coll,
                       dataVars, collectorVars>>,
           Tasks' = Tasks, Queued(in_q)' = Queued(in_q)
    PROVE  WInv'
<1>1. /\ UNCHANGED <<total, toArrive, announced, first_win_id, end_win, open, cnt_ins,
                     cnt_tasks_com, pendingQueue, isBusy, n_pendingtasks, results>>
      /\ UNCHANGED <<wlqTerminated, feedback, to_coll, collectorVars>>
  BY DEF plqVars, descVars, dataVars
<1>2. Core(Emitter, Tasks, toArrive, announced, end_win, results)
  BY DEF WInv
<1>3. Core(Emitter, Tasks, toArrive, announced, end_win, results)'
  <2> DEFINE s == [Emitter EXCEPT !.ready = workerReady', !.nready = n_readyWorkers']
  <2>1. /\ s.open = Emitter.open /\ s.ins = Emitter.ins /\ s.com = Emitter.com
        /\ s.pending = Emitter.pending /\ s.busy = Emitter.busy
        /\ s.npend = Emitter.npend /\ s.ready = workerReady' /\ s.nready = n_readyWorkers'
    BY DEF Emitter
  <2> HIDE DEF s
  <2>2. Core(s, Tasks, toArrive, announced, end_win, results)
    BY <2>1, <1>2 DEF Core, Windows, Pending
  <2>3. Core(s, Tasks', toArrive', announced', end_win', results')
    BY <2>2, <1>1
  <2>4. Update(s)
    BY <2>1, <1>1 DEF Update, Emitter
  <2> QED
    BY <2>3, <2>4, <1>1, CoreNext
<1>4. InChannel' = InChannel
  BY <1>1 DEF InChannel
<1>5. SentInv'
  BY <1>1, <1>4 DEF WInv, SentInv
<1>6. ToSend' = ToSend
  <2>1. Window' = Window
    BY DEF Window
  <2> QED
    BY <2>1, <1>1, <1>4 DEF ToSend
<1>7. FirstInv' /\ BackInv'
  BY <1>1 DEF WInv, FirstInv, BackInv
<1>8. Alone!Inv'
  BY <1>1, <1>6, AloneSame DEF WInv
<1> QED
  BY <1>1, <1>3, <1>5, <1>7, <1>8 DEF WInv

\* The order that a worker obeys is no task.
LEMMA LeaveTasks ==
    ASSUME IInv, NEW w \in Worker, Leave(w)
    PROVE  \A back : TasksIn(in_q', back) = TasksIn(in_q, back)
<1>1. /\ in_q[w] # <<>> /\ Head(in_q[w]) \in {GO_OUT, EOS}
      /\ in_q' = [in_q EXCEPT ![w] = Tail(@)]
      /\ UNCHANGED <<plqVars, descVars, poolVars, feedback, to_coll, dataVars,
                     collectorVars>>
  BY DEF Leave
<1>2. in_q \in [Worker -> Seq(Message)]
  BY DEF IInv, PoolType
<1>3. ASSUME NEW v \in Worker, NEW t \in Task
      PROVE  t \in ToSet(in_q'[v]) <=> t \in ToSet(in_q[v])
  <2>1. CASE v = w
    <3>1. PICK q \in Seq(Message) : q = in_q[w]
      BY <1>2
    <3>2. PICK r \in Seq(Message) : r = Tail(q)
      BY <3>1, <1>1, HeadTailProperties
    <3>3. /\ Len(r) = Len(q) - 1 /\ Len(q) \in Nat /\ Len(q) # 0 /\ Len(r) \in Nat
          /\ \A i \in 1..Len(r) : r[i] = q[i + 1]
          /\ Head(q) = q[1]
          /\ DOMAIN q = 1..Len(q) /\ DOMAIN r = 1..Len(r)
      BY <3>1, <3>2, <1>1, HeadTailProperties, LenProperties, EmptySeq
    <3>4. q[1] \in {GO_OUT, EOS} /\ t \notin {GO_OUT, EOS}
      BY <3>1, <3>3, <1>1 DEF Task, GO_OUT, EOS
    <3>5. t \in ToSet(r) => t \in ToSet(q)
      BY <3>3 DEF ToSet
    <3>6. ASSUME t \in ToSet(q) PROVE t \in ToSet(r)
      <4>1. PICK i \in 1..Len(q) : q[i] = t
        BY <3>3, <3>6 DEF ToSet
      <4>2. i # 1
        BY <4>1, <3>4
      <4>3. i - 1 \in 1..Len(r) /\ (i - 1) + 1 = i
        BY <4>2, <3>3
      <4>4. r[i - 1] = t
        BY <4>1, <4>3, <3>3
      <4> QED
        BY <4>3, <4>4, <3>3 DEF ToSet
    <3>7. in_q'[w] = r
      BY <1>1, <1>2, <3>1, <3>2
    <3> QED
      BY <2>1, <3>1, <3>5, <3>6, <3>7
  <2>2. CASE v # w
    BY <2>2, <1>1, <1>2
  <2> QED
    BY <2>1, <2>2
<1> QED
  BY <1>3 DEF TasksIn

\* The invariant is kept when a worker freezes or ends.
LEMMA LeaveWInv ==
    ASSUME IInv, WInv, NEW w \in Worker, Leave(w)
    PROVE  WInv'
<1>1. UNCHANGED <<plqVars, descVars, poolVars, feedback, to_coll, dataVars, collectorVars>>
  BY DEF Leave
<1>2. \A back : TasksIn(in_q', back) = TasksIn(in_q, back)
  BY LeaveTasks
<1>3. Tasks' = Tasks /\ Queued(in_q)' = Queued(in_q)
  <2>1. Tasks' = TasksIn(in_q', feedback)
    BY <1>1 DEF Tasks, TasksIn
  <2>2. Queued(in_q)' = Queued(in_q')
    BY DEF Queued, TasksIn
  <2> QED
    BY <2>1, <2>2, <1>2 DEF Tasks, Queued
<1> QED
  BY <1>1, <1>3, TasksKept DEF poolVars

\* The invariant is kept by the command to add workers.
LEMMA AddWorkersWInv ==
    ASSUME IInv, WInv, NEW W, AddWorkers(W)
    PROVE  WInv'
<1>1. UNCHANGED <<plqVars, descVars, n_pendingtasks, wlqTerminated, in_q, feedback,
                  to_coll, dataVars, collectorVars>>
  BY DEF AddWorkers
<1>2. Tasks' = Tasks /\ Queued(in_q)' = Queued(in_q)
  BY <1>1 DEF Tasks, TasksIn, Queued
<1> QED
  BY <1>1, <1>2, TasksKept

\* The invariant is kept by the command to remove workers.
LEMMA RemoveWorkersWInv ==
    ASSUME IInv, WInv, NEW W, RemoveWorkers(W)
    PROVE  WInv'
<1>1. /\ UNCHANGED <<plqVars, descVars, n_pendingtasks, wlqTerminated, feedback,
                     to_coll, dataVars, collectorVars>>
      /\ in_q' = [w \in Worker |->
                     IF w \in W THEN Append(in_q[w], GO_OUT) ELSE in_q[w]]
  BY DEF RemoveWorkers
<1>2. PICK r : r = in_q'
  OBVIOUS
<1>3. \A w \in Worker : r[w] \in {in_q[w], Append(in_q[w], GO_OUT), Append(in_q[w], EOS)}
  BY <1>1, <1>2
<1>4. in_q \in [Worker -> Seq(Message)]
  BY DEF IInv, PoolType
<1>5. TasksIn(r, feedback) = TasksIn(in_q, feedback) /\ Queued(r) = Queued(in_q)
  BY <1>3, <1>4, TasksSame
<1>6. Tasks' = TasksIn(in_q', feedback) /\ Queued(in_q)' = Queued(in_q')
  BY <1>1 DEF Tasks, TasksIn, Queued
<1>7. Tasks' = Tasks /\ Queued(in_q)' = Queued(in_q)
  BY <1>2, <1>5, <1>6 DEF Tasks
<1> QED
  BY <1>1, <1>7, TasksKept

\* The collector receives the first window of a channel.
LEMMA CollectFromWInv ==
    ASSUME IInv, WInv, NEW w \in Worker, CollectFrom(w)
    PROVE  WInv' /\ Alone!Next
<1> DEFINE q == to_coll[w]
           k == Head(q)
<1>1. /\ q # <<>> /\ Collect(k)
      /\ to_coll' = [to_coll EXCEPT ![w] = Tail(@)]
      /\ UNCHANGED <<plqVars, descVars, poolVars, in_q, status, feedback, dataVars>>
  BY DEF CollectFrom
<1>2. /\ to_coll \in [Worker -> Seq(Window)] /\ Distinct(to_coll)
      /\ \A j \in InChannel : j \notin open /\ j < end_win /\ j \notin Queued(in_q)
  BY DEF WInv, SentInv
<1>3. /\ q \in Seq(Window) /\ Len(q) \in Nat \ {0}
      /\ Tail(q) \in Seq(Window) /\ Len(Tail(q)) = Len(q) - 1
      /\ \A i \in 1..Len(Tail(q)) : Tail(q)[i] = q[i + 1]
      /\ k = q[1] /\ k \in Window
      /\ DOMAIN q = 1..Len(q) /\ DOMAIN Tail(q) = 1..Len(Tail(q))
  <2>1. q \in Seq(Window)
    BY <1>2
  <2> QED
    BY <2>1, <1>1, HeadTailProperties, LenProperties, EmptySeq
<1>4. /\ to_coll' \in [Worker -> Seq(Window)] /\ to_coll'[w] = Tail(q)
      /\ \A v \in Worker \ {w} : to_coll'[v] = to_coll[v]
  BY <1>1, <1>2, <1>3
<1> HIDE DEF k
\* Where the elements of the channels were.
<1> DEFINE Place(v, i) == IF v = w THEN i + 1 ELSE i
<1>5. ASSUME NEW v \in Worker, NEW i \in 1..Len(to_coll'[v])
      PROVE  /\ Place(v, i) \in 1..Len(to_coll[v])
             /\ to_coll'[v][i] = to_coll[v][Place(v, i)]
             /\ v = w => Place(v, i) # 1
  <2>1. CASE v = w
    <3>1. i \in 1..Len(Tail(q)) /\ to_coll'[v][i] = Tail(q)[i]
      BY <2>1, <1>4
    <3> HIDE DEF q
    <3>2. i + 1 \in 1..Len(q) /\ i + 1 # 1 /\ Tail(q)[i] = q[i + 1]
      BY <3>1, <1>3
    <3> QED
      BY <2>1, <3>1, <3>2 DEF q
  <2>2. CASE v # w
    BY <2>2, <1>4
  <2> QED
    BY <2>1, <2>2
<1>6. Distinct(to_coll')
  <2> SUFFICES ASSUME NEW u \in Worker, NEW v \in Worker, NEW i \in 1..Len(to_coll'[u]),
                      NEW j \in 1..Len(to_coll'[v]), to_coll'[u][i] = to_coll'[v][j]
               PROVE  u = v /\ i = j
    BY DEF Distinct
  <2>1. /\ Place(u, i) \in 1..Len(to_coll[u]) /\ Place(v, j) \in 1..Len(to_coll[v])
        /\ to_coll[u][Place(u, i)] = to_coll[v][Place(v, j)]
    BY <1>5
  <2>2. u = v /\ Place(u, i) = Place(v, j)
    <3> HIDE DEF Place
    <3> QED
      BY <2>1, <1>2 DEF Distinct
  <2>3. i \in Int /\ j \in Int
    OBVIOUS
  <2> QED
    BY <2>2, <2>3
<1>7. \A v \in Worker : DOMAIN to_coll[v] = 1..Len(to_coll[v])
                        /\ DOMAIN to_coll'[v] = 1..Len(to_coll'[v])
  BY <1>2, <1>4, LenProperties
<1>8. k \in InChannel /\ 1 \in 1..Len(q)
  <2>1. 1 \in 1..Len(q)
    BY <1>3
  <2>2. k \in ToSet(to_coll[w])
    BY <2>1, <1>3, <1>7 DEF ToSet
  <2> QED
    BY <2>1, <2>2 DEF InChannel
<1>9. k \notin InChannel'
  <2> SUFFICES ASSUME NEW v \in Worker, k \in ToSet(to_coll'[v]) PROVE FALSE
    BY DEF InChannel
  <2>1. PICK i \in 1..Len(to_coll'[v]) : to_coll'[v][i] = k
    BY <1>7 DEF ToSet
  <2>2. /\ Place(v, i) \in 1..Len(to_coll[v]) /\ to_coll[v][Place(v, i)] = to_coll[w][1]
        /\ v = w => Place(v, i) # 1
    BY <2>1, <1>3, <1>5
  <2> HIDE DEF Place
  <2> QED
    BY <2>2, <1>2, <1>8 DEF Distinct
<1>10. InChannel' \subseteq InChannel
  <2> SUFFICES ASSUME NEW v \in Worker, NEW j \in ToSet(to_coll'[v])
               PROVE  j \in ToSet(to_coll[v])
    BY DEF InChannel
  <2>1. PICK i \in 1..Len(to_coll'[v]) : to_coll'[v][i] = j
    BY <1>7 DEF ToSet
  <2>2. Place(v, i) \in 1..Len(to_coll[v]) /\ to_coll[v][Place(v, i)] = j
    BY <2>1, <1>5
  <2> HIDE DEF Place
  <2> QED
    BY <2>2, <1>7 DEF ToSet
<1>11. InChannel \subseteq InChannel' \cup {k}
  <2> SUFFICES ASSUME NEW v \in Worker, NEW j \in ToSet(to_coll[v]), j # k
               PROVE  j \in ToSet(to_coll'[v])
    BY DEF InChannel
  <2>1. PICK i \in 1..Len(to_coll[v]) : to_coll[v][i] = j
    BY <1>7 DEF ToSet
  <2>2. CASE v = w
    <3>1. i # 1
      BY <2>1, <2>2, <1>3
    <3>2. i - 1 \in 1..Len(Tail(q)) /\ (i - 1) + 1 = i
      BY <3>1, <2>2, <1>3
    <3>3. to_coll'[v][i - 1] = j /\ i - 1 \in 1..Len(to_coll'[v])
      BY <2>1, <2>2, <3>2, <1>3, <1>4
    <3> QED
      BY <3>3, <1>7 DEF ToSet
  <2>3. CASE v # w
    BY <2>3, <1>4
  <2> QED
    BY <2>2, <2>3
<1> HIDE DEF q
<1>12. /\ UNCHANGED <<total, toArrive, announced, first_win_id, end_win, open, cnt_ins,
                      cnt_tasks_com, pendingQueue, isBusy, n_pendingtasks, results>>
       /\ UNCHANGED <<wlqTerminated, feedback, in_q, workerReady, n_readyWorkers>>
  BY <1>1 DEF plqVars, descVars, poolVars, dataVars
<1>13. Queued(in_q)' = Queued(in_q) /\ Tasks' = Tasks
  BY <1>12 DEF Queued, Tasks, TasksIn
<1>14. k \in ToSend /\ ToSend' = ToSend \ {k}
  <2>1. k \notin open /\ k < end_win /\ k \notin Queued(in_q) /\ ~(k >= end_win)
    <3>1. k \in Int /\ end_win \in Int
      BY <1>3, MaxWindowAssumption DEF Window, WInv, Core
    <3> QED
      BY <3>1, <1>2, <1>8
  <2>2. InChannel' = InChannel \ {k}
    BY <1>9, <1>10, <1>11
  <2>3. Window' = Window
    BY DEF Window
  <2> QED
    BY <2>1, <2>2, <2>3, <1>3, <1>8, <1>12, <1>13 DEF ToSend
<1>15. Alone!Next
  BY <1>1, <1>14, AloneReceives
<1>16. Alone!Inv'
  <2>1. Alone!Inv /\ [Alone!Next]_(Alone!vars) => Alone!Inv'
    BY Alone!InvNext, MaxWindowAssumption
  <2> QED
    BY <2>1, <1>15 DEF WInv
<1>17. Core(Emitter, Tasks, toArrive, announced, end_win, results)'
  <2>1. Core(Emitter, Tasks', toArrive', announced', end_win', results')
    BY <1>12, <1>13 DEF WInv
  <2>2. Update(Emitter)
    BY <1>12 DEF Update, Emitter
  <2> QED
    BY <2>1, <2>2, <1>12, CoreNext
<1>18. SentInv'
  BY <1>2, <1>4, <1>6, <1>10, <1>12, <1>13 DEF SentInv
<1>19. FirstInv' /\ BackInv'
  BY <1>12 DEF WInv, FirstInv, BackInv
<1> QED
  BY <1>12, <1>15, <1>16, <1>17, <1>18, <1>19 DEF WInv

\* The invariant holds at the start: no partition came and nothing is queued.
LEMMA InitWInv == Init => WInv
<1> SUFFICES ASSUME Init PROVE WInv
  OBVIOUS
<1>1. /\ total \in Totals /\ toArrive = {x \in Partition : x[2] <= total[x[1]]}
      /\ announced = {} /\ first_win_id = 0 /\ end_win = 0 /\ open = {}
      /\ cnt_ins = [k \in Window |-> [i \in LocalPane |-> UNKNOWN]]
      /\ cnt_tasks_com = [k \in Window |-> 0]
      /\ pendingQueue = [k \in Window |-> <<>>]
      /\ n_pendingtasks = 0 /\ feedback = [w \in Worker |-> <<>>]
      /\ to_coll = [w \in Worker |-> <<>>] /\ results = [k \in Window |-> {}]
      /\ in_q = [w \in Worker |-> IF w \in activatedWorker THEN <<>> ELSE <<GO_OUT>>]
      /\ CollectorInit
  BY DEF Init
<1>2. MaxWindow \in Nat /\ Window \subseteq Nat /\ IsFiniteSet(Window)
  BY MaxWindowAssumption, FS_Interval DEF Window
<1>3. TasksIn(in_q, feedback) = {} /\ TasksIn(in_q, Nothing) = {}
  <2>1. \A t \in Task : t # GO_OUT
    BY DEF Task, GO_OUT
  <2>2. ASSUME NEW w \in Worker, NEW t \in Task
        PROVE  /\ t \notin ToSet(in_q[w]) /\ t \notin ToSet(feedback[w])
               /\ t \notin ToSet(Nothing[w])
    <3>1. ToSet(<<>>) = {} /\ t \notin ToSet(<<GO_OUT>>)
      BY <2>1, ShortSets
    <3>2. feedback[w] = <<>> /\ Nothing[w] = <<>>
      BY <1>1 DEF Nothing
    <3>3. t \notin ToSet(in_q[w])
      <4>1. CASE w \in activatedWorker
        BY <1>1, <3>1, <4>1
      <4>2. CASE w \notin activatedWorker
        BY <1>1, <3>1, <4>2
      <4> QED
        BY <4>1, <4>2
    <3> QED
      BY <3>1, <3>2, <3>3
  <2>3. \A a \in Worker \X Task : a[1] \in Worker /\ a[2] \in Task
    OBVIOUS
  <2> QED
    BY <2>2, <2>3 DEF TasksIn
<1>4. Tasks = {} /\ Queued(in_q) = {} /\ InChannel = {}
  BY <1>1, <1>3, ShortSets DEF Tasks, Queued, InChannel
<1>5. StreamInv(toArrive, announced)
  <2>1. \A x \in toArrive : x[2] <= total[x[1]]
    BY <1>1
  <2>2. ASSUME NEW p \in Pane PROVE \E x \in toArrive : x[1] = p
    <3>1. total[p] \in 1..MaxParts /\ MaxParts \in Nat \ {0}
      BY <1>1, WLQAssumption DEF Pane
    <3>2. <<p, 1>> \in Partition /\ 1 <= total[p]
      BY <3>1 DEF Partition
    <3> QED
      BY <3>2, <1>1
  <2> QED
    BY <1>1, <2>1, <2>2 DEF StreamInv
<1>6. Counted(cnt_ins, announced)
  BY <1>1 DEF Counted
<1>7. ASSUME NEW k \in Window
      PROVE  WindowInv(k, Stage(open, end_win, k), isBusy[k], pendingQueue[k],
                       cnt_tasks_com[k], Came(k, toArrive), results[k], Of(Tasks, k))
  <2>1. Stage(open, end_win, k) = "none"
    BY <1>1, <1>2 DEF Stage
  <2>2. Of(Tasks, k) = {} /\ Merges({}) = {} /\ Parts({}) = {}
    BY <1>4 DEF Of, Merges, Parts
  <2>3. Came(k, toArrive) = {}
    BY <1>1 DEF Came, All
  <2>4. pendingQueue[k] = <<>> /\ cnt_tasks_com[k] = 0 /\ results[k] = {}
    BY <1>1
  <2>5. /\ Len(<<>>) = 0 /\ <<>> \in Seq(SUBSET Partition) /\ UNION ToSet(<<>>) = {}
        /\ Separate(<<>>)
    <3>1. Len(<<>>) = 0 /\ <<>> \in Seq(SUBSET Partition)
      BY EmptySeq
    <3> QED
      BY <3>1, ShortSets DEF Separate
  <2>6. IsFiniteSet({}) /\ Cardinality({}) = 0
    BY FS_EmptySet
  <2>7. Accounted({}, {}, <<>>, {})
    BY <2>2, <2>5 DEF Accounted
  <2>8. WindowInv(k, "none", isBusy[k], <<>>, 0, {}, {}, {})
    BY <2>2, <2>5, <2>6, <2>7 DEF WindowInv
  <2> QED
    BY <2>1, <2>2, <2>3, <2>4, <2>8
<1>8. Pending(Emitter, Tasks)
  <2> DEFINE f == [k \in Window |-> Len(pendingQueue[k])]
  <2>1. \A k \in Window : f[k] = 0
    BY <1>1, EmptySeq
  <2>2. f \in [Window -> Nat]
    BY <2>1
  <2>3. SumFunction(f) = 0
    <3> HIDE DEF f
    <3> QED
      BY <1>2, <2>1, <2>2, SumZero
  <2>4. Merges(Tasks) = {} /\ Cardinality({}) = 0 /\ IsFiniteSet(Tasks)
    BY <1>4, FS_EmptySet DEF Merges
  <2>5. Emitter.npend = 0 /\ Emitter.pending = pendingQueue
    BY <1>1 DEF Emitter
  <2> QED
    BY <2>3, <2>4, <2>5 DEF Pending
<1>9. Core(Emitter, Tasks, toArrive, announced, end_win, results)
  <2>1. Windows(Emitter, Tasks, toArrive, end_win, results)
    BY <1>7 DEF Windows, Emitter
  <2>2. end_win \in 0..(MaxWindow + 1)
    BY <1>1, <1>2
  <2>3. Emitter.open = {} /\ Emitter.ins = cnt_ins
    BY <1>1 DEF Emitter
  <2> QED
    BY <1>5, <1>6, <1>8, <2>1, <2>2, <2>3 DEF Core
<1>10. FirstInv /\ BackInv
  BY <1>1, ShortSets DEF FirstInv, BackInv
<1>11. SentInv
  <2>1. to_coll \in [Worker -> Seq(Window)]
    BY <1>1, EmptySeq
  <2>2. Distinct(to_coll)
    BY <1>1 DEF Distinct
  <2> QED
    BY <2>1, <2>2, <1>4 DEF SentInv
<1>12. results \in [Window -> SUBSET Partition] /\ (wlqTerminated => n_pendingtasks = 0)
  BY <1>1
<1>13. Alone!Inv
  <2>1. ToSend = Window
    <3>1. \A k \in Window : k >= end_win
      BY <1>1, <1>2
    <3> QED
      BY <3>1 DEF ToSend
  <2>2. Alone!Init
    BY <1>1, <2>1 DEF Alone!Init, CollectorInit, Alone!CollectorInit, Window, Alone!Window
  <2>3. Alone!Init => Alone!Inv
    BY Alone!InvInit, MaxWindowAssumption
  <2> QED
    BY <2>2, <2>3
<1> QED
  BY <1>9, <1>10, <1>11, <1>12, <1>13 DEF WInv

\* Every step keeps the invariant.
LEMMA NextWInv == IInv /\ WInv /\ [Next]_vars => WInv'
<1> SUFFICES ASSUME IInv, WInv, [Next]_vars PROVE WInv'
  OBVIOUS
<1>1. CASE EmitterStep
  BY <1>1, RcvResultsSetWInv, EosNotifyWInv, RcvFeedbackWInv DEF EmitterStep
<1>2. CASE Reconfigure
  BY <1>2, AddWorkersWInv, RemoveWorkersWInv DEF Reconfigure
<1>3. CASE \E w \in Worker : WorkerStep(w)
  BY <1>3, ExecuteWInv, LeaveWInv DEF WorkerStep
<1>4. CASE \E w \in Worker : CollectFrom(w)
  BY <1>4, CollectFromWInv
<1>5. CASE UNCHANGED vars
  <2>1. /\ UNCHANGED <<plqVars, descVars, poolVars, workVars, collectorVars>>
    BY <1>5 DEF vars
  <2>2. UNCHANGED <<plqVars, descVars, n_pendingtasks, wlqTerminated, in_q, feedback,
                    to_coll, dataVars, collectorVars>>
    BY <2>1 DEF poolVars, workVars
  <2>3. Tasks' = Tasks /\ Queued(in_q)' = Queued(in_q)
    BY <2>2 DEF Tasks, TasksIn, Queued
  <2> QED
    BY <2>2, <2>3, TasksKept
<1> QED
  BY <1>1, <1>2, <1>3, <1>4, <1>5 DEF Next, Done

\* The invariant of the windows holds for ever.
LEMMA AlwaysWInv == Spec => [](IInv /\ WInv)
BY InitIInv, NextIInv, InitWInv, NextWInv, PTL DEF Spec

-----------------------------------------------------------------------------
(* The properties                                                          *)

\* The tasks the emitter waits for.
LEMMA OutstandingTasks ==
    ASSUME IInv, NEW w \in Worker
    PROVE  \A t : t \in Outstanding(w) <=> t \in Task /\ <<w, t>> \in Tasks
<1>1. ASSUME NEW t, t \in Outstanding(w) PROVE t \in Task
  <2>1. t \in ToSet(in_q[w]) \cup ToSet(feedback[w]) /\ IsTask(t)
    BY <1>1 DEF Outstanding
  <2>2. in_q[w] \in Seq(Message) /\ feedback[w] \in Seq(Task)
    BY DEF IInv, PoolType
  <2>3. t \in Message \/ t \in Task
    BY <2>1, <2>2 DEF ToSet
  <2>4. t # GO_OUT /\ t # EOS
    BY <2>1 DEF IsTask, GO_OUT, EOS
  <2> QED
    BY <2>3, <2>4 DEF Message
<1>2. ASSUME NEW t \in Task
      PROVE  t \in Outstanding(w) <=> <<w, t>> \in Tasks
  <2>1. IsTask(t)
    BY DEF Task, IsTask
  <2> QED
    BY <2>1 DEF Outstanding, Tasks, TasksIn
<1> QED
  BY <1>1, <1>2

\* The account of one window in the state.
LEMMA WindowNow ==
    ASSUME WInv, NEW k \in Window
    PROVE  WindowInv(k, Stage(open, end_win, k), isBusy[k], pendingQueue[k],
                     cnt_tasks_com[k], Came(k, toArrive), results[k], Of(Tasks, k))
BY DEF WInv, Core, Windows, Emitter

\* The invariant implies PendingTasks.
LEMMA PendingCorrect ==
    ASSUME IInv, WInv
    PROVE  PendingTasks
<1> DEFINE M == Merges(Tasks)
           W == {w \in Worker : \E t \in Outstanding(w) : t.type = "MERGE"}
           f == [a \in M |-> a[1]]
<1>1. /\ n_pendingtasks = SumFunction([k \in Window |-> Len(pendingQueue[k])])
                          + Cardinality(M)
      /\ IsFiniteSet(Tasks)
  BY DEF WInv, Core, Pending, Emitter
<1>2. \A a \in M : /\ a \in Tasks /\ a[1] \in Worker /\ a[2] \in Task
                   /\ a = <<a[1], a[2]>> /\ a[2].type = "MERGE"
  BY OneTask DEF Merges
<1>3. \A a \in M : a[1] \in W
  BY <1>2, OutstandingTasks
<1>4. \A w \in W : \E a \in M : a[1] = w
  <2> SUFFICES ASSUME NEW w \in W PROVE \E a \in M : a[1] = w
    OBVIOUS
  <2>1. PICK t \in Outstanding(w) : t.type = "MERGE"
    OBVIOUS
  <2>2. <<w, t>> \in Tasks
    BY OutstandingTasks
  <2>3. <<w, t>> \in M
    BY <2>1, <2>2 DEF Merges
  <2> QED
    BY <2>3
<1>5. \A a, b \in M : a[1] = b[1] => a = b
  BY <1>2, OneTask
<1> HIDE DEF M, W
<1>6. f \in Bijection(M, W)
  <2>1. f \in [M -> W]
    BY <1>3
  <2>2. \A a, b \in M : f[a] = f[b] => a = b
    BY <1>5
  <2>3. \A w \in W : \E a \in M : f[a] = w
    BY <1>4
  <2> HIDE DEF f
  <2> QED
    BY <2>1, <2>2, <2>3 DEF Bijection, Injection, IsInjective, Surjection
<1>7. IsFiniteSet(M)
  BY <1>1, FS_Subset DEF M, Merges
<1>8. Cardinality(M) = Cardinality(W)
  BY <1>6, <1>7, FS_Bijection DEF ExistsBijection
<1> QED
  BY <1>1, <1>8 DEF PendingTasks, W

\* The invariant implies DescriptorsExist.
LEMMA DescriptorsCorrect ==
    ASSUME IInv, WInv
    PROVE  DescriptorsExist
<1> SUFFICES ASSUME NEW x \in toArrive, NEW k \in WindowsOf(x[1])
             PROVE  k >= first_win_id /\ (k < end_win => k \in open)
  BY DEF DescriptorsExist
<1>1. x \in Partition /\ x[1] \in Pane /\ x[2] <= total[x[1]]
  BY DEF WInv, Core, StreamInv, Partition
<1>2. k \in Window /\ x \in All(k)
  BY <1>1, WindowsOfPane DEF All
<1>3. Stage(open, end_win, k) # "closed"
  <2>1. Came(k, toArrive) # All(k)
    BY <1>2 DEF Came
  <2> QED
    BY <1>2, <2>1, WindowNow DEF WindowInv
<1>4. k \in open \/ k >= end_win
  BY <1>3 DEF Stage
<1>5. /\ first_win_id \in Nat /\ first_win_id <= end_win /\ end_win \in Int /\ k \in Int
      /\ \A j \in open : j >= first_win_id
  BY <1>2, MaxWindowAssumption DEF WInv, FirstInv, Core, Window
<1> QED
  BY <1>4, <1>5

\* The invariant implies EOSIsLast.
LEMMA EOSCorrect ==
    ASSUME IInv, WInv
    PROVE  EOSIsLast
<1> SUFFICES ASSUME wlqTerminated PROVE EOSIsLast
  BY DEF EOSIsLast
<1>1. toArrive = {} /\ n_pendingtasks = 0
  BY DEF IInv, StatusInv, WInv
<1>2. \A w \in Worker : \A t \in Task : ~Has(w, t)
  BY DEF Has, Working, Finished
<1>3. Tasks = {}
  BY <1>2, OneTask
<1>4. \A w \in Worker : Outstanding(w) = {}
  BY <1>3, OutstandingTasks
<1>5. \A k \in Window : pendingQueue[k] = <<>>
  <2> DEFINE f == [k \in Window |-> Len(pendingQueue[k])]
  <2>1. \A k \in Window : pendingQueue[k] \in Seq(SUBSET Partition)
    BY DEF IInv, PoolType
  <2>2. f \in [Window -> Nat]
    BY <2>1, LenProperties
  <2>3. SumFunction(f) = 0
    <3>1. Merges(Tasks) = {} /\ Cardinality({}) = 0
      BY <1>3, FS_EmptySet DEF Merges
    <3>2. n_pendingtasks = SumFunction(f) + Cardinality(Merges(Tasks))
      BY DEF WInv, Core, Pending, Emitter
    <3>3. SumFunction(f) \in Nat
      <4>1. IsFiniteSet(Window)
        BY MaxWindowAssumption, FS_Interval DEF Window
      <4> HIDE DEF f
      <4> QED
        BY <4>1, <2>2, SumIsCount, FS_CardinalityType
    <3> HIDE DEF f
    <3> QED
      BY <3>1, <3>2, <3>3, <1>1
  <2>4. \A k \in Window : f[k] = 0
    <3>1. IsFiniteSet(Window)
      BY MaxWindowAssumption, FS_Interval DEF Window
    <3> HIDE DEF f
    <3> QED
      BY <3>1, <2>2, <2>3, SumZero
  <2> QED
    BY <2>1, <2>4, EmptyToSet
<1>6. ASSUME NEW k \in open
      PROVE  sp * k + wp - 1 > MaxPane /\ results[k] = Arrived(k)
  <2>1. k \in Window /\ Stage(open, end_win, k) = "open"
    BY DEF IInv, PoolType, Stage
  <2>2. WindowInv(k, "open", isBusy[k], <<>>, cnt_tasks_com[k], Came(k, toArrive),
                  results[k], {})
    <3>1. Of(Tasks, k) = {}
      BY <1>3 DEF Of
    <3> QED
      BY <2>1, <3>1, <1>5, WindowNow
  <2>3. Came(k, toArrive) = All(k) /\ Merges({}) = {} /\ Parts({}) = {}
    BY <1>1 DEF Came, Merges, Parts
  <2>4. ~Complete(k)
    BY <2>2, <2>3 DEF WindowInv
  <2>5. sp * k + wp - 1 > MaxPane
    <3>1. sp * k \in Int /\ wp \in Int /\ MaxPane \in Int
      BY <2>1, WLQAssumption, MaxWindowAssumption DEF Window
    <3> QED
      BY <2>4, <3>1 DEF Complete
  <2>6. results[k] = All(k)
    <3>1. UNION ToSet(<<>>) = {}
      BY ShortSets
    <3> QED
      BY <2>2, <2>3, <3>1 DEF WindowInv, Accounted
  <2>7. Arrived(k) = All(k)
    BY <1>1 DEF Arrived, All
  <2> QED
    BY <2>5, <2>6, <2>7
<1> QED
  BY <1>1, <1>4, <1>5, <1>6 DEF EOSIsLast

\* A window that is closed and whose last task was executed is complete.
LEMMA FinalizedCorrect ==
    ASSUME IInv, WInv
    PROVE  FinalizedComplete
<1> SUFFICES ASSUME NEW w \in Worker, NEW i \in 1..Len(to_coll[w]),
                    NEW k, k = to_coll[w][i]
             PROVE  /\ results[k] = {x \in Partition : x[2] <= total[x[1]]
                                                      /\ k \in WindowsOf(x[1])}
                    /\ sp * k + wp - 1 <= MaxPane
                    /\ k \notin ToSet(out) \cup (ToSet(winSet) \ {NULL})
  BY DEF FinalizedComplete
<1>1. to_coll[w] \in Seq(Window) /\ k \in Window /\ k \in ToSet(to_coll[w])
  BY DEF WInv, SentInv, ToSet
<1>2. k \in InChannel /\ k \notin open /\ k < end_win /\ k \notin Queued(in_q)
  BY <1>1 DEF InChannel, WInv, SentInv
<1>3. Stage(open, end_win, k) = "closed"
  <2>1. k \in Int /\ end_win \in Int
    BY <1>1, MaxWindowAssumption DEF Window, WInv, Core
  <2> QED
    BY <1>2, <2>1 DEF Stage
<1>4. WindowInv(k, "closed", isBusy[k], pendingQueue[k], cnt_tasks_com[k],
                Came(k, toArrive), results[k], Of(Tasks, k))
  BY <1>1, <1>3, WindowNow
<1>5. /\ pendingQueue[k] = <<>> /\ Complete(k) /\ Came(k, toArrive) = All(k)
      /\ All(k) = results[k] \cup (UNION ToSet(<<>>)) \cup Parts(Of(Tasks, k))
      /\ \A a \in Of(Tasks, k) : a[2].p1 = {}
  BY <1>4 DEF WindowInv, Accounted
<1>6. \A a \in Of(Tasks, k) : Carried(a) = {}
  <2> SUFFICES ASSUME NEW a \in Of(Tasks, k) PROVE a[2].p2 = {}
    BY <1>5 DEF Carried
  <2>1. /\ a[1] \in Worker /\ a[2] \in Task /\ a[2].win_id = k
        /\ a[2] \in ToSet(in_q[a[1]]) \cup ToSet(feedback[a[1]])
    BY DEF Of, Tasks, TasksIn
  <2>2. a[2] \notin ToSet(in_q[a[1]])
    <3> SUFFICES ASSUME a[2] \in ToSet(in_q[a[1]]) PROVE FALSE
      OBVIOUS
    <3>1. a \in TasksIn(in_q, Nothing)
      BY DEF TasksIn, Of, Tasks
    <3> QED
      BY <3>1, <2>1, <1>2 DEF Queued
  <2> QED
    BY <2>1, <2>2 DEF WInv, BackInv
<1>7. results[k] = All(k)
  <2>1. UNION ToSet(<<>>) = {}
    BY ShortSets
  <2>2. Parts(Of(Tasks, k)) = {}
    BY <1>6 DEF Parts
  <2> QED
    BY <2>1, <2>2, <1>5
<1>8. k \notin ToSet(out) \cup (ToSet(winSet) \ {NULL})
  <2>1. /\ next_win_id \in Nat /\ winSet \in Seq(Window \cup {NULL})
        /\ out = [j \in 1..next_win_id |-> j - 1]
        /\ \A j \in 1..Len(winSet) : winSet[j] # NULL => winSet[j] = next_win_id + j - 1
        /\ \A id \in Window :
              id \notin ToSend <=>
                 \/ id < next_win_id
                 \/ /\ id - next_win_id + 1 \in 1..Len(winSet)
                    /\ winSet[id - next_win_id + 1] = id
    BY DEF WInv, Alone!Inv, Alone!TypeOK, Alone!InOrder, Alone!Slots, Alone!Buffered,
           Alone!Window, Window, Alone!NULL, NULL
  <2>2. k \in ToSend /\ k \in Nat
    BY <1>1, <1>2, MaxWindowAssumption DEF ToSend, Window
  <2>3. k \notin ToSet(out)
    <3> SUFFICES ASSUME k \in ToSet(out) PROVE FALSE
      OBVIOUS
    <3>1. PICK j \in 1..next_win_id : k = j - 1
      BY <2>1 DEF ToSet
    <3>2. k < next_win_id
      BY <3>1, <2>1
    <3> QED
      BY <3>2, <2>1, <2>2, <1>1
  <2>4. k \notin ToSet(winSet) \ {NULL}
    <3> SUFFICES ASSUME k \in ToSet(winSet), k # NULL PROVE FALSE
      OBVIOUS
    <3>1. PICK j \in 1..Len(winSet) : winSet[j] = k
      BY <2>1 DEF ToSet
    <3>2. k = next_win_id + j - 1
      BY <3>1, <2>1
    <3>3. k - next_win_id + 1 = j
      BY <3>2, <2>1
    <3> QED
      BY <3>1, <3>3, <2>1, <2>2, <1>1
  <2> QED
    BY <2>3, <2>4
<1> QED
  BY <1>5, <1>7, <1>8 DEF All, Complete

\* What the task of worker v holds of window k in its field f.
LEMMA HeldByWorker ==
    ASSUME IInv, NEW k \in Window, NEW v \in Worker, NEW f \in {"p1", "p2"}
    PROVE  In(k, <<f, v>>) = UNION {a[2][f] : a \in {a \in Of(Tasks, k) : a[1] = v}}
<1> DEFINE X == {t[f] : t \in {t \in Outstanding(v) : t.win_id = k}}
           Y == {a[2][f] : a \in {a \in Of(Tasks, k) : a[1] = v}}
<1>1. In(k, <<f, v>>) = UNION X
  BY DEF In
<1>2. ASSUME NEW t \in Outstanding(v), t.win_id = k PROVE t[f] \in Y
  <2>1. <<v, t>> \in Of(Tasks, k)
    BY <1>2, OutstandingTasks DEF Of
  <2>2. <<v, t>>[1] = v /\ <<v, t>>[2] = t
    OBVIOUS
  <2> QED
    BY <2>1, <2>2
<1>3. ASSUME NEW a \in Of(Tasks, k), a[1] = v PROVE a[2][f] \in X
  <2>1. a = <<v, a[2]>> /\ a \in Tasks /\ a[2] \in Task /\ a[2].win_id = k
    BY <1>3, OneTask DEF Of
  <2>2. a[2] \in Outstanding(v)
    BY <2>1, OutstandingTasks
  <2> QED
    BY <2>1, <2>2
<1>4. X = Y
  BY <1>2, <1>3
<1> QED
  BY <1>1, <1>4

\* The invariant implies PartitionsOnce.
LEMMA PartitionsCorrect ==
    ASSUME IInv, WInv
    PROVE  PartitionsOnce
<1> SUFFICES ASSUME NEW k \in open
             PROVE  /\ Arrived(k) = UNION {In(k, place) : place \in Places(k)}
                    /\ \A p, q \in Places(k) : p # q => In(k, p) \cap In(k, q) = {}
  BY DEF PartitionsOnce
<1> DEFINE queue == pendingQueue[k]
           res == results[k]
           H == Of(Tasks, k)
           win == <<"window", 0>>
<1>1. k \in Window
  BY DEF IInv, PoolType
<1>2. Arrived(k) = Came(k, toArrive)
  BY DEF Arrived, Came, All
<1>3. Accounted(Came(k, toArrive), res, queue, H) /\ queue \in Seq(SUBSET Partition)
  BY <1>1, WindowNow DEF WindowInv
<1>4. DOMAIN queue = 1..Len(queue)
  BY <1>3, LenProperties
<1>5. /\ In(k, win) = res
      /\ \A i \in DOMAIN queue : In(k, <<"queue", i>>) = queue[i]
  BY DEF In
<1>6. \A p \in Places(k) : \/ p = win
                           \/ \E i \in DOMAIN queue : p = <<"queue", i>>
                           \/ \E v \in Worker : \E f \in {"p1", "p2"} : p = <<f, v>>
  BY DEF Places
<1>7. /\ win \in Places(k)
      /\ \A i \in DOMAIN queue : <<"queue", i>> \in Places(k)
      /\ \A v \in Worker : \A f \in {"p1", "p2"} : <<f, v>> \in Places(k)
  BY DEF Places
\* A task holds two separate results sets, and no two workers hold the same.
<1>8. /\ \A a \in H : /\ a[1] \in Worker /\ a \in Tasks
                      /\ a[2].p1 \subseteq Carried(a) /\ a[2].p2 \subseteq Carried(a)
                      /\ a[2].p1 \cap a[2].p2 = {}
      /\ \A a, b \in H : a[1] = b[1] => a = b
  <2>1. \A a \in H : a[1] \in Worker /\ a \in Tasks
    BY OneTask DEF Of
  <2>2. \A a, b \in H : a[1] = b[1] => a = b
    BY <2>1, OneTask
  <2> QED
    BY <2>1, <2>2, <1>3 DEF Accounted, Carried
<1>9. \A v \in Worker : \A f \in {"p1", "p2"} : \A x :
         x \in In(k, <<f, v>>) <=> \E a \in H : a[1] = v /\ x \in a[2][f]
  <2> SUFFICES ASSUME NEW v \in Worker, NEW f \in {"p1", "p2"}, NEW x
               PROVE  x \in In(k, <<f, v>>) <=> \E a \in H : a[1] = v /\ x \in a[2][f]
    OBVIOUS
  <2>1. In(k, <<f, v>>) = UNION {a[2][f] : a \in {a \in H : a[1] = v}}
    BY <1>1, HeldByWorker
  <2> HIDE DEF H
  <2> QED
    BY <2>1
<1>10. \A a \in H : a[2]["p1"] = a[2].p1 /\ a[2]["p2"] = a[2].p2
  OBVIOUS
<1> HIDE DEF queue, res, H, win
<1>11. \A x : x \in UNION ToSet(queue) <=> \E i \in DOMAIN queue : x \in queue[i]
  BY DEF ToSet
<1>12. /\ Came(k, toArrive) = res \cup (UNION ToSet(queue)) \cup Parts(H)
       /\ res \cap (UNION ToSet(queue)) = {}
       /\ \A i, j \in DOMAIN queue : i # j => queue[i] \cap queue[j] = {}
       /\ \A a \in H : /\ Carried(a) \cap (res \cup (UNION ToSet(queue))) = {}
                       /\ \A b \in H : a # b => Carried(a) \cap Carried(b) = {}
  BY <1>3, <1>4 DEF Accounted, Separate
<1> DEFINE U == UNION ToSet(queue)
<1>13. \A x : x \in UNION {In(k, place) : place \in Places(k)}
                <=> x \in res \/ x \in U \/ x \in Parts(H)
  <2>1. ASSUME NEW x, NEW p \in Places(k), x \in In(k, p)
        PROVE  x \in res \/ x \in U \/ x \in Parts(H)
    <3>1. CASE p = win
      BY <2>1, <3>1, <1>5
    <3>2. CASE \E i \in DOMAIN queue : p = <<"queue", i>>
      BY <2>1, <3>2, <1>5, <1>11
    <3>3. CASE \E v \in Worker : \E f \in {"p1", "p2"} : p = <<f, v>>
      <4>1. PICK v \in Worker : \E f \in {"p1", "p2"} : p = <<f, v>>
        BY <3>3
      <4>2. PICK f \in {"p1", "p2"} : p = <<f, v>>
        BY <4>1
      <4>3. PICK a \in H : a[1] = v /\ x \in a[2][f]
        BY <2>1, <4>2, <1>9
      <4>4. x \in Carried(a)
        BY <4>3, <1>8, <1>10
      <4> QED
        BY <4>4 DEF Parts
    <3> QED
      BY <3>1, <3>2, <3>3, <1>6
  <2>2. ASSUME NEW x, x \in res PROVE \E p \in Places(k) : x \in In(k, p)
    BY <2>2, <1>5, <1>7
  <2>3. ASSUME NEW x, x \in U PROVE \E p \in Places(k) : x \in In(k, p)
    BY <2>3, <1>5, <1>7, <1>11
  <2>4. ASSUME NEW x, x \in Parts(H) PROVE \E p \in Places(k) : x \in In(k, p)
    <3>1. PICK a \in H : x \in Carried(a)
      BY <2>4 DEF Parts
    <3>2. PICK f \in {"p1", "p2"} : x \in a[2][f]
      BY <3>1, <1>10 DEF Carried
    <3>3. x \in In(k, <<f, a[1]>>)
      BY <3>2, <1>8, <1>9
    <3> QED
      BY <3>3, <1>7, <1>8
  <2> HIDE DEF U
  <2> QED
    BY <2>1, <2>2, <2>3, <2>4
<1>14. Arrived(k) = UNION {In(k, place) : place \in Places(k)}
  BY <1>2, <1>12, <1>13
<1>15. ASSUME NEW p \in Places(k), NEW q \in Places(k), NEW x,
              x \in In(k, p), x \in In(k, q)
       PROVE  p = q
  <2>1. \A v \in Worker : \A f \in {"p1", "p2"} : x \in In(k, <<f, v>>) =>
           \E a \in H : a[1] = v /\ x \in Carried(a) /\ x \notin res /\ x \notin U
    <3> SUFFICES ASSUME NEW v \in Worker, NEW f \in {"p1", "p2"}, x \in In(k, <<f, v>>)
                 PROVE  \E a \in H : a[1] = v /\ x \in Carried(a) /\ x \notin res
                                     /\ x \notin U
      OBVIOUS
    <3>1. PICK a \in H : a[1] = v /\ x \in a[2][f]
      BY <1>9
    <3>2. x \in Carried(a)
      BY <3>1, <1>8, <1>10
    <3> QED
      BY <3>1, <3>2, <1>12
  <2> HIDE DEF U
  <2>2. CASE x \in res
    <3>1. x \notin U
      BY <2>2, <1>12 DEF U
    <3>2. \A r \in Places(k) : x \in In(k, r) => r = win
      <4> SUFFICES ASSUME NEW r \in Places(k), x \in In(k, r), r # win PROVE FALSE
        OBVIOUS
      <4>1. CASE \E i \in DOMAIN queue : r = <<"queue", i>>
        BY <4>1, <3>1, <1>5, <1>11 DEF U
      <4>2. CASE \E v \in Worker : \E f \in {"p1", "p2"} : r = <<f, v>>
        <5>1. PICK v \in Worker, f \in {"p1", "p2"} : r = <<f, v>>
          BY <4>2
        <5> QED
          BY <5>1, <2>1, <2>2
      <4> QED
        BY <4>1, <4>2, <1>6
    <3> QED
      BY <3>2, <1>15
  <2>3. CASE x \in U
    <3>1. x \notin res
      BY <2>3, <1>12 DEF U
    <3>2. \A r \in Places(k) : x \in In(k, r) =>
             \E i \in DOMAIN queue : r = <<"queue", i>> /\ x \in queue[i]
      <4> SUFFICES ASSUME NEW r \in Places(k), x \in In(k, r)
                   PROVE  \E i \in DOMAIN queue : r = <<"queue", i>> /\ x \in queue[i]
        OBVIOUS
      <4>1. r # win
        BY <3>1, <1>5
      <4>2. CASE \E v \in Worker : \E f \in {"p1", "p2"} : r = <<f, v>>
        <5>1. PICK v \in Worker, f \in {"p1", "p2"} : r = <<f, v>>
          BY <4>2
        <5>2. x \notin U
          BY <5>1, <2>1
        <5> QED
          BY <5>2, <2>3
      <4>3. CASE \E i \in DOMAIN queue : r = <<"queue", i>>
        BY <4>3, <1>5
      <4> QED
        BY <4>1, <4>2, <4>3, <1>6
    <3>3. PICK i \in DOMAIN queue : p = <<"queue", i>> /\ x \in queue[i]
      BY <3>2, <1>15
    <3>4. PICK j \in DOMAIN queue : q = <<"queue", j>> /\ x \in queue[j]
      BY <3>2, <1>15
    <3>5. i = j
      BY <3>3, <3>4, <1>12
    <3> QED
      BY <3>3, <3>4, <3>5
  <2>4. CASE x \notin res /\ x \notin U
    <3>1. \A r \in Places(k) : x \in In(k, r) =>
             \E v \in Worker : \E f \in {"p1", "p2"} : r = <<f, v>>
      BY <2>4, <1>5, <1>6, <1>11 DEF U
    <3>2. PICK u \in Worker, f \in {"p1", "p2"} : p = <<f, u>>
      BY <3>1, <1>15
    <3>3. PICK v \in Worker, g \in {"p1", "p2"} : q = <<g, v>>
      BY <3>1, <1>15
    <3>4. PICK a \in H : a[1] = u /\ x \in a[2][f]
      BY <3>2, <1>9, <1>15
    <3>5. PICK b \in H : b[1] = v /\ x \in b[2][g]
      BY <3>3, <1>9, <1>15
    <3>6. x \in Carried(a) /\ x \in Carried(b)
      BY <3>4, <3>5, <1>8, <1>10
    <3>7. a = b
      BY <3>6, <1>12
    <3>8. f = g
      BY <3>4, <3>5, <3>7, <1>8, <1>10
    <3> QED
      BY <3>2, <3>3, <3>4, <3>5, <3>7, <3>8
  <2> QED
    BY <2>2, <2>3, <2>4
<1> QED
  BY <1>14, <1>15

\* n_pendingtasks, which WLQ_Emitter::checkTermination reads, counts the queued
\* results sets and those that running merges will give back, although the
\* emitter counts a MERGE as one task and takes two results sets for it.
THEOREM PendingIsExact == Spec => []PendingTasks
<1>1. IInv /\ WInv => PendingTasks
  BY PendingCorrect
<1> QED
  BY <1>1, AlwaysWInv, PTL

\* Every window an arriving partition belongs to has its descriptor or gets
\* one: WLQ_Emitter::svc meets no null slot and no index of the deque wraps.
THEOREM DescriptorsAreThere == Spec => []DescriptorsExist
<1>1. IInv /\ WInv => DescriptorsExist
  BY DescriptorsCorrect
<1> QED
  BY <1>1, AlwaysWInv, PTL

\* No partition of an open window is lost or merged twice, whatever the mix of
\* updates, merges and reconfigurations (WLQ_Emitter::getWTasksToSchedule,
\* WLQ_Worker::svc).
THEOREM PartitionsAreOnce == Spec => []PartitionsOnce
<1>1. IInv /\ WInv => PartitionsOnce
  BY PartitionsCorrect
<1> QED
  BY <1>1, AlwaysWInv, PTL

\* A window is sent to the collector once, when all its panes came and all
\* their partitions are merged: Win_Descr_t::toFinalize is neither early nor
\* late, although it compares a counter of tasks with a number of partitions.
THEOREM FinalizedIsComplete == Spec => []FinalizedComplete
<1>1. IInv /\ WInv => FinalizedComplete
  BY FinalizedCorrect
<1> QED
  BY <1>1, AlwaysWInv, PTL

\* The emitter broadcasts the EOS only when nothing is left to do
\* (WLQ_Emitter::checkTermination).
THEOREM EOSIsTheLast == Spec => []EOSIsLast
<1>1. IInv /\ WInv => EOSIsLast
  BY EOSCorrect
<1> QED
  BY <1>1, AlwaysWInv, PTL

\* The whole stage, with its emitter, its workers and its reconfigurations,
\* transmits the windows as the client expects them: in order, without a gap
\* and without a repetition.
THEOREM StageRefines == Spec => RefinesOrdered
<1>1. Init => Ordered!Init
  BY DEF Init, CollectorInit, Ordered!Init
<1>2. IInv /\ WInv /\ [Next]_vars => [Ordered!Next]_out
  <2> SUFFICES ASSUME IInv, WInv, [Next]_vars, out' # out PROVE Ordered!Next
    OBVIOUS
  <2>1. \E w \in Worker : CollectFrom(w)
    BY DEF Next, EmitterStep, RcvResultsSet, EosNotify, RcvFeedback, Reconfigure,
           AddWorkers, RemoveWorkers, WorkerStep, Execute, Leave, Done, vars,
           collectorVars
  <2>2. Alone!Inv /\ [Alone!Next]_(Alone!vars)
    BY <2>1, CollectFromWInv DEF WInv
  <2>3. [Alone!Ordered!Next]_out
    BY <2>2, Alone!StepRefines, MaxWindowAssumption
  <2> QED
    BY <2>3 DEF Ordered!Next, Ordered!Emit, Alone!Ordered!Next, Alone!Ordered!Emit
<1> QED
  BY <1>1, <1>2, AlwaysWInv, PTL DEF Spec, RefinesOrdered, Ordered!Spec

-----------------------------------------------------------------------------
(* The results sets that several windows share                             *)

\* The partitions whose results set waits, as it came, in a queue or in one of
\* the tasks H.
Unmerged(queue, H) ==
    {x \in Partition : \/ {x} \in ToSet(queue)
                       \/ \E a \in H : {x} \in {a[2].p1, a[2].p2}}

\* The partitions whose own results set is r, or is no more than that.
Single(r) == {x \in Partition : {x} = r}

\* The partitions that are the only ones of a results set of task t.
Singles(t) == {x \in Partition : {x} \in {t.p1, t.p2}}

\* The counters ref and the deallocated sets gone after the results sets of the
\* partitions rel were released.
Lowered(ref, rel) ==
    [x \in Partition |-> IF x \in rel THEN (ref[x] - 1) % SizeT ELSE ref[x]]
Dropped(ref, gone, rel) == gone \cup {x \in rel : ref[x] = 1}

\* The windows that have x merged with other partitions, or into their results.
Released(x, later, unmerged) ==
    {k \in WindowsOf(x[1]) : /\ x[2] <= total[x[1]] /\ x \notin later
                             /\ x \notin unmerged[k]}

\* What the counter of a results set that n windows share shows when c of them
\* released it: countWindows subtracts in the wrong order, and the difference
\* wraps around.
Remaining(n, c) == IF n + c <= 2 THEN 2 - n - c ELSE SizeT + 2 - n - c

\* The range of size_t exceeds the number of windows by far.
SizeTBound == SizeT >= 2 * (MaxWindow + 1)

\* The partitions that wait in each window, for queues pending and tasks H.
Waiting(pending, H) == [k \in Window |-> Unmerged(pending[k], Of(H, k))]

\* The merges that a worker has not executed join two results sets.
Pairs(H) == \A a \in H : a[2].type = "MERGE" => a[2].p2 # {}

\* The counters are right, for counters ref, deallocated sets gone, partitions
\* later still to come and those waiting in each window.
Counters(ref, gone, later, unmerged) ==
    /\ gone \subseteq Partition
    /\ \A x \in Partition :
          /\ ref[x] = Remaining(Cardinality(WindowsOf(x[1])),
                                Cardinality(Released(x, later, unmerged)))
          /\ x \in gone => Released(x, later, unmerged) = WindowsOf(x[1])

RefInv ==
    /\ refCounter \in [Partition -> Int]
    /\ Counters(refCounter, freed, toArrive, Waiting(pendingQueue, Tasks))
    /\ Pairs(TasksIn(in_q, Nothing))

-----------------------------------------------------------------------------
(* The results sets of one window                                          *)

\* The set of a sequence and its last element.
LEMMA ToSetLast ==
    ASSUME NEW q \in Seq(SUBSET Partition), q # <<>>
    PROVE  /\ Front(q) \in Seq(SUBSET Partition)
           /\ ToSet(q) = ToSet(Front(q)) \cup {Last(q)}
<1>1. PICK f \in Seq(SUBSET Partition), r \in SUBSET Partition :
         f = Front(q) /\ r = Last(q)
  BY AppendFront
<1>2. q = Append(f, r)
  BY <1>1, AppendFront
<1>3. ToSet(Append(f, r)) = ToSet(f) \cup {r}
  BY AppendToSet
<1> QED
  BY <1>1, <1>2, <1>3

\* A results set arrives in the queue.
LEMMA UnmergedArrive ==
    ASSUME NEW q \in Seq(SUBSET Partition), NEW r \in SUBSET Partition, NEW H
    PROVE  Unmerged(Append(q, r), H) = Unmerged(q, H) \cup Single(r)
<1>1. ToSet(Append(q, r)) = ToSet(q) \cup {r}
  BY AppendToSet
<1> QED
  BY <1>1 DEF Unmerged, Single

\* An update takes the last one of the queue.
LEMMA UnmergedGive ==
    ASSUME NEW q \in Seq(SUBSET Partition), q # <<>>, NEW H,
           NEW a, a[2].p1 = {}, a[2].p2 = Last(q)
    PROVE  Unmerged(Front(q), H \cup {a}) = Unmerged(q, H)
<1>1. ToSet(q) = ToSet(Front(q)) \cup {a[2].p2}
  BY ToSetLast
<1> QED
  BY <1>1 DEF Unmerged

\* A merge takes the last two of the queue, which are not empty.
LEMMA UnmergedMerge ==
    ASSUME NEW q \in Seq(SUBSET Partition), Len(q) > 1, NEW H, Separate(q),
           NEW a, a[2].p1 = Last(q), a[2].p2 = Last(Front(q))
    PROVE  /\ Unmerged(Front(Front(q)), H \cup {a}) = Unmerged(q, H)
           /\ a[2].p2 # {}
<1>1. q # <<>>
  BY EmptySeq
<1>2. PICK f \in Seq(SUBSET Partition), r \in SUBSET Partition : f = Front(q) /\ r = Last(q)
  BY <1>1, SeparateLast
<1>3. ToSet(q) = ToSet(f) \cup {r}
  BY <1>1, <1>2, ToSetLast
<1>4. Separate(f) /\ Len(q) = Len(f) + 1
  BY <1>1, <1>2, SeparateLast
<1>5. f # <<>>
  BY <1>4, EmptySeq
<1>6. PICK g \in Seq(SUBSET Partition), t \in SUBSET Partition : g = Front(f) /\ t = Last(f)
  BY <1>4, <1>5, SeparateLast
<1>7. ToSet(f) = ToSet(g) \cup {t}
  BY <1>5, <1>6, ToSetLast
<1>8. t # {}
  BY <1>4, <1>5, <1>6, SeparateLast
<1>9. a[2].p1 = r /\ a[2].p2 = t /\ Front(Front(q)) = g
  BY <1>2, <1>6
<1>10. Unmerged(g, H \cup {a}) = Unmerged(q, H)
  BY <1>3, <1>7, <1>9 DEF Unmerged
<1> QED
  BY <1>8, <1>9, <1>10

\* The emitter takes back a task that holds its result, or nothing.
LEMMA UnmergedReturn ==
    ASSUME NEW q \in Seq(SUBSET Partition), NEW H, NEW a \in H,
           a[2].p2 = {}, a[2].p1 \in SUBSET Partition
    PROVE  /\ Unmerged(Append(q, a[2].p1), H \ {a}) = Unmerged(q, H)
           /\ a[2].p1 = {} => Unmerged(q, H \ {a}) = Unmerged(q, H)
<1>1. ToSet(Append(q, a[2].p1)) = ToSet(q) \cup {a[2].p1}
  BY AppendToSet
<1> QED
  BY <1>1 DEF Unmerged

\* A worker executes task a and gives it back as b, with the two results sets
\* joined if it was a merge: each was in no other place.
LEMMA UnmergedExecute ==
    ASSUME NEW came, NEW res, NEW q, NEW H, Accounted(came, res, q, H),
           NEW a \in H, NEW b,
           b[2].p2 = {}, b[2].p1 = {} \/ b[2].p1 = a[2].p1 \cup a[2].p2,
           b[2].p1 = {} => a[2].p1 = {}, b[2].p1 # {} => a[2].p1 # {} /\ a[2].p2 # {},
           NEW G, G = (H \ {a}) \cup {b}
    PROVE  Unmerged(q, G) = Unmerged(q, H) \ Singles(a[2])
<1> DEFINE gone == Singles(a[2])
<1>1. /\ a[2].p1 \cap a[2].p2 = {}
      /\ Carried(a) \cap (UNION ToSet(q)) = {}
      /\ \A c \in H : a # c => Carried(a) \cap Carried(c) = {}
  BY DEF Accounted
<1>2. ASSUME NEW x \in Partition
      PROVE  {x} # b[2].p1 /\ {x} # b[2].p2
  <2>1. CASE b[2].p1 = {}
    BY <2>1
  <2>2. CASE b[2].p1 # {}
    <3>1. PICK y, z : y \in a[2].p1 /\ z \in a[2].p2
      BY <2>2
    <3>2. y # z /\ y \in b[2].p1 /\ z \in b[2].p1
      BY <3>1, <2>2, <1>1
    <3> QED
      BY <3>2
  <2> QED
    BY <2>1, <2>2
<1>3. ASSUME NEW x \in gone
      PROVE  /\ {x} \notin ToSet(q)
             /\ \A c \in H \ {a} : {x} \notin {c[2].p1, c[2].p2}
  <2>1. x \in Carried(a)
    BY DEF Carried, Singles
  <2>2. {x} \notin ToSet(q)
    BY <2>1, <1>1
  <2>3. ASSUME NEW c \in H \ {a}, {x} \in {c[2].p1, c[2].p2} PROVE FALSE
    <3>1. x \in Carried(c)
      BY <2>3 DEF Carried
    <3> QED
      BY <3>1, <2>1, <1>1
  <2> QED
    BY <2>2, <2>3
<1>4. ASSUME NEW x \in Partition
      PROVE  x \in Unmerged(q, G) <=> x \in Unmerged(q, H) /\ x \notin gone
  <2>1. CASE x \in gone
    BY <2>1, <1>2, <1>3 DEF Unmerged, Singles
  <2>2. CASE x \notin gone
    BY <2>2, <1>2 DEF Unmerged, Singles
  <2> QED
    BY <2>1, <2>2
<1>5. Unmerged(q, G) \subseteq Partition /\ Unmerged(q, H) \subseteq Partition
  BY DEF Unmerged
<1> HIDE DEF gone
<1>6. Unmerged(q, G) = Unmerged(q, H) \ gone
  BY <1>4, <1>5
<1> QED
  BY <1>6 DEF gone

-----------------------------------------------------------------------------
(* The search for tasks                                                    *)

\* The tasks of one window after updates or merges of some windows were given.
LEMMA UpdatesOf ==
    ASSUME NEW H, NEW e, NEW W, NEW to, NEW k, NEW G, G = H \cup UpdatesTo(e, W, to)
    PROVE  Of(G, k) = IF k \in W THEN Of(H, k) \cup {<<to[k], UpdateOf(e, k)>>}
                      ELSE Of(H, k)
<1>1. \A j : UpdateOf(e, j).win_id = j
  BY DEF UpdateOf, UpdateTask
<1>2. ASSUME NEW a
      PROVE  a \in UpdatesTo(e, W, to) /\ a[2].win_id = k
                <=> k \in W /\ a = <<to[k], UpdateOf(e, k)>>
  BY <1>1 DEF UpdatesTo
<1> QED
  BY <1>2 DEF Of

\* The tasks of a window when merges are given to workers.
LEMMA MergesOf ==
    ASSUME NEW H, NEW e, NEW W, NEW to, NEW k, NEW G, G = H \cup MergesTo(e, W, to)
    PROVE  Of(G, k) = IF k \in W THEN Of(H, k) \cup {<<to[k], MergeOf(e, k)>>}
                      ELSE Of(H, k)
<1>1. \A j : MergeOf(e, j).win_id = j
  BY DEF MergeOf, MergeTask
<1>2. ASSUME NEW a
      PROVE  a \in MergesTo(e, W, to) /\ a[2].win_id = k
                <=> k \in W /\ a = <<to[k], MergeOf(e, k)>>
  BY <1>1 DEF MergesTo
<1> QED
  BY <1>2 DEF Of

\* The search for tasks leaves the same partitions waiting.
LEMMA ScheduledWaiting ==
    ASSUME NEW e \in EmitterState, NEW back, NEW H, H = TasksIn(in_q, back), NEW later, NEW known, NEW end1, NEW res,
           Core(e, H, later, known, end1, res), NEW idle \in SUBSET Worker,
           NEW upd \in SUBSET Window, NEW mrg \in SUBSET Window, NEW up, NEW mg, NEW s,
           Scheduled(e, s, idle, upd, mrg, up, mg), Given(e, s, upd, mrg, up, mg)
    PROVE  /\ Waiting(s.pending, TasksIn(s.q, back)) = Waiting(e.pending, H)
           /\ Pairs(MergesTo(TakeUpdates(e, upd), mrg, mg))
<1> DEFINE u == TakeUpdates(e, upd)
<1>0. PICK G, F : /\ F = TasksIn(s.q, back)
                  /\ G = H \cup UpdatesTo(e, upd, up) /\ F = G \cup MergesTo(u, mrg, mg)
  BY DEF Given
<1>1. /\ upd \subseteq Updatable(e) /\ mrg \subseteq Mergeable(e, u.pending)
      /\ s \in EmitterState /\ u \in EmitterState
      /\ s.pending = TakeMerges(u, mrg).pending
  BY DEF Scheduled
<1>2. /\ e.pending \in [Window -> Seq(SUBSET Partition)]
      /\ u.pending \in [Window -> Seq(SUBSET Partition)]
  BY <1>1 DEF EmitterState
<1>3. ASSUME NEW k \in Window
      PROVE  u.pending[k] = IF k \in upd THEN Front(e.pending[k]) ELSE e.pending[k]
  BY DEF TakeUpdates, EmitterState
<1>4. ASSUME NEW k \in Window
      PROVE  s.pending[k] = IF k \in mrg THEN Front(Front(u.pending[k])) ELSE u.pending[k]
  <2> HIDE DEF u
  <2> QED
    BY <1>1 DEF TakeMerges, EmitterState
<1>5. /\ \A k \in upd : e.pending[k] # <<>>
      /\ \A k \in mrg : Len(u.pending[k]) > 1
  BY <1>1 DEF Updatable, Mergeable
<1>6. \A k \in Window : Separate(e.pending[k])
  BY DEF Core, Windows, WindowInv, Accounted
<1> HIDE DEF u
<1>7. ASSUME NEW k \in Window
      PROVE  /\ Unmerged(u.pending[k], Of(G, k)) = Unmerged(e.pending[k], Of(H, k))
             /\ Separate(u.pending[k])
  <2>1. CASE k \in upd
    <3> DEFINE a == <<up[k], UpdateOf(e, k)>>
    <3>1. a[2].p1 = {} /\ a[2].p2 = Last(e.pending[k])
      BY DEF UpdateOf, UpdateTask
    <3>2. Of(G, k) = Of(H, k) \cup {a}
      BY <1>0, <2>1, UpdatesOf
    <3>3. PICK q \in Seq(SUBSET Partition) : q = e.pending[k] /\ q # <<>>
      BY <1>2, <1>5, <2>1
    <3>4. u.pending[k] = Front(q)
      BY <1>3, <2>1, <3>3
    <3> HIDE DEF a
    <3>5. Unmerged(Front(q), Of(H, k) \cup {a}) = Unmerged(q, Of(H, k))
      BY <3>1, <3>3, UnmergedGive
    <3>6. Separate(Front(q))
      BY <1>6, <3>3, SeparateLast
    <3> QED
      BY <3>2, <3>3, <3>4, <3>5, <3>6
  <2>2. CASE k \notin upd
    <3>1. Of(G, k) = Of(H, k)
      BY <1>0, <2>2, UpdatesOf
    <3>2. u.pending[k] = e.pending[k]
      BY <1>3, <2>2
    <3> QED
      BY <3>1, <3>2, <1>6
  <2> QED
    BY <2>1, <2>2
<1>8. ASSUME NEW k \in Window
      PROVE  /\ Unmerged(s.pending[k], Of(F, k)) = Unmerged(u.pending[k], Of(G, k))
             /\ k \in mrg => MergeOf(u, k).p2 # {}
  <2>1. CASE k \in mrg
    <3> DEFINE a == <<mg[k], MergeOf(u, k)>>
    <3>1. a[2].p1 = Last(u.pending[k]) /\ a[2].p2 = Last(Front(u.pending[k]))
      BY DEF MergeOf, MergeTask
    <3>2. Of(F, k) = Of(G, k) \cup {a}
      BY <1>0, <2>1, MergesOf
    <3>6. a[2] = MergeOf(u, k)
      OBVIOUS
    <3>3. PICK q \in Seq(SUBSET Partition) : q = u.pending[k]
      BY <1>2
    <3>4. s.pending[k] = Front(Front(q)) /\ Len(q) > 1 /\ Separate(q)
      BY <1>4, <1>5, <1>7, <2>1, <3>3
    <3> HIDE DEF a
    <3>5. /\ Unmerged(Front(Front(q)), Of(G, k) \cup {a}) = Unmerged(q, Of(G, k))
          /\ a[2].p2 # {}
      BY <3>1, <3>3, <3>4, UnmergedMerge
    <3> QED
      BY <3>2, <3>3, <3>4, <3>5, <3>6
  <2>2. CASE k \notin mrg
    <3>1. Of(F, k) = Of(G, k)
      BY <1>0, <2>2, MergesOf
    <3> QED
      BY <1>4, <2>2, <3>1
  <2> QED
    BY <2>1, <2>2
<1>9. Waiting(s.pending, F) = Waiting(e.pending, H)
  BY <1>7, <1>8 DEF Waiting
<1>10. Pairs(MergesTo(u, mrg, mg))
  <2> SUFFICES ASSUME NEW a \in MergesTo(u, mrg, mg) PROVE a[2].p2 # {}
    BY DEF Pairs
  <2>1. PICK k \in mrg : a = <<mg[k], MergeOf(u, k)>>
    BY DEF MergesTo
  <2> QED
    BY <2>1, <1>8
<1> QED
  BY <1>0, <1>9, <1>10 DEF u

\* The same of Schedule, for the tasks in the channels of the workers.
LEMMA ScheduleWaiting ==
    ASSUME IInv, NEW e \in EmitterState, e.nready = Cardinality(e.ready),
           NEW back, NEW H, H = TasksIn(in_q, back),
           NEW later, NEW known, NEW end1, NEW res, Core(e, H, later, known, end1, res),
           NEW idle \in SUBSET e.ready,
           NEW s, s = Schedule(e, idle), Pairs(TasksIn(in_q, Nothing))
    PROVE  /\ Waiting(s.pending, TasksIn(s.q, back)) = Waiting(e.pending, H)
           /\ Pairs(TasksIn(s.q, Nothing))
<1>1. in_q \in [Worker -> Seq(Message)] /\ last_w \in Worker /\ idle \in SUBSET Worker
  BY DEF IInv, PoolType, EmitterState
<1>2. PICK upd \in SUBSET Window, mrg \in SUBSET Window :
         \E up, mg : Scheduled(e, s, idle, upd, mrg, up, mg)
  BY <1>1, ScheduledTasks
<1>3. PICK up, mg : Scheduled(e, s, idle, upd, mrg, up, mg)
  BY <1>2
<1>4. Given(e, s, upd, mrg, up, mg)
  BY <1>1, <1>3, GivenTasks
<1>5. /\ Waiting(s.pending, TasksIn(s.q, back)) = Waiting(e.pending, H)
      /\ Pairs(MergesTo(TakeUpdates(e, upd), mrg, mg))
  BY <1>1, <1>3, <1>4, ScheduledWaiting
<1>6. Pairs(UpdatesTo(e, upd, up))
  BY DEF Pairs, UpdatesTo, UpdateOf, UpdateTask
<1>7. TasksIn(s.q, Nothing) = TasksIn(in_q, Nothing) \cup UpdatesTo(e, upd, up)
                                \cup MergesTo(TakeUpdates(e, upd), mrg, mg)
  BY <1>4, Zenon DEF Given
<1>8. Pairs(TasksIn(s.q, Nothing))
  BY <1>5, <1>6, <1>7 DEF Pairs
<1> QED
  BY <1>5, <1>8

-----------------------------------------------------------------------------
(* The counters                                                            *)

\* A remainder of a number that is not far from 0.
LEMMA NearRemainder ==
    ASSUME NEW m \in Nat \ {0}, NEW a \in Int, 0 - m <= a, a < m
    PROVE  a % m = IF a >= 0 THEN a ELSE a + m
<1> DEFINE q == a \div m
           r == a % m
<1>1. q \in Int /\ r \in Nat /\ r < m /\ a = m * q + r
  OBVIOUS
<1> HIDE DEF q, r
<1>2. CASE q = 0
  BY <1>1, <1>2
<1>3. CASE q = 0 - 1
  <2>1. m * q = 0 - m
    BY <1>3
  <2> QED
    BY <1>1, <2>1
<1>4. CASE q >= 1
  <2>1. m * q >= m
    BY <1>1, <1>4
  <2> QED
    BY <1>1, <2>1
<1>5. CASE q <= 0 - 2
  <2>1. m * q <= 0 - 2 * m
    <3>1. m * (q + 2) <= 0
      BY <1>1, <1>5
    <3>2. m * (q + 2) = m * q + 2 * m
      BY <1>1
    <3>3. m * q \in Int
      BY <1>1
    <3> QED
      BY <3>1, <3>2, <3>3
  <2>2. m * q \in Int
    BY <1>1
  <2> QED
    BY <1>1, <2>1, <2>2
<1>6. r = IF a >= 0 THEN a ELSE a + m
  BY <1>1, <1>2, <1>3, <1>4, <1>5
<1> QED
  BY <1>6 DEF r

\* The number of windows of a pane.
LEMMA SharingWindows ==
    ASSUME NEW p \in Pane
    PROVE  /\ IsFiniteSet(WindowsOf(p))
           /\ Cardinality(WindowsOf(p)) \in 1..(MaxWindow + 1)
           /\ countWindows(p) = (2 - Cardinality(WindowsOf(p))) % SizeT
<1> DEFINE f == FirstWin(p)
           l == LastWin(p)
           W == WindowsOf(p)
<1>1. l \in W /\ W \subseteq Window /\ IsFiniteSet(W)
  BY WindowsOfPane
<1>2. MaxWindow \in Nat /\ SizeT \in Nat \ {0}
  BY MaxWindowAssumption, WLQAssumption
<1>3. l \in 0..MaxWindow
  BY <1>1, <1>2 DEF Window
<1>4. f \in Int
  BY WLQAssumption DEF FirstWin, Pane
<1>5. W = f..l
  BY DEF WindowsOf
<1>6. countWindows(p) = (f + 1 - (l + 1) + 1) % SizeT
  BY <1>2, <1>3, <1>4 DEF countWindows
<1> HIDE DEF f, l, W
<1>7. f <= l /\ f \in 0..MaxWindow
  <2>1. f <= l
    BY <1>1, <1>3, <1>4, <1>5
  <2>2. f \in W
    BY <2>1, <1>3, <1>4, <1>5
  <2> QED
    BY <2>1, <2>2, <1>1 DEF Window
<1>8. Cardinality(W) = l - f + 1
  BY <1>3, <1>4, <1>5, <1>7, FS_Interval
<1>9. f + 1 - (l + 1) + 1 = 2 - Cardinality(W)
  BY <1>3, <1>4, <1>8
<1>10. Cardinality(W) \in 1..(MaxWindow + 1)
  BY <1>2, <1>3, <1>7, <1>8
<1> QED
  BY <1>1, <1>6, <1>9, <1>10 DEF W

\* One more window releases a results set: the counter goes down by one, or
\* wraps around, and shows 1 before only if that was the last window.
LEMMA CounterDown ==
    ASSUME SizeTBound, NEW n \in 1..(MaxWindow + 1), NEW c \in Nat, c < n
    PROVE  /\ (Remaining(n, c) - 1) % SizeT = Remaining(n, c + 1)
           /\ Remaining(n, c) = 1 => n = 1 /\ c = 0
           /\ (2 - n) % SizeT = Remaining(n, 0)
           /\ Remaining(n, c) \in Int
<1>1. /\ MaxWindow \in Nat /\ SizeT \in Nat \ {0} /\ SizeT >= 2 * n /\ SizeT >= 2 /\ n \in Nat
      /\ n >= 1
  BY MaxWindowAssumption, WLQAssumption DEF SizeTBound
<1>2. /\ Remaining(n, c) - 1 >= 0 - SizeT /\ Remaining(n, c) - 1 < SizeT
      /\ Remaining(n, c) - 1 \in Int /\ Remaining(n, c) \in Int
      /\ Remaining(n, c + 1) = IF Remaining(n, c) - 1 >= 0 THEN Remaining(n, c) - 1
                               ELSE Remaining(n, c) - 1 + SizeT
  BY <1>1 DEF Remaining
<1>3. (Remaining(n, c) - 1) % SizeT = Remaining(n, c + 1)
  BY <1>1, <1>2, NearRemainder
<1>4. /\ 2 - n >= 0 - SizeT /\ 2 - n < SizeT /\ 2 - n \in Int
      /\ Remaining(n, 0) = IF 2 - n >= 0 THEN 2 - n ELSE 2 - n + SizeT
  BY <1>1 DEF Remaining
<1>5. (2 - n) % SizeT = Remaining(n, 0)
  BY <1>1, <1>4, NearRemainder
<1>6. Remaining(n, c) = 1 => n = 1 /\ c = 0
  BY <1>1 DEF Remaining
<1> QED
  BY <1>2, <1>3, <1>5, <1>6

\* A partition that arrives waits in all the windows of its pane.
LEMMA CountersArrive ==
    ASSUME NEW ref, NEW gone, NEW later \in SUBSET Partition, NEW W, NEW V, NEW x \in later,
           Counters(ref, gone, later, W),
           \A k \in Window : V[k] = W[k] \cup IF k \in WindowsOf(x[1]) THEN {x} ELSE {}
    PROVE  Counters(ref, gone, later \ {x}, V)
<1>1. ASSUME NEW y \in Partition
      PROVE  Released(y, later \ {x}, V) = Released(y, later, W)
  <2>1. WindowsOf(y[1]) \subseteq Window
    BY WindowsOfPane DEF Partition
  <2>2. CASE y = x
    BY <2>1, <2>2 DEF Released
  <2>3. CASE y # x
    BY <2>1, <2>3 DEF Released
  <2> QED
    BY <2>2, <2>3
<1> QED
  BY <1>1 DEF Counters

\* Window k releases the results sets of the partitions in rel.
LEMMA CountersRelease ==
    ASSUME SizeTBound, NEW ref, NEW gone, NEW later, NEW W, NEW V, NEW k \in Window, NEW rel,
           NEW ref2, NEW gone2,
           Counters(ref, gone, later, W), rel \subseteq W[k], rel \subseteq Partition,
           \A x \in rel : x[2] <= total[x[1]] /\ x \notin later /\ k \in WindowsOf(x[1]),
           \A j \in Window : V[j] = W[j] \ IF j = k THEN rel ELSE {},
           ref2 = Lowered(ref, rel), gone2 = Dropped(ref, gone, rel)
    PROVE  Counters(ref2, gone2, later, V)
<1>0. /\ gone2 = gone \cup {x \in rel : ref[x] = 1}
      /\ \A x \in Partition : ref2[x] = IF x \in rel THEN (ref[x] - 1) % SizeT ELSE ref[x]
  BY DEF Lowered, Dropped
<1>1. ASSUME NEW x \in Partition
      PROVE  /\ ref2[x] = Remaining(Cardinality(WindowsOf(x[1])),
                                    Cardinality(Released(x, later, V)))
             /\ x \in gone2 => Released(x, later, V) = WindowsOf(x[1])
  <2> DEFINE S == WindowsOf(x[1])
             R == Released(x, later, W)
             T == Released(x, later, V)
             n == Cardinality(S)
             c == Cardinality(R)
  <2>1. /\ S \subseteq Window /\ IsFiniteSet(S) /\ n \in 1..(MaxWindow + 1)
    BY WindowsOfPane, SharingWindows DEF Partition
  <2>2. R \subseteq S /\ T \subseteq S
    BY DEF Released
  <2>3. ref[x] = Remaining(n, c) /\ (x \in gone => R = S)
    BY DEF Counters
  <2>4. CASE x \notin rel
    <3>1. T = R
      BY <2>1, <2>4 DEF Released
    <3>2. ref2[x] = ref[x] /\ (x \in gone2 <=> x \in gone)
      BY <2>4, <1>0
    <3> QED
      BY <3>1, <3>2, <2>3
  <2>5. CASE x \in rel
    <3>1. T = R \cup {k} /\ k \notin R /\ k \in S
      BY <2>1, <2>5 DEF Released
    <3> HIDE DEF R, S, T
    <3>2. IsFiniteSet(R) /\ c \in Nat /\ Cardinality(T) = c + 1
      BY <2>1, <2>2, <3>1, FS_Subset, FS_CardinalityType, FS_AddElement
    <3>3. IsFiniteSet(T) /\ Cardinality(T) <= n
      BY <2>1, <2>2, FS_Subset
    <3>4. c < n
      BY <2>1, <3>2, <3>3
    <3>5. ref2[x] = (ref[x] - 1) % SizeT
      BY <2>5, <1>0
    <3>6. /\ (Remaining(n, c) - 1) % SizeT = Remaining(n, c + 1)
          /\ Remaining(n, c) = 1 => n = 1 /\ c = 0
      <4> HIDE DEF n, c
      <4> QED
        BY <2>1, <3>2, <3>4, CounterDown
    <3>7. ref2[x] = Remaining(n, Cardinality(T))
      BY <2>3, <3>2, <3>5, <3>6
    <3>8. x \notin gone
      BY <2>3, <3>1
    <3>9. ASSUME x \in gone2 PROVE T = S
      <4>1. ref[x] = 1
        BY <1>0, <3>8, <3>9
      <4>2. Cardinality(T) = Cardinality(S)
        BY <4>1, <2>3, <3>2, <3>6
      <4> QED
        BY <4>2, <2>1, <2>2, FS_Subset
    <3> QED
      BY <3>7, <3>9 DEF S, T
  <2> QED
    BY <2>4, <2>5
<1>2. gone2 \subseteq Partition
  BY <1>0 DEF Counters
<1> QED
  BY <1>1, <1>2 DEF Counters

\* The variables after a step are those that it computed.
LEMMA RefNext ==
    ASSUME total' = total, refCounter' \in [Partition -> Int],
           Counters(refCounter', freed', toArrive', Waiting(pendingQueue', Tasks')),
           Pairs(TasksIn(in_q', Nothing))
    PROVE  RefInv'
<1>1. Counters(refCounter, freed, toArrive, Waiting(pendingQueue, Tasks))'
  BY DEF Counters, Released, Waiting
<1>2. Pairs(TasksIn(in_q, Nothing))'
  BY DEF Pairs, TasksIn, Nothing
<1> QED
  BY <1>1, <1>2 DEF RefInv

-----------------------------------------------------------------------------
(* The steps of the stage                                                  *)

\* The results sets that wait for a window when one more is enqueued.
LEMMA EnqueueWaiting ==
    ASSUME IInv, NEW e, NEW x, NEW inst, Enqueued(e, x, inst)
    PROVE  \A k \in Window :
              Waiting(e.pending, Tasks)[k] = Waiting(pendingQueue, Tasks)[k]
                                             \cup IF k \in WindowsOf(x[1]) THEN {x} ELSE {}
<1> SUFFICES ASSUME NEW k \in Window
             PROVE  Unmerged(e.pending[k], Of(Tasks, k)) = Unmerged(pendingQueue[k], Of(Tasks, k))
                       \cup IF k \in WindowsOf(x[1]) THEN {x} ELSE {}
  BY DEF Waiting
<1>1. x \in Partition /\ e.pending[k] = IF k \in WindowsOf(x[1])
                                        THEN Append(pendingQueue[k], {x}) ELSE pendingQueue[k]
  BY DEF Enqueued
<1>2. PICK q \in Seq(SUBSET Partition) : q = pendingQueue[k]
  BY DEF IInv, PoolType
<1>3. Single({x}) = {x}
  BY <1>1 DEF Single
<1>4. Unmerged(Append(q, {x}), Of(Tasks, k)) = Unmerged(q, Of(Tasks, k)) \cup Single({x})
  BY <1>1, UnmergedArrive
<1> QED
  BY <1>1, <1>2, <1>3, <1>4

\* The counts of references are kept when a results set arrives.
LEMMA RcvResultsSetRef ==
    ASSUME IInv, WInv, RefInv, NEW x \in toArrive, NEW inst \in {0, total[x[1]]},
           RcvResultsSet(x, inst)
    PROVE  RefInv'
<1> DEFINE idle == activatedWorker \cap workerReady
<1>1. /\ inst = 0 => \/ x[1] \in announced
                     \/ \E y \in toArrive : y # x /\ y[1] = x[1]
      /\ toArrive' = toArrive \ {x}
      /\ announced' = IF inst = 0 THEN announced ELSE announced \cup {x[1]}
      /\ end_win' = IF LastWin(x[1]) + 1 > end_win THEN LastWin(x[1]) + 1 ELSE end_win
      /\ UNCHANGED <<total, feedback, results, refCounter, freed>>
  BY DEF RcvResultsSet, dataVars
<1>2. PICK s \in {Schedule(Enqueue(x, inst), idle)} : Update(s) /\ in_q' = s.q
  BY DEF RcvResultsSet
<1>3. PICK e : e = Enqueue(x, inst)
  OBVIOUS
<1>4. s = Schedule(e, idle)
  BY <1>2, <1>3
<1>5. Core(e, Tasks, toArrive', announced', end_win', results)
  BY <1>1, <1>3, EnqueueCore DEF WInv
<1>6. Enqueued(e, x, inst)
  BY <1>3, EnqueueFields
<1>7. /\ e \in EmitterState /\ e.nready = Cardinality(e.ready) /\ idle \in SUBSET e.ready
      /\ Tasks = TasksIn(in_q, feedback)
  BY <1>6 DEF Enqueued, Tasks
<1> HIDE DEF idle
<1>8. /\ Waiting(s.pending, TasksIn(s.q, feedback)) = Waiting(e.pending, Tasks)
      /\ Pairs(TasksIn(s.q, Nothing))
  BY <1>4, <1>5, <1>7, ScheduleWaiting DEF RefInv
<1>9. /\ pendingQueue' = s.pending /\ Tasks' = TasksIn(s.q, feedback)
  BY <1>1, <1>2 DEF Update, Tasks, TasksIn
<1>10. toArrive \in SUBSET Partition
  BY DEF WInv, Core, StreamInv
<1>11. Counters(refCounter, freed, toArrive \ {x}, Waiting(e.pending, Tasks))
  <2>1. PICK V, W : V = Waiting(e.pending, Tasks) /\ W = Waiting(pendingQueue, Tasks)
    OBVIOUS
  <2>2. \A k \in Window : V[k] = W[k] \cup IF k \in WindowsOf(x[1]) THEN {x} ELSE {}
    BY <1>6, <2>1, EnqueueWaiting
  <2>3. Counters(refCounter, freed, toArrive, W)
    BY <2>1 DEF RefInv
  <2> QED
    BY <1>10, <2>1, <2>2, <2>3, CountersArrive
<1>12. Counters(refCounter', freed', toArrive', Waiting(pendingQueue', Tasks'))
  BY <1>1, <1>8, <1>9, <1>11
<1> QED
  BY <1>1, <1>2, <1>8, <1>12, RefNext DEF RefInv

\* A step that changes neither the tasks, nor the queues, nor what came.
LEMMA RefKept ==
    ASSUME RefInv, UNCHANGED <<total, toArrive, pendingQueue, refCounter, freed>>,
           Tasks' = Tasks, TasksIn(in_q', Nothing) = TasksIn(in_q, Nothing)
    PROVE  RefInv'
BY RefNext DEF RefInv

\* The counts of references are kept at the end of the stream.
LEMMA EosNotifyRef ==
    ASSUME IInv, WInv, RefInv, EosNotify
    PROVE  RefInv'
<1>1. /\ UNCHANGED <<total, toArrive, descVars, feedback, dataVars>>
      /\ Terminate(Emitter)
  BY DEF EosNotify
<1>2. Emitter.q = in_q /\ in_q \in [Worker -> Seq(Message)]
  BY DEF Emitter, IInv, PoolType
<1>3. \A back : TasksIn(in_q', back) = TasksIn(in_q, back)
  BY <1>1, <1>2, TasksAtEnd
<1>4. Tasks' = TasksIn(in_q', feedback)
  BY <1>1 DEF Tasks, TasksIn
<1>5. Tasks' = Tasks /\ TasksIn(in_q', Nothing) = TasksIn(in_q, Nothing)
  BY <1>3, <1>4 DEF Tasks
<1> QED
  BY <1>1, <1>5, RefKept DEF descVars, dataVars

\* The counts of references are kept when a worker freezes or ends.
LEMMA LeaveRef ==
    ASSUME IInv, RefInv, NEW w \in Worker, Leave(w)
    PROVE  RefInv'
<1>1. UNCHANGED <<plqVars, descVars, feedback, dataVars>>
  BY DEF Leave
<1>2. \A back : TasksIn(in_q', back) = TasksIn(in_q, back)
  BY LeaveTasks
<1>3. Tasks' = TasksIn(in_q', feedback)
  BY <1>1 DEF Tasks, TasksIn
<1>4. Tasks' = Tasks /\ TasksIn(in_q', Nothing) = TasksIn(in_q, Nothing)
  BY <1>2, <1>3 DEF Tasks
<1> QED
  BY <1>1, <1>4, RefKept DEF plqVars, descVars, dataVars

\* The counts of references are kept when workers are removed.
LEMMA RemoveWorkersRef ==
    ASSUME IInv, RefInv, NEW W, RemoveWorkers(W)
    PROVE  RefInv'
<1>1. /\ UNCHANGED <<plqVars, descVars, feedback, dataVars>>
      /\ in_q' = [w \in Worker |-> IF w \in W THEN Append(in_q[w], GO_OUT) ELSE in_q[w]]
  BY DEF RemoveWorkers
<1>2. PICK r : r = in_q'
  OBVIOUS
<1>3. \A w \in Worker : r[w] \in {in_q[w], Append(in_q[w], GO_OUT), Append(in_q[w], EOS)}
  BY <1>1, <1>2
<1>4. in_q \in [Worker -> Seq(Message)]
  BY DEF IInv, PoolType
<1>5. \A back : TasksIn(r, back) = TasksIn(in_q, back)
  BY <1>3, <1>4, TasksSame
<1>6. Tasks' = TasksIn(in_q', feedback)
  BY <1>1 DEF Tasks, TasksIn
<1>7. Tasks' = Tasks /\ TasksIn(in_q', Nothing) = TasksIn(in_q, Nothing)
  BY <1>2, <1>5, <1>6 DEF Tasks
<1> QED
  BY <1>1, <1>7, RefKept DEF plqVars, descVars, dataVars

\* A step that changes no channel between the emitter and the workers.
LEMMA ChannelsKept ==
    ASSUME RefInv, UNCHANGED <<plqVars, descVars, in_q, feedback, dataVars>>
    PROVE  RefInv'
<1>1. Tasks' = Tasks /\ TasksIn(in_q', Nothing) = TasksIn(in_q, Nothing)
  BY DEF Tasks, TasksIn
<1> QED
  BY <1>1, RefKept DEF plqVars, descVars, dataVars

\* The emitter takes back a task: the merged results set joins the queue.
LEMMA CompletedWaiting ==
    ASSUME IInv, NEW w \in Worker, NEW t \in Task, Finished(w, t), t.p2 = {},
           t.type # "MERGE" => t.p1 = {}, NEW e, e = Completed(w, t)
    PROVE  Waiting(e.pending, Tasks \ {<<w, t>>}) = Waiting(pendingQueue, Tasks)
<1> DEFINE a == <<w, t>>
<1>1. PICK merged : merged = (t.type = "MERGE")
  OBVIOUS
<1>2. PICK updated : updated = (t.type = "WIN_UPDATE" /\ ~t.finalize)
  OBVIOUS
<1>3. TakenFrom(e, t, updated, merged)
  BY <1>1, <1>2, CompletedWindows
<1>4. a \in Tasks
  BY OneTask DEF Has
<1>5. a[2] = t /\ t.p1 \in SUBSET Partition
  BY DEF Task
<1> HIDE DEF a
<1>6. SUFFICES ASSUME NEW k \in Window
               PROVE  Unmerged(e.pending[k], Of(Tasks \ {a}, k))
                         = Unmerged(pendingQueue[k], Of(Tasks, k))
  BY DEF Waiting, a
<1>7. PICK q \in Seq(SUBSET Partition) : q = pendingQueue[k]
  BY DEF IInv, PoolType
<1>8. CASE k = t.win_id
  <2>1. PICK H : H = Of(Tasks, k)
    OBVIOUS
  <2>2. a \in H /\ Of(Tasks \ {a}, k) = H \ {a}
    BY <1>4, <1>5, <1>8, <2>1 DEF Of
  <2>3. e.pending[k] = IF merged THEN Append(q, a[2].p1) ELSE q
    BY <1>3, <1>5, <1>7, <1>8 DEF TakenFrom
  <2>4. /\ Unmerged(Append(q, a[2].p1), H \ {a}) = Unmerged(q, H)
        /\ a[2].p1 = {} => Unmerged(q, H \ {a}) = Unmerged(q, H)
    BY <1>5, <2>2, UnmergedReturn
  <2> QED
    BY <1>1, <1>5, <1>7, <2>1, <2>2, <2>3, <2>4
<1>9. CASE k # t.win_id
  <2>1. Of(Tasks \ {a}, k) = Of(Tasks, k)
    BY <1>5, <1>9 DEF Of
  <2>2. e.pending[k] = q
    BY <1>3, <1>7, <1>9 DEF TakenFrom
  <2> QED
    BY <1>7, <2>1, <2>2
<1> QED
  BY <1>8, <1>9

\* The counts of references are kept by a feedback.
LEMMA RcvFeedbackRef ==
    ASSUME IInv, WInv, RefInv, NEW w \in Worker, RcvFeedback(w)
    PROVE  RefInv'
<1>1. /\ feedback[w] # <<>>
      /\ feedback' = [feedback EXCEPT ![w] = Tail(@)]
      /\ UNCHANGED <<total, toArrive, announced, end_win, results, refCounter, freed>>
  BY DEF RcvFeedback, dataVars
<1>2. PICK t \in Task : Finished(w, t)
  BY <1>1 DEF IInv, WorkersInv, Idle, Has, Working
<1>3. Head(feedback[w]) = t
  BY <1>2, ShortSequences DEF Finished
<1>4. PICK e \in {Completed(w, t)} :
         \E s \in {IF CanServe(w) THEN Schedule(e, {w}) ELSE e} :
            Update(s) /\ Terminate(s)
  BY <1>3 DEF RcvFeedback
<1>5. PICK s \in {IF CanServe(w) THEN Schedule(e, {w}) ELSE e} :
         Update(s) /\ Terminate(s)
  BY <1>4
<1>6. /\ e \in EmitterState /\ e.ready = workerReady \cup {w}
      /\ e.nready = Cardinality(e.ready) /\ e.q = in_q
  BY <1>2, <1>4, CompletedFields
<1>7. PICK back, H : back = feedback' /\ H = TasksIn(in_q, back)
  OBVIOUS
<1>8. H = Tasks \ {<<w, t>>}
  BY <1>1, <1>2, <1>7, TasksBack
<1>9. t.p2 = {}
  <2>1. t \in ToSet(feedback[w])
    BY <1>2, ChannelTasks
  <2> QED
    BY <2>1 DEF WInv, BackInv
<1>10. t.type # "MERGE" => t.p1 = {}
  <2>1. <<w, t>> \in Of(Tasks, t.win_id) /\ t.win_id \in Window
    BY <1>2, OneTask DEF Has, Of, Task
  <2>2. \A a \in Of(Tasks, t.win_id) : /\ a[2].type \in {"WIN_UPDATE", "MERGE"}
                                       /\ a[2].type = "WIN_UPDATE" <=> a[2].p1 = {}
    BY <2>1 DEF WInv, Core, Windows, WindowInv
  <2>3. <<w, t>>[2] = t
    OBVIOUS
  <2> QED
    BY <2>1, <2>2, <2>3
<1>11. Core(e, H, toArrive, announced, end_win, results)
  BY <1>2, <1>4, <1>8, <1>9, CompletedCore DEF WInv
<1>12. Waiting(e.pending, H) = Waiting(pendingQueue, Tasks)
  BY <1>2, <1>4, <1>8, <1>9, <1>10, CompletedWaiting
<1>13. /\ Waiting(s.pending, TasksIn(s.q, back)) = Waiting(e.pending, H)
       /\ Pairs(TasksIn(s.q, Nothing)) /\ s \in EmitterState
  <2>1. CASE CanServe(w)
    <3> DEFINE idle == {w}
    <3>1. s = Schedule(e, idle) /\ idle \in SUBSET e.ready
      BY <1>5, <1>6, <2>1
    <3> HIDE DEF idle
    <3>5. Pairs(TasksIn(in_q, Nothing))
      BY DEF RefInv
    <3>6. PICK later, known, end1, res :
             /\ later = toArrive /\ known = announced /\ end1 = end_win /\ res = results
      OBVIOUS
    <3>7. Core(e, H, later, known, end1, res)
      BY <3>6, <1>11
    <3>2. /\ Waiting(s.pending, TasksIn(s.q, back)) = Waiting(e.pending, H)
          /\ Pairs(TasksIn(s.q, Nothing))
      BY ONLY IInv, <3>1, <3>5, <3>7, <1>6, <1>7, ScheduleWaiting
    <3>3. \A a \in H : a[1] \notin idle
      <4>1. <<w, t>> \in Tasks
        BY <1>2, OneTask DEF Has
      <4> QED
        BY <4>1, <1>8, OneTask DEF idle
    <3>4. s \in EmitterState
      BY <3>1, <3>3, <1>6, <1>7, <1>11, ScheduleStep DEF Searched
    <3> QED
      BY <3>2, <3>4
  <2>2. CASE ~CanServe(w)
    BY <1>5, <1>6, <1>7, <2>2 DEF RefInv
  <2> QED
    BY <2>1, <2>2
<1>14. /\ s.q \in [Worker -> Seq(Message)]
       /\ \A some : TasksIn(in_q', some) = TasksIn(s.q, some)
  <2>1. s.q \in [Worker -> Seq(Message)]
    BY <1>13 DEF EmitterState
  <2> QED
    BY <2>1, <1>5, TasksAtEnd
<1>15. Tasks' = TasksIn(s.q, back) /\ pendingQueue' = s.pending
  BY <1>5, <1>7, <1>14 DEF Tasks, Update, TasksIn
<1>16. Counters(refCounter', freed', toArrive', Waiting(pendingQueue', Tasks'))
  BY <1>1, <1>12, <1>13, <1>15 DEF RefInv
<1>17. Pairs(TasksIn(in_q', Nothing))
  BY <1>13, <1>14
<1> QED
  BY <1>1, <1>16, <1>17, RefNext DEF RefInv

\* The worker decreases the counters of the partitions of its task that are the
\* only ones of their results sets.
LEMMA ExecutedRelease ==
    ASSUME IInv, NEW w \in Worker, NEW t \in Task, NEW t2 \in Task, Execute(w),
           Executed(w, t, t2), t.type = "WIN_UPDATE" => t.p1 = {},
           NEW rel, rel = Singles(t)
    PROVE  /\ refCounter' = Lowered(refCounter, rel)
           /\ freed' = Dropped(refCounter, freed, rel)
<1>1. Head(in_q[w]) = t
  BY ShortSequences DEF Executed, Working, Message
<1>2. \/ t.type = "WIN_UPDATE" /\ Release({t.p2})
      \/ t.type = "MERGE" /\ Release({t.p1, t.p2})
  BY <1>1 DEF Execute
<1>3. CASE t.type = "WIN_UPDATE" /\ Release({t.p2})
  <2>1. {x \in Partition : {x} \in {t.p2}} = rel
    BY <1>3 DEF Singles
  <2> QED
    BY <1>3, <2>1 DEF Release, Lowered, Dropped
<1>4. CASE t.type = "MERGE" /\ Release({t.p1, t.p2})
  <2>1. {x \in Partition : {x} \in {t.p1, t.p2}} = rel
    BY DEF Singles
  <2> QED
    BY <1>4, <2>1 DEF Release, Lowered, Dropped
<1> QED
  BY <1>2, <1>3, <1>4

\* The counts of references are kept by a merge.
LEMMA ExecuteRef ==
    ASSUME SizeTBound, IInv, WInv, RefInv, NEW w \in Worker, Execute(w)
    PROVE  RefInv'
<1>1. PICK t \in Task, t2 \in Task : Executed(w, t, t2)
  BY ExecutedTask
<1> DEFINE a == <<w, t>>
           b == <<w, t2>>
<1>2. /\ a \in Tasks /\ Tasks' = (Tasks \ {a}) \cup {b}
      /\ a \in TasksIn(in_q, Nothing)
      /\ TasksIn(in_q', Nothing) = TasksIn(in_q, Nothing) \ {a}
  BY <1>1, ExecutedTasks
<1>3. UNCHANGED <<total, toArrive, pendingQueue>>
  BY <1>1 DEF Executed, plqVars, descVars
<1>4. /\ a[2] = t /\ b[2] = t2 /\ b[2].win_id = a[2].win_id
  BY <1>1 DEF Executed
<1>5. PICK k \in Window : k = t.win_id
  BY DEF Task
<1> HIDE DEF a, b
<1>6. PICK H, G, q : H = Of(Tasks, k) /\ G = Tasks' /\ q = pendingQueue[k]
  OBVIOUS
<1>7. a \in H
  BY <1>2, <1>4, <1>5, <1>6 DEF Of
<1>8. PICK res : /\ Accounted(Came(k, toArrive), res, q, H)
                 /\ \A c \in H : /\ c[2].type \in {"WIN_UPDATE", "MERGE"}
                                 /\ c[2].type = "WIN_UPDATE" <=> c[2].p1 = {}
  <2>1. Emitter.pending = pendingQueue
    BY DEF Emitter
  <2> QED
    BY <1>6, <2>1 DEF WInv, Core, Windows, WindowInv
<1>9. /\ t.type = "WIN_UPDATE" <=> t.p1 = {}
      /\ t.type = "MERGE" => t.p2 # {}
      /\ t.type \in {"WIN_UPDATE", "MERGE"}
  BY <1>2, <1>4, <1>7, <1>8 DEF RefInv, Pairs
<1>10. PICK rel : rel = Singles(t)
  OBVIOUS
<1>11. Unmerged(q, (H \ {a}) \cup {b}) = Unmerged(q, H) \ rel
  <2>1. /\ t2.p2 = {}
        /\ t.type = "WIN_UPDATE" => t2.p1 = t.p1
        /\ t.type = "MERGE" => t2.p1 = t.p1 \cup t.p2
    BY <1>1 DEF Executed
  <2>2. /\ b[2].p2 = {}
        /\ b[2].p1 = {} \/ b[2].p1 = a[2].p1 \cup a[2].p2
        /\ b[2].p1 = {} => a[2].p1 = {}
        /\ b[2].p1 # {} => a[2].p1 # {} /\ a[2].p2 # {}
    BY <1>4, <1>9, <2>1
  <2>3. PICK F : F = (H \ {a}) \cup {b}
    OBVIOUS
  <2>4. Accounted(Came(k, toArrive), res, q, H)
    BY <1>8
  <2>5. Unmerged(q, F) = Unmerged(q, H) \ Singles(a[2])
    BY <1>7, <2>2, <2>3, <2>4, UnmergedExecute
  <2> QED
    BY <1>4, <1>10, <2>3, <2>5
<1>12. Of(G, k) = (H \ {a}) \cup {b}
  BY <1>2, <1>4, <1>5, <1>6 DEF Of
<1>13. \A j \in Window : j # k => Of(G, j) = Of(Tasks, j)
  BY <1>2, <1>4, <1>5, <1>6 DEF Of
<1>14. PICK V, W : V = Waiting(pendingQueue, G) /\ W = Waiting(pendingQueue, Tasks)
  OBVIOUS
<1>15. \A j \in Window : V[j] = W[j] \ IF j = k THEN rel ELSE {}
  <2> SUFFICES ASSUME NEW j \in Window PROVE V[j] = W[j] \ IF j = k THEN rel ELSE {}
    OBVIOUS
  <2>1. V[j] = Unmerged(pendingQueue[j], Of(G, j)) /\ W[j] = Unmerged(pendingQueue[j], Of(Tasks, j))
    BY <1>14 DEF Waiting
  <2> QED
    BY <2>1, <1>6, <1>11, <1>12, <1>13
<1>16. rel \subseteq W[k]
  <2>1. W[k] = Unmerged(q, H)
    BY <1>6, <1>14 DEF Waiting
  <2> QED
    BY <2>1, <1>4, <1>7, <1>10 DEF Unmerged, Singles
<1>17. \A x \in rel : x[2] <= total[x[1]] /\ x \notin toArrive /\ k \in WindowsOf(x[1])
  <2> SUFFICES ASSUME NEW x \in rel PROVE x \in Came(k, toArrive)
    BY DEF Came, All
  <2>1. x \in Carried(a)
    BY <1>4, <1>10 DEF Carried, Singles
  <2>2. x \in Parts(H)
    BY <2>1, <1>7 DEF Parts
  <2> QED
    BY <2>2, <1>8 DEF Accounted
<1>18. /\ refCounter' = Lowered(refCounter, rel)
       /\ freed' = Dropped(refCounter, freed, rel)
  BY <1>1, <1>9, <1>10, ExecutedRelease
<1>19. refCounter' \in [Partition -> Int]
  <2>1. SizeT \in Nat \ {0} /\ refCounter \in [Partition -> Int]
    BY WLQAssumption DEF RefInv
  <2> QED
    BY <2>1, <1>18 DEF Lowered
<1>20. Counters(refCounter', freed', toArrive, V)
  <2>1. PICK ref, gone : ref = refCounter' /\ gone = freed'
    OBVIOUS
  <2>2. Counters(refCounter, freed, toArrive, W) /\ rel \subseteq Partition
    BY <1>10, <1>14 DEF RefInv, Singles
  <2>3. ref = Lowered(refCounter, rel) /\ gone = Dropped(refCounter, freed, rel)
    BY <2>1, <1>18
  <2>4. Counters(ref, gone, toArrive, V)
    BY <1>15, <1>16, <1>17, <2>2, <2>3, CountersRelease
  <2> QED
    BY <2>1, <2>4
<1>21. Counters(refCounter', freed', toArrive', Waiting(pendingQueue', Tasks'))
  BY <1>3, <1>6, <1>14, <1>20
<1>22. Pairs(TasksIn(in_q', Nothing))
  <2>1. Pairs(TasksIn(in_q, Nothing))
    BY DEF RefInv
  <2> QED
    BY <1>2, <2>1 DEF Pairs
<1> QED
  BY <1>3, <1>19, <1>21, <1>22, RefNext

\* The counts of references are right initially.
LEMMA InitRef == ASSUME SizeTBound PROVE Init => RefInv
<1> SUFFICES ASSUME Init PROVE RefInv
  OBVIOUS
<1>1. /\ toArrive = {x \in Partition : x[2] <= total[x[1]]}
      /\ pendingQueue = [k \in Window |-> <<>>] /\ feedback = [w \in Worker |-> <<>>]
      /\ in_q = [w \in Worker |-> IF w \in activatedWorker THEN <<>> ELSE <<GO_OUT>>]
      /\ refCounter = [x \in Partition |-> countWindows(x[1])] /\ freed = {}
  BY DEF Init
<1>2. TasksIn(in_q, Nothing) = {}
  <2>1. \A t \in Task : t # GO_OUT
    BY DEF Task, GO_OUT
  <2>2. ASSUME NEW w \in Worker, NEW t \in Task
        PROVE  t \notin ToSet(in_q[w]) /\ t \notin ToSet(Nothing[w])
    <3>1. ToSet(<<>>) = {} /\ t \notin ToSet(<<GO_OUT>>) /\ Nothing[w] = <<>>
      BY <2>1, ShortSets DEF Nothing
    <3>2. CASE w \in activatedWorker
      BY <1>1, <3>1, <3>2
    <3>3. CASE w \notin activatedWorker
      BY <1>1, <3>1, <3>3
    <3> QED
      BY <3>2, <3>3
  <2>3. \A a \in Worker \X Task : a[1] \in Worker /\ a[2] \in Task
    OBVIOUS
  <2> QED
    BY <2>2, <2>3 DEF TasksIn
<1>3. ASSUME NEW x \in Partition
      PROVE  /\ refCounter[x] \in Int
             /\ \A W : refCounter[x] = Remaining(Cardinality(WindowsOf(x[1])),
                                                 Cardinality(Released(x, toArrive, W)))
  <2>1. PICK n : n = Cardinality(WindowsOf(x[1]))
    OBVIOUS
  <2>2. n \in 1..(MaxWindow + 1) /\ countWindows(x[1]) = (2 - n) % SizeT
    BY <2>1, SharingWindows DEF Partition
  <2>3. 0 \in Nat /\ 0 < n
    BY <2>2
  <2>4. /\ (2 - n) % SizeT = Remaining(n, 0)
        /\ Remaining(n, 0) \in Int
    BY <2>2, <2>3, CounterDown
  <2>5. ASSUME NEW W PROVE Released(x, toArrive, W) = {}
    BY <1>1 DEF Released
  <2>6. Cardinality({}) = 0
    BY FS_EmptySet
  <2> QED
    BY <1>1, <2>1, <2>2, <2>4, <2>5, <2>6
<1>4. refCounter \in [Partition -> Int]
  BY <1>1, <1>3
<1>5. Counters(refCounter, freed, toArrive, Waiting(pendingQueue, Tasks))
  <2>1. PICK W : W = Waiting(pendingQueue, Tasks)
    OBVIOUS
  <2> QED
    BY <1>1, <1>3, <2>1 DEF Counters
<1>6. Pairs(TasksIn(in_q, Nothing))
  BY <1>2 DEF Pairs
<1> QED
  BY <1>4, <1>5, <1>6 DEF RefInv

\* Every step keeps the invariant.
LEMMA NextRef == ASSUME SizeTBound PROVE IInv /\ WInv /\ RefInv /\ [Next]_vars => RefInv'
<1> SUFFICES ASSUME IInv, WInv, RefInv, [Next]_vars PROVE RefInv'
  OBVIOUS
<1>1. CASE EmitterStep
  BY <1>1, RcvResultsSetRef, EosNotifyRef, RcvFeedbackRef DEF EmitterStep
<1>2. CASE Reconfigure
  <2>1. ASSUME NEW W, AddWorkers(W) PROVE RefInv'
    BY <2>1, ChannelsKept DEF AddWorkers
  <2> QED
    BY <1>2, <2>1, RemoveWorkersRef DEF Reconfigure
<1>3. CASE \E w \in Worker : WorkerStep(w)
  BY <1>3, ExecuteRef, LeaveRef DEF WorkerStep
<1>4. CASE \E w \in Worker : CollectFrom(w)
  BY <1>4, ChannelsKept DEF CollectFrom
<1>5. CASE UNCHANGED vars
  BY <1>5, ChannelsKept DEF vars, workVars
<1> QED
  BY <1>1, <1>2, <1>3, <1>4, <1>5 DEF Next, Done

\* The counts of references are right for ever.
LEMMA AlwaysRef == ASSUME SizeTBound PROVE Spec => [](IInv /\ WInv /\ RefInv)
<1>1. Init => RefInv
  BY InitRef
<1>2. IInv /\ WInv /\ RefInv /\ [Next]_vars => RefInv'
  BY NextRef
<1> QED
  BY <1>1, <1>2, AlwaysWInv, PTL DEF Spec

-----------------------------------------------------------------------------
(* The property                                                            *)

\* A partition that waits in a window came, and the window did not release it.
LEMMA FreedIsReleased ==
    ASSUME IInv, WInv, RefInv, NEW k \in Window, NEW x \in freed
    PROVE  x \notin Unmerged(pendingQueue[k], Of(Tasks, k))
<1> SUFFICES ASSUME x \in Unmerged(pendingQueue[k], Of(Tasks, k)) PROVE FALSE
  OBVIOUS
<1>1. PICK W : W = Waiting(pendingQueue, Tasks)
  OBVIOUS
<1>2. x \in Partition /\ Released(x, toArrive, W) = WindowsOf(x[1])
  BY <1>1 DEF RefInv, Counters
<1>3. PICK came : /\ came = Came(k, toArrive)
                  /\ Accounted(came, results[k], pendingQueue[k], Of(Tasks, k))
  BY WindowNow DEF WindowInv
<1>4. x \in came
  <2>1. CASE {x} \in ToSet(pendingQueue[k])
    BY <1>3, <2>1 DEF Accounted
  <2>2. CASE \E a \in Of(Tasks, k) : {x} \in {a[2].p1, a[2].p2}
    <3>1. PICK a \in Of(Tasks, k) : {x} \in {a[2].p1, a[2].p2}
      BY <2>2
    <3>2. x \in Carried(a)
      BY <3>1 DEF Carried
    <3>3. x \in Parts(Of(Tasks, k))
      BY <3>2 DEF Parts
    <3> QED
      BY <1>3, <3>3 DEF Accounted
  <2> QED
    BY <2>1, <2>2 DEF Unmerged
<1>5. k \in WindowsOf(x[1])
  BY <1>3, <1>4 DEF Came, All
<1>6. x \in W[k]
  BY <1>1 DEF Waiting
<1> QED
  BY <1>2, <1>5, <1>6 DEF Released

\* The counts of references imply NoUseAfterFree.
LEMMA ResultsCorrect ==
    ASSUME IInv, WInv, RefInv
    PROVE  NoUseAfterFree
<1>1. ASSUME NEW k \in open, NEW x \in freed PROVE {x} \notin ToSet(pendingQueue[k])
  <2>1. k \in Window /\ x \in Partition
    BY DEF IInv, PoolType, RefInv, Counters
  <2> QED
    BY <2>1, FreedIsReleased DEF Unmerged
<1>2. ASSUME NEW w \in Worker, NEW t \in ToSet(in_q[w]), IsTask(t), NEW x \in freed
      PROVE  {x} \notin {t.p1, t.p2}
  <2>1. t \in Outstanding(w)
    BY <1>2 DEF Outstanding
  <2>2. t \in Task /\ <<w, t>> \in Tasks
    BY <2>1, OutstandingTasks
  <2>3. PICK k \in Window : k = t.win_id
    BY <2>2 DEF Task
  <2>4. PICK a : a = <<w, t>>
    OBVIOUS
  <2>7. a[2] = t
    BY <2>4
  <2>5. a \in Of(Tasks, k)
    BY <2>2, <2>3, <2>4, <2>7 DEF Of
  <2>6. x \in Partition
    BY DEF RefInv, Counters
  <2> QED
    BY <2>5, <2>6, <2>7, FreedIsReleased DEF Unmerged
<1> QED
  BY <1>1, <1>2 DEF NoUseAfterFree

\* A worker deallocates the results set of a partition (WLQ_Worker::svc, when
\* decreaseRefCounter returns 1) only after all the windows of the pane merged
\* it: no queue and no task still uses it.  countWindows subtracts in the wrong
\* order, so the counter of a pane with several windows starts from 0 or wraps
\* around in size_t; it then leaks the results set (MergedAreFreed), but for as
\* long as size_t exceeds twice the number of windows it deallocates none early.
THEOREM NothingUsedAfterFree == ASSUME SizeTBound PROVE Spec => []NoUseAfterFree
<1>1. IInv /\ WInv /\ RefInv => NoUseAfterFree
  BY ResultsCorrect
<1> QED
  BY <1>1, AlwaysRef, PTL

=============================================================================
