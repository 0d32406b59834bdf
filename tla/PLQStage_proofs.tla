-------------------------- MODULE PLQStage_proofs --------------------------
(***************************************************************************)
(* Proofs about the messages between the emitter and the workers of the    *)
(* pane-level query stage, for any number of workers, any stream, any      *)
(* reconfigurations, both builds and the three scheduling strategies: what *)
(* a worker that is removed has in its queue, what follows a punctuation,  *)
(* what becomes of the results sets of a closed pane, and which workers    *)
(* have a partition when they are told of another one.                     *)
(***************************************************************************)
EXTENDS PLQStage, Sums_proofs

\* The messages that the workers receive while they are activated, those that
\* name a pane whose partition they make or have, those that make one.
Ordinary == {"REGULAR", "EMPTYPANE", "NEW_INST", "LULL", "PUNCT"}
Naming   == {"REGULAR", "EMPTYPANE", "NEW_INST"}
Making   == {"REGULAR", "EMPTYPANE"}

Message ==
    [type : Naming \cup {"LULL"}, pane_id : Pane, no_instances : Nat]
        \cup [type : {"PUNCT", "FLUSH"}, pane_id : Pane]
        \cup {END, GO_OUT, EOS}

ResultsSet == [no_instances : Nat, tuples : Nat]
Deque == UNION {[P -> ResultsSet] : P \in SUBSET Pane}

Sched ==
    [activated : SUBSET Worker, nw_plq : Int, last_w : Worker,
     next_pane_id : Pane, n_panes : 0..(PaneOf(MaxTs) + 1),
     p_instances : [Pane -> Nat], pane_size : [Pane -> Nat],
     holders : [Pane -> SUBSET Worker],
     a_worker : [Pane -> Worker \cup {NoWorker}], warmup : BOOLEAN]

EmitterType ==
    [s : Sched, q : [Worker -> Seq(Message)],
     last_P : Timestamp, last_timestamp : Timestamp]

KSlackType ==
    [K : Timestamp, tcurr : Timestamp, ts_vect : SUBSET Timestamp,
     buffer : Seq(Timestamp)]

TypeInv ==
    /\ Emitter \in EmitterType
    /\ paneSet \in [Worker -> Deque]
    /\ status \in [Worker -> {"running", "frozen", "ended"}]
    /\ results \in [Pane -> [parts : Nat, tuples : Nat, counts : SUBSET Nat]]
    /\ kslack \in KSlackType
    /\ {received, reconfs} \subseteq Nat
    /\ {iop, plqTerminated} \subseteq BOOLEAN
    /\ strategy \in {"PB_RR", "TB_RR", "ADAPTIVE"}
    /\ Adaptive => ~iop

-----------------------------------------------------------------------------
(* What is on the way to one worker, with status st, panes D in its deque  *)
(* and input queue x.                                                      *)

\* The last messages tell the worker that it is removed, or the end of the
\* stream; when it takes them its deque is empty.  over: the stream has ended.
Phase(st, D, x, over, active) ==
    LET n == Len(x)
        EndsWith(type, m) == x[n - 1].type = type /\ x[n] = m
    IN \/ /\ ~over /\ active /\ st = "running"
          /\ \A i \in 1..n : x[i].type \in Ordinary
       \/ /\ st = "running" /\ n >= 2
          /\ \A i \in 1..(n - 2) : x[i].type \in Ordinary
          /\ IF over THEN EndsWith("END", EOS) ELSE ~active /\ EndsWith("FLUSH", GO_OUT)
       \/ /\ st = "running" /\ D = {}
          /\ IF over THEN x = <<EOS>> ELSE ~active /\ x = <<GO_OUT>>
       \/ /\ D = {} /\ x = <<>>
          /\ IF over THEN st = "ended" ELSE ~active /\ st = "frozen"

Names(m, p)  == m.type \in Naming /\ m.pane_id = p
Makes(m, p)  == m.type \in Making /\ m.pane_id = p
Closes(m, p) == \/ m.type = "PUNCT" /\ m.pane_id > p
                \/ m.type \in {"FLUSH", "END"}

\* Out of order: nothing of a pane follows a punctuation that closes it, and
\* the partitions of the closed panes, those before next, will be sent.
Punctuated(D, x, next) ==
    /\ \A i \in DOMAIN x : x[i].type = "PUNCT" => x[i].pane_id <= next
    /\ \A i, j \in DOMAIN x : \A p \in Pane :
          i < j /\ x[i].type = "PUNCT" /\ Names(x[j], p) => x[i].pane_id <= p
    /\ \A p \in D : p < next => \E j \in DOMAIN x : Closes(x[j], p)
    /\ \A i \in DOMAIN x : \A p \in Pane :
          Makes(x[i], p) /\ p < next => \E j \in DOMAIN x : i < j /\ Closes(x[j], p)

\* In order: the panes are named in their order.
InPaneOrder(D, x, next) ==
    /\ \A i \in DOMAIN x : x[i].type # "PUNCT"
    /\ \A p \in D : p <= next
    /\ \A i \in DOMAIN x : \A p \in Pane : Names(x[i], p) =>
          /\ p <= next
          /\ \A r \in D : r <= p
          /\ \A j \in DOMAIN x : \A r \in Pane : i < j /\ Names(x[j], r) => p <= r

\* The worker has, or will have, a partition of each of the panes held, and of
\* each pane of which it is told that there is another partition.
Prepared(D, x, held) ==
    /\ \A p \in held : p \in D \/ \E i \in DOMAIN x : Makes(x[i], p)
    /\ \A j \in DOMAIN x : \A p \in Pane :
          x[j].type = "NEW_INST" /\ x[j].pane_id = p =>
              p \in D \/ \E i \in DOMAIN x : i < j /\ Makes(x[i], p)

OnTheWay(D, x, next, held) ==
    /\ IF iop THEN InPaneOrder(D, x, next) ELSE Punctuated(D, x, next)
    /\ Prepared(D, x, held)

-----------------------------------------------------------------------------
(* The inductive invariant                                                 *)

\* The open panes of which worker w has a partition.
HeldBy(s, w) == {p \in Pane : p >= s.next_pane_id /\ w \in s.holders[p] \cap s.activated}

QueuesInv(e, over) ==
    \A w \in Worker :
        LET D == DOMAIN paneSet[w]
        IN /\ D \subseteq Pane
           /\ Phase(status[w], D, e.q[w], over, w \in e.s.activated)
           /\ OnTheWay(D, e.q[w], e.s.next_pane_id,
                       IF over THEN {} ELSE HeldBy(e.s, w))

\* Adaptive: a pane with tuples has an active worker, which has a partition.
ActiveInv(s, p) ==
    Adaptive => /\ s.pane_size[p] > 0 => s.a_worker[p] # NoWorker
                /\ s.a_worker[p] # NoWorker => s.a_worker[p] \in s.holders[p]

\* The workers that have a partition of an open pane are activated.
PaneInv(s, p) == s.holders[p] \subseteq s.activated /\ ActiveInv(s, p)

SchedInv(e) ==
    /\ e.s.activated # {}
    /\ \A p \in Pane : p >= e.s.n_panes =>
          e.s.holders[p] = {} /\ e.s.pane_size[p] = 0 /\ e.s.a_worker[p] = NoWorker
    /\ e.s.next_pane_id <= PaneOf(IF iop THEN e.last_timestamp ELSE e.last_P)
    /\ iop => e.s.n_panes <= e.s.next_pane_id + 1

EmitterInv(e, over) ==
    /\ e \in EmitterType
    /\ QueuesInv(e, over)
    /\ SchedInv(e)
    /\ \A p \in Pane : p >= e.s.next_pane_id => PaneInv(e.s, p)

KSlackInv ==
    /\ kslack.K <= kslack.tcurr
    /\ \A u \in kslack.ts_vect : u <= kslack.tcurr
    /\ ~iop => kslack.buffer = <<>>

StageInv ==
    /\ TypeInv
    /\ KSlackInv
    /\ EmitterInv(Emitter, plqTerminated)
    /\ plqTerminated => sched.activated = Worker

-----------------------------------------------------------------------------
(* One message more, or one less                                           *)

\* What the type of a message tells of it.
LEMMA MessageFields ==
    ASSUME NEW m \in Message
    PROVE  /\ m.type \in Ordinary \cup {"FLUSH", "END", "GO_OUT", "EOS"}
           /\ m.type \in Naming \cup {"LULL", "PUNCT", "FLUSH"} => m.pane_id \in Pane
           /\ m.type \in Naming \cup {"LULL"} => m.no_instances \in Nat
           /\ m.type = "GO_OUT" => m = GO_OUT
           /\ m.type = "EOS" => m = EOS
<1>1. CASE m \in [type : Naming \cup {"LULL"}, pane_id : Pane, no_instances : Nat]
  BY <1>1 DEF Naming, Ordinary
<1>2. CASE m \in [type : {"PUNCT", "FLUSH"}, pane_id : Pane]
  BY <1>2 DEF Naming, Ordinary
<1>3. CASE m \in {END, GO_OUT, EOS}
  BY <1>3 DEF END, GO_OUT, EOS, Naming
<1> QED
  BY <1>1, <1>2, <1>3 DEF Message

\* The messages that the emitter sends.
LEMMA MessagesSent ==
    /\ \A p \in Pane, n \in Nat : /\ Regular(p, n) \in Message
                               /\ EmptyPane(p, n) \in Message
                               /\ NewInst(p, n) \in Message
    /\ \A p \in Pane : Lull(p) \in Message /\ Punct(p) \in Message /\ FLUSH(p) \in Message
    /\ {END, GO_OUT, EOS} \subseteq Message
  BY DEF Message, Naming, Regular, EmptyPane, NewInst, Lull, Punct, FLUSH

\* A queue with one more message.
LEMMA AppendQueue ==
    ASSUME NEW x \in Seq(Message), NEW m \in Message
    PROVE  /\ Append(x, m) \in Seq(Message)
           /\ Len(x) \in Nat /\ DOMAIN x = 1..Len(x)
           /\ Len(Append(x, m)) = Len(x) + 1
           /\ DOMAIN Append(x, m) = 1..(Len(x) + 1)
           /\ \A i \in 1..Len(x) : Append(x, m)[i] = x[i]
           /\ Append(x, m)[Len(x) + 1] = m
  OBVIOUS

\* A queue without its first message.
LEMMA TailQueue ==
    ASSUME NEW x \in Seq(Message), x # <<>>
    PROVE  /\ Tail(x) \in Seq(Message)
           /\ Len(x) \in Nat \ {0} /\ DOMAIN x = 1..Len(x)
           /\ Len(Tail(x)) = Len(x) - 1
           /\ DOMAIN Tail(x) = 1..(Len(x) - 1)
           /\ \A i \in 1..(Len(x) - 1) : Tail(x)[i] = x[i + 1]
           /\ Head(x) = x[1]
  OBVIOUS

\* A message that does not close a pane is appended; the panes that it names
\* are open and those held are held before, or it makes a partition of them.
LEMMA AppendKeeps ==
    ASSUME NEW x \in Seq(Message), NEW m \in Message, m.type # "PUNCT",
           NEW D \in SUBSET Pane, NEW next \in Pane,
           NEW held \in SUBSET Pane, NEW h \in SUBSET Pane,
           OnTheWay(D, x, next, held),
           \A p \in Pane : Names(m, p) => p >= next /\ (iop => p = next),
           \A p \in Pane : m.type = "NEW_INST" /\ m.pane_id = p => p \in held,
           \A p \in h : p \in held \/ Makes(m, p)
    PROVE  OnTheWay(D, Append(x, m), next, h)
<1> DEFINE n == Len(x)
<1>1. PICK y : y = Append(x, m)
  OBVIOUS
<1>2. /\ n \in Nat /\ DOMAIN x = 1..n /\ DOMAIN y = 1..(n + 1)
      /\ (\A i \in 1..n : y[i] = x[i]) /\ y[n + 1] = m
  BY <1>1, AppendQueue
<1> HIDE DEF n
<1>3. \A i \in DOMAIN y : (i \in DOMAIN x /\ y[i] = x[i]) \/ (i = n + 1 /\ y[i] = m)
  BY <1>2
<1>4. \A i \in DOMAIN x : i \in DOMAIN y /\ y[i] = x[i] /\ i < n + 1
  BY <1>2
<1>5. Pane \subseteq Nat /\ n + 1 \in DOMAIN y /\ y[n + 1] = m /\ DOMAIN x \subseteq Nat
  BY <1>2 DEF Pane
<1>6. ASSUME iop PROVE InPaneOrder(D, y, next)
  <2>1. InPaneOrder(D, x, next)
    BY <1>6 DEF OnTheWay
  <2>2. \A i \in DOMAIN y : y[i].type # "PUNCT"
    BY <1>3, <2>1 DEF InPaneOrder
  <2>3. \A p \in D : p <= next
    BY <2>1 DEF InPaneOrder
  <2>4. ASSUME NEW i \in DOMAIN y, NEW p \in Pane, Names(y[i], p)
        PROVE  /\ p <= next
               /\ \A r \in D : r <= p
               /\ \A j \in DOMAIN y : \A r \in Pane : i < j /\ Names(y[j], r) => p <= r
    <3>1. CASE i \in DOMAIN x /\ y[i] = x[i]
      <4>1. /\ p <= next /\ (\A r \in D : r <= p)
            /\ \A j \in DOMAIN x : \A r \in Pane : i < j /\ Names(x[j], r) => p <= r
        BY <2>1, <2>4, <3>1 DEF InPaneOrder
      <4>2. ASSUME NEW j \in DOMAIN y, NEW r \in Pane, i < j, Names(y[j], r) PROVE p <= r
        <5>1. CASE j \in DOMAIN x /\ y[j] = x[j]
          BY <4>1, <4>2, <5>1
        <5>2. CASE y[j] = m
          BY <1>6, <4>1, <4>2, <5>2
        <5> QED
          BY <1>3, <5>1, <5>2
      <4> QED
        BY <4>1, <4>2
    <3>2. CASE i = n + 1 /\ y[i] = m
      <4>1. p = next
        BY <1>6, <2>4, <3>2
      <4>2. \A j \in DOMAIN y : ~(i < j)
        BY <1>2, <3>2
      <4> QED
        BY <1>5, <2>3, <4>1, <4>2
    <3> QED
      BY <1>3, <3>1, <3>2
  <2> QED
    BY <2>2, <2>3, <2>4 DEF InPaneOrder
<1>7. ASSUME ~iop PROVE Punctuated(D, y, next)
  <2>1. Punctuated(D, x, next)
    BY <1>7 DEF OnTheWay
  <2>2. \A i \in DOMAIN y : y[i].type = "PUNCT" => y[i].pane_id <= next
    BY <1>3, <2>1 DEF Punctuated
  <2>3. ASSUME NEW i \in DOMAIN y, NEW j \in DOMAIN y, NEW p \in Pane,
               i < j, y[i].type = "PUNCT", Names(y[j], p)
        PROVE  y[i].pane_id <= p
    <3>1. i \in DOMAIN x /\ y[i] = x[i]
      BY <1>3, <2>3
    <3>2. CASE j \in DOMAIN x /\ y[j] = x[j]
      BY <2>1, <2>3, <3>1, <3>2 DEF Punctuated
    <3>3. CASE y[j] = m
      <4>1. p >= next /\ y[i].pane_id <= next
        BY <2>2, <2>3, <3>3
      <4>2. y[i].pane_id \in Nat
        <5>1. y[i] \in Message
          BY <3>1, <1>2
        <5> QED
          BY <2>3, <5>1, <1>5, MessageFields
      <4> QED
        BY <1>5, <4>1, <4>2
    <3> QED
      BY <1>3, <3>2, <3>3
  <2>4. \A p \in D : p < next => \E j \in DOMAIN y : Closes(y[j], p)
    BY <1>4, <2>1 DEF Punctuated
  <2>5. ASSUME NEW i \in DOMAIN y, NEW p \in Pane, Makes(y[i], p), p < next
        PROVE  \E j \in DOMAIN y : i < j /\ Closes(y[j], p)
    <3>1. y[i] # m
      <4> SUFFICES ASSUME y[i] = m PROVE FALSE
        OBVIOUS
      <4>1. p >= next
        BY <2>5 DEF Names, Makes, Naming, Making
      <4> QED
        BY <1>5, <2>5, <4>1
    <3>2. i \in DOMAIN x /\ y[i] = x[i]
      BY <1>3, <3>1
    <3>3. PICK j \in DOMAIN x : i < j /\ Closes(x[j], p)
      BY <2>1, <2>5, <3>2 DEF Punctuated
    <3> QED
      BY <1>4, <3>3
  <2> QED
    BY <2>2, <2>3, <2>4, <2>5 DEF Punctuated
<1>8. Prepared(D, x, held)
  BY DEF OnTheWay
<1>9. Prepared(D, y, h)
  <2>1. ASSUME NEW p \in h PROVE p \in D \/ \E i \in DOMAIN y : Makes(y[i], p)
    BY <1>4, <1>5, <1>8 DEF Prepared
  <2>2. ASSUME NEW j \in DOMAIN y, NEW p \in Pane, y[j].type = "NEW_INST", y[j].pane_id = p
        PROVE  p \in D \/ \E i \in DOMAIN y : i < j /\ Makes(y[i], p)
    <3>1. CASE j \in DOMAIN x /\ y[j] = x[j]
      BY <1>4, <1>8, <2>2, <3>1 DEF Prepared
    <3>2. CASE j = n + 1 /\ y[j] = m
      <4>1. p \in held
        BY <2>2, <3>2
      <4> QED
        BY <1>4, <1>8, <3>2, <4>1 DEF Prepared
    <3> QED
      BY <1>3, <3>1, <3>2
  <2> QED
    BY <2>1, <2>2 DEF Prepared
<1> QED
  BY <1>1, <1>6, <1>7, <1>9 DEF OnTheWay

\* An activated worker gets one of the messages for activated workers.
LEMMA AppendPhase ==
    ASSUME NEW x \in Seq(Message), NEW m \in Message, m.type \in Ordinary,
           NEW st, NEW D, Phase(st, D, x, FALSE, TRUE)
    PROVE  Phase(st, D, Append(x, m), FALSE, TRUE)
<1>1. st = "running" /\ \A i \in 1..Len(x) : x[i].type \in Ordinary
  BY DEF Phase
<1>2. \A i \in 1..Len(Append(x, m)) : Append(x, m)[i].type \in Ordinary
  BY <1>1, AppendQueue
<1> QED
  BY <1>1, <1>2 DEF Phase

\* A punctuation is sent to an activated worker.
LEMMA PunctKeeps ==
    ASSUME ~iop, NEW x \in Seq(Message), NEW D \in SUBSET Pane,
           NEW next \in Pane, NEW new \in Pane, next <= new,
           NEW held \in SUBSET Pane, NEW h \in SUBSET held,
           OnTheWay(D, x, next, held)
    PROVE  OnTheWay(D, Append(x, Punct(new)), new, h)
<1> DEFINE n == Len(x)
           m == Punct(new)
<1>1. PICK y : y = Append(x, m)
  OBVIOUS
<1>2. /\ n \in Nat /\ DOMAIN x = 1..n /\ DOMAIN y = 1..(n + 1)
      /\ (\A i \in 1..n : y[i] = x[i]) /\ y[n + 1] = m
  BY <1>1, AppendQueue, MessagesSent
<1> HIDE DEF n
<1>3. \A i \in DOMAIN y : (i \in DOMAIN x /\ y[i] = x[i]) \/ (i = n + 1 /\ y[i] = m)
  BY <1>2
<1>4. \A i \in DOMAIN x : i \in DOMAIN y /\ y[i] = x[i] /\ i < n + 1 /\ x[i] \in Message
  BY <1>2
<1>5. /\ Pane \subseteq Nat /\ n + 1 \in DOMAIN y /\ y[n + 1] = m
      /\ DOMAIN x \subseteq Nat /\ n \in Nat /\ next \in Nat /\ new \in Nat
  BY <1>2 DEF Pane
<1>6. /\ m.type = "PUNCT" /\ m.pane_id = new
      /\ \A p \in Pane : /\ ~Names(m, p) /\ ~Makes(m, p)
                         /\ p < new => Closes(m, p)
  BY DEF Punct, Names, Makes, Closes, Naming, Making
<1> HIDE DEF m
<1>7. Punctuated(D, x, next) /\ Prepared(D, x, held)
  BY DEF OnTheWay
<1>8. Punctuated(D, y, new)
  <2>1. ASSUME NEW i \in DOMAIN y, y[i].type = "PUNCT" PROVE y[i].pane_id <= new
    <3>1. CASE i \in DOMAIN x /\ y[i] = x[i]
      <4>1. x[i].pane_id <= next /\ x[i].pane_id \in Pane
        BY <2>1, <3>1, <1>4, <1>7, MessageFields DEF Punctuated
      <4>2. PICK k : k = x[i].pane_id
        OBVIOUS
      <4>3. k \in Nat /\ k <= next
        BY <4>1, <4>2, <1>5
      <4>4. k <= new
        BY <4>3, <1>5
      <4> QED
        BY <3>1, <4>2, <4>4
    <3>2. CASE y[i] = m
      BY <3>2, <1>5, <1>6
    <3> QED
      BY <1>3, <3>1, <3>2
  <2>2. ASSUME NEW i \in DOMAIN y, NEW j \in DOMAIN y, NEW p \in Pane,
               i < j, y[i].type = "PUNCT", Names(y[j], p)
        PROVE  y[i].pane_id <= p
    <3>1. j \in DOMAIN x /\ y[j] = x[j]
      BY <1>3, <1>6, <2>2
    <3>2. i \in DOMAIN x /\ y[i] = x[i]
      BY <1>2, <2>2, <3>1
    <3> QED
      BY <1>7, <2>2, <3>1, <3>2 DEF Punctuated
  <2>3. \A p \in D : p < new => \E j \in DOMAIN y : Closes(y[j], p)
    BY <1>5, <1>6
  <2>4. ASSUME NEW i \in DOMAIN y, NEW p \in Pane, Makes(y[i], p), p < new
        PROVE  \E j \in DOMAIN y : i < j /\ Closes(y[j], p)
    <3>1. i \in DOMAIN x
      BY <1>3, <1>6, <2>4
    <3> QED
      BY <1>4, <1>5, <1>6, <2>4, <3>1
  <2> QED
    BY <2>1, <2>2, <2>3, <2>4 DEF Punctuated
<1>9. Prepared(D, y, h)
  <2>1. \A j \in DOMAIN y : y[j].type = "NEW_INST" => j \in DOMAIN x /\ y[j] = x[j]
    BY <1>3, <1>6
  <2> QED
    BY <1>4, <1>7, <2>1 DEF Prepared
<1> QED
  BY <1>1, <1>8, <1>9 DEF OnTheWay, m

\* The panes before new are closed, and a worker that is not activated is not
\* told: it has been told to flush its deque.
LEMMA RemovedKeeps ==
    ASSUME ~iop, NEW x \in Seq(Message), NEW D \in SUBSET Pane,
           NEW next \in Pane, NEW new \in Pane, next <= new, NEW held,
           NEW st, Phase(st, D, x, FALSE, FALSE), OnTheWay(D, x, next, held)
    PROVE  OnTheWay(D, x, new, {})
<1> DEFINE n == Len(x)
<1>1. n \in Nat /\ DOMAIN x = 1..n /\ \A i \in DOMAIN x : x[i] \in Message
  OBVIOUS
<1> HIDE DEF n
<1>2. Punctuated(D, x, next) /\ Prepared(D, x, held)
  BY DEF OnTheWay
<1>3. Prepared(D, x, {})
  BY <1>2 DEF Prepared
<1>4. /\ \A p \in D : \E j \in DOMAIN x : Closes(x[j], p)
      /\ \A i \in DOMAIN x : \A p \in Pane :
            Makes(x[i], p) => \E j \in DOMAIN x : i < j /\ Closes(x[j], p)
  <2>1. CASE n >= 2 /\ x[n - 1].type = "FLUSH" /\ x[n] = GO_OUT
    <3>1. n - 1 \in DOMAIN x /\ \A p : Closes(x[n - 1], p)
      BY <1>1, <2>1 DEF Closes
    <3>2. ASSUME NEW i \in DOMAIN x, NEW p \in Pane, Makes(x[i], p) PROVE i < n - 1
      <4>1. x[i].type \in {"REGULAR", "EMPTYPANE"}
        BY <3>2 DEF Makes, Making
      <4>2. i # n /\ i # n - 1
        BY <2>1, <4>1 DEF GO_OUT
      <4> QED
        BY <1>1, <4>2
    <3> QED
      BY <3>1, <3>2
  <2>2. CASE D = {} /\ x = <<GO_OUT>>
    <3>1. \A i \in DOMAIN x : x[i] = GO_OUT
      BY <2>2
    <3>2. \A p : ~Makes(GO_OUT, p)
      BY DEF Makes, Making, GO_OUT
    <3> QED
      BY <2>2, <3>1, <3>2
  <2>3. CASE D = {} /\ x = <<>>
    BY <2>3
  <2> QED
    BY <2>1, <2>2, <2>3 DEF Phase, n
<1>5. Punctuated(D, x, new)
  <2>1. ASSUME NEW i \in DOMAIN x, x[i].type = "PUNCT" PROVE x[i].pane_id <= new
    <3>1. x[i].pane_id <= next /\ x[i].pane_id \in Pane
      BY <2>1, <1>1, <1>2, MessageFields DEF Punctuated
    <3> QED
      BY <3>1 DEF Pane
  <2> QED
    BY <1>2, <1>4, <2>1 DEF Punctuated
<1> QED
  BY <1>3, <1>5 DEF OnTheWay

\* In order, no worker is told that panes are closed.
LEMMA InOrderKeeps ==
    ASSUME iop, NEW x \in Seq(Message), NEW D \in SUBSET Pane,
           NEW next \in Pane, NEW new \in Pane, next <= new,
           NEW held, NEW h \in SUBSET held, OnTheWay(D, x, next, held)
    PROVE  OnTheWay(D, x, new, h)
<1>1. InPaneOrder(D, x, next) /\ Prepared(D, x, held)
  BY DEF OnTheWay
<1>2. Prepared(D, x, h)
  BY <1>1 DEF Prepared
<1>3. InPaneOrder(D, x, new)
  <2>1. \A p \in Pane : p <= next => p <= new
    BY DEF Pane
  <2>2. /\ \A i \in DOMAIN x : x[i].type # "PUNCT"
        /\ \A p \in D : p <= new
        /\ \A i \in DOMAIN x : \A p \in Pane : Names(x[i], p) => p <= new
    BY <1>1, <2>1 DEF InPaneOrder
  <2> QED
    BY <1>1, <2>2 DEF InPaneOrder
<1> QED
  BY <1>2, <1>3 DEF OnTheWay

\* Fewer panes are held.
LEMMA FewerHeld ==
    ASSUME NEW x, NEW D, NEW next, NEW held, NEW h \in SUBSET held,
           OnTheWay(D, x, next, held)
    PROVE  OnTheWay(D, x, next, h)
  BY DEF OnTheWay, Prepared

\* A worker is removed: it gets FLUSH and GO_OUT.
LEMMA RetireKeeps ==
    ASSUME NEW x \in Seq(Message), NEW D \in SUBSET Pane, NEW next \in Pane,
           NEW held \in SUBSET Pane, OnTheWay(D, x, next, held),
           NEW st, Phase(st, D, x, FALSE, TRUE), NEW pane \in Pane
    PROVE  LET y == Append(Append(x, FLUSH(pane)), GO_OUT)
           IN /\ y \in Seq(Message)
              /\ Phase(st, D, y, FALSE, FALSE)
              /\ OnTheWay(D, y, next, {})
<1> DEFINE f == FLUSH(pane)
           n == Len(x)
<1>1. PICK z : z = Append(x, f)
  OBVIOUS
<1>2. PICK y : y = Append(z, GO_OUT)
  OBVIOUS
<1>3. f \in Message /\ GO_OUT \in Message /\ f.type = "FLUSH" /\ GO_OUT.type = "GO_OUT"
  BY MessagesSent DEF FLUSH, GO_OUT
<1> HIDE DEF f
<1>4. z \in Seq(Message) /\ y \in Seq(Message)
  BY <1>1, <1>2, <1>3, AppendQueue
<1>5. /\ n \in Nat /\ Len(z) = n + 1 /\ Len(y) = n + 2
      /\ (\A i \in 1..n : z[i] = x[i]) /\ z[n + 1] = f
      /\ (\A i \in 1..(n + 1) : y[i] = z[i]) /\ y[n + 2] = GO_OUT
  <2>1. n \in Nat /\ Len(z) = n + 1 /\ (\A i \in 1..n : z[i] = x[i]) /\ z[n + 1] = f
    BY <1>1, <1>3, AppendQueue
  <2>2. Len(y) = Len(z) + 1 /\ (\A i \in 1..Len(z) : y[i] = z[i]) /\ y[Len(z) + 1] = GO_OUT
    BY <1>2, <1>3, <1>4, AppendQueue
  <2> HIDE DEF n
  <2>3. Len(z) + 1 = n + 2
    BY <2>1
  <2> QED
    BY <2>1, <2>2, <2>3
<1>6. st = "running" /\ \A i \in 1..n : x[i].type \in Ordinary
  BY DEF Phase
<1>7. Phase(st, D, y, FALSE, FALSE)
  <2> HIDE DEF n
  <2>1. /\ Len(y) >= 2 /\ Len(y) - 2 = n /\ Len(y) - 1 = n + 1
        /\ y[Len(y) - 1] = f /\ y[Len(y)] = GO_OUT
        /\ \A i \in 1..(Len(y) - 2) : y[i].type \in Ordinary
    BY <1>5, <1>6
  <2> QED
    BY <1>3, <1>6, <2>1 DEF Phase
<1>8. OnTheWay(D, z, next, held)
  <2>1. \A p : ~Names(f, p) /\ f.type # "NEW_INST" /\ f.type # "PUNCT"
    BY <1>3 DEF Names, Naming
  <2> QED
    BY <1>1, <1>3, <2>1, AppendKeeps
<1>9. OnTheWay(D, y, next, {})
  <2>1. \A p : ~Names(GO_OUT, p) /\ GO_OUT.type # "NEW_INST" /\ GO_OUT.type # "PUNCT"
    BY <1>3 DEF Names, Naming
  <2>2. \A p \in {} : p \in held \/ Makes(GO_OUT, p)
    OBVIOUS
  <2> QED
    BY <1>2, <1>3, <1>4, <1>8, <2>1, <2>2, AppendKeeps
<1> QED
  BY <1>1, <1>2, <1>4, <1>7, <1>9 DEF f

\* The stream ends: each worker that is activated or frozen gets END and EOS.
LEMMA EndKeeps ==
    ASSUME NEW x \in Seq(Message), NEW D \in SUBSET Pane, NEW next \in Pane,
           NEW held \in SUBSET Pane, OnTheWay(D, x, next, held),
           NEW st, NEW active \in BOOLEAN, Phase(st, D, x, FALSE, active),
           active \/ st = "frozen"
    PROVE  LET y == x \o <<END, EOS>>
           IN /\ y \in Seq(Message)
              /\ Phase("running", D, y, TRUE, TRUE)
              /\ OnTheWay(D, y, next, {})
<1> DEFINE n == Len(x)
<1>1. PICK z : z = Append(x, END)
  OBVIOUS
<1>2. PICK y : y = Append(z, EOS)
  OBVIOUS
<1>3. END \in Message /\ EOS \in Message /\ END.type = "END" /\ EOS.type = "EOS"
  BY MessagesSent DEF END, EOS
<1>4. z \in Seq(Message) /\ y \in Seq(Message)
  BY <1>1, <1>2, <1>3, AppendQueue
<1>5. /\ n \in Nat /\ Len(z) = n + 1 /\ Len(y) = n + 2
      /\ (\A i \in 1..n : z[i] = x[i]) /\ z[n + 1] = END
      /\ (\A i \in 1..(n + 1) : y[i] = z[i]) /\ y[n + 2] = EOS
  <2>1. n \in Nat /\ Len(z) = n + 1 /\ (\A i \in 1..n : z[i] = x[i]) /\ z[n + 1] = END
    BY <1>1, <1>3, AppendQueue
  <2>2. Len(y) = Len(z) + 1 /\ (\A i \in 1..Len(z) : y[i] = z[i]) /\ y[Len(z) + 1] = EOS
    BY <1>2, <1>3, <1>4, AppendQueue
  <2> HIDE DEF n
  <2>3. Len(z) + 1 = n + 2
    BY <2>1
  <2> QED
    BY <2>1, <2>2, <2>3
<1>6. \A i \in 1..n : x[i].type \in Ordinary
  <2>1. CASE active
    <3>1. st = "running" \/ st = "frozen"
      BY <2>1 DEF Phase
    <3>2. \/ \A i \in 1..n : x[i].type \in Ordinary
          \/ x = <<>>
      BY <2>1 DEF Phase
    <3> QED
      BY <3>2
  <2>2. CASE ~active
    <3>1. x = <<>>
      BY <2>2 DEF Phase
    <3> QED
      BY <3>1
  <2> QED
    BY <2>1, <2>2
<1>7. Phase("running", D, y, TRUE, TRUE)
  <2> HIDE DEF n
  <2>1. /\ Len(y) >= 2 /\ Len(y) - 2 = n /\ Len(y) - 1 = n + 1
        /\ y[Len(y) - 1] = END /\ y[Len(y)] = EOS
        /\ \A i \in 1..(Len(y) - 2) : y[i].type \in Ordinary
    BY <1>5, <1>6
  <2> QED
    BY <1>3, <1>6, <2>1 DEF Phase
<1>8. OnTheWay(D, z, next, held)
  <2>1. \A p : ~Names(END, p) /\ END.type # "NEW_INST" /\ END.type # "PUNCT"
    BY <1>3 DEF Names, Naming
  <2> QED
    BY <1>1, <1>3, <2>1, AppendKeeps
<1>9. OnTheWay(D, y, next, {})
  <2>1. \A p : ~Names(EOS, p) /\ EOS.type # "NEW_INST" /\ EOS.type # "PUNCT"
    BY <1>3 DEF Names, Naming
  <2>2. \A p \in {} : p \in held \/ Makes(EOS, p)
    OBVIOUS
  <2> QED
    BY <1>2, <1>3, <1>4, <1>8, <2>1, <2>2, AppendKeeps
<1>10. y = x \o <<END, EOS>>
  <2>1. /\ <<END, EOS>> \in Seq(Message) /\ Len(<<END, EOS>>) = 2
        /\ <<END, EOS>>[1] = END /\ <<END, EOS>>[2] = EOS
    BY <1>3
  <2>2. PICK s : s = x \o <<END, EOS>>
    OBVIOUS
  <2>3. /\ s \in Seq(Message) /\ Len(s) = n + 2
        /\ \A i \in 1..(n + 2) : s[i] = IF i <= n THEN x[i] ELSE <<END, EOS>>[i - n]
    BY <2>1, <2>2, ConcatProperties
  <2> HIDE DEF n
  <2>4. \A i \in 1..(n + 2) : s[i] = y[i]
    <3> SUFFICES ASSUME NEW i \in 1..(n + 2) PROVE s[i] = y[i]
      OBVIOUS
    <3>1. CASE i <= n
      BY <1>5, <2>3, <3>1
    <3>2. CASE i = n + 1
      BY <1>5, <2>1, <2>3, <3>2
    <3>3. CASE i = n + 2
      BY <1>5, <2>1, <2>3, <3>3
    <3> QED
      BY <1>5, <3>1, <3>2, <3>3
  <2> QED
    BY <1>4, <1>5, <2>2, <2>3, <2>4, SeqEqual
<1> QED
  BY <1>4, <1>7, <1>9, <1>10

\* A worker takes a message; D becomes its deque.
LEMMA TakeKeeps ==
    ASSUME NEW x \in Seq(Message), x # <<>>, NEW D \in SUBSET Pane, NEW next \in Pane,
           NEW held \in SUBSET Pane, OnTheWay(D, x, next, held),
           NEW E \in SUBSET Pane,
           \A p \in E : (p \in D /\ ~Closes(Head(x), p)) \/ Makes(Head(x), p),
           \A p \in Pane : Makes(Head(x), p) => p \in E,
           \A p \in D \ E : /\ p \notin held
                            /\ \A j \in DOMAIN x : ~(x[j].type = "NEW_INST" /\ x[j].pane_id = p)
    PROVE  Tail(x) \in Seq(Message) /\ OnTheWay(E, Tail(x), next, held)
<1> DEFINE n == Len(x)
           m == Head(x)
<1>1. PICK y : y = Tail(x)
  OBVIOUS
<1>2. /\ y \in Seq(Message) /\ n \in Nat \ {0} /\ DOMAIN x = 1..n
      /\ DOMAIN y = 1..(n - 1)
      /\ (\A i \in 1..(n - 1) : y[i] = x[i + 1]) /\ m = x[1]
  BY <1>1, TailQueue
<1> HIDE DEF n, m
<1>3. \A i \in DOMAIN y : i + 1 \in DOMAIN x /\ y[i] = x[i + 1] /\ 1 < i + 1
  BY <1>2
<1>4. \A i \in DOMAIN x : i # 1 => i - 1 \in DOMAIN y /\ y[i - 1] = x[i]
  BY <1>2
<1>5. DOMAIN x \subseteq Nat /\ DOMAIN y \subseteq Nat /\ 1 \in DOMAIN x /\ Pane \subseteq Nat
  BY <1>2 DEF Pane
<1>6. /\ \A p \in E : (p \in D /\ ~Closes(m, p)) \/ Makes(m, p)
      /\ \A p \in Pane : Makes(m, p) => p \in E
  BY DEF m
<1>7. ASSUME iop PROVE InPaneOrder(E, y, next)
  <2>1. InPaneOrder(D, x, next)
    BY <1>7 DEF OnTheWay
  <2>2. \A p : Makes(m, p) => Names(m, p)
    BY DEF Makes, Names, Making, Naming
  <2>3. \A i \in DOMAIN y : y[i].type # "PUNCT"
    BY <1>3, <2>1 DEF InPaneOrder
  <2>4. \A p \in E : p <= next
    BY <1>2, <1>5, <1>6, <2>1, <2>2 DEF InPaneOrder
  <2>5. ASSUME NEW i \in DOMAIN y, NEW p \in Pane, Names(y[i], p)
        PROVE  /\ p <= next
               /\ \A r \in E : r <= p
               /\ \A j \in DOMAIN y : \A r \in Pane : i < j /\ Names(y[j], r) => p <= r
    <3>1. /\ p <= next /\ (\A r \in D : r <= p)
          /\ \A j \in DOMAIN x : \A r \in Pane : i + 1 < j /\ Names(x[j], r) => p <= r
      BY <1>3, <2>1, <2>5 DEF InPaneOrder
    <3>2. \A r \in Pane : Names(m, r) => r <= p
      BY <1>2, <1>3, <1>5, <2>1, <2>5 DEF InPaneOrder
    <3>3. \A j \in DOMAIN y : i < j => i + 1 < j + 1
      BY <1>5
    <3> QED
      BY <1>3, <1>6, <2>2, <3>1, <3>2, <3>3
  <2> QED
    BY <2>3, <2>4, <2>5 DEF InPaneOrder
<1>8. ASSUME ~iop PROVE Punctuated(E, y, next)
  <2>1. Punctuated(D, x, next)
    BY <1>8 DEF OnTheWay
  <2>2. \A i \in DOMAIN y : y[i].type = "PUNCT" => y[i].pane_id <= next
    BY <1>3, <2>1 DEF Punctuated
  <2>3. ASSUME NEW i \in DOMAIN y, NEW j \in DOMAIN y, NEW p \in Pane,
               i < j, y[i].type = "PUNCT", Names(y[j], p)
        PROVE  y[i].pane_id <= p
    <3>1. i + 1 < j + 1
      BY <1>5, <2>3
    <3> QED
      BY <1>3, <2>1, <2>3, <3>1 DEF Punctuated
  <2>4. ASSUME NEW p \in E, p < next PROVE \E j \in DOMAIN y : Closes(y[j], p)
    <3>1. CASE p \in D /\ ~Closes(m, p)
      <4>1. PICK j \in DOMAIN x : Closes(x[j], p)
        BY <2>1, <2>4, <3>1 DEF Punctuated
      <4> QED
        BY <1>2, <1>4, <3>1, <4>1
    <3>2. CASE Makes(m, p)
      <4>1. PICK j \in DOMAIN x : 1 < j /\ Closes(x[j], p)
        BY <1>2, <1>5, <2>1, <2>4, <3>2 DEF Punctuated
      <4> QED
        BY <1>4, <4>1
    <3> QED
      BY <1>6, <3>1, <3>2
  <2>5. ASSUME NEW i \in DOMAIN y, NEW p \in Pane, Makes(y[i], p), p < next
        PROVE  \E j \in DOMAIN y : i < j /\ Closes(y[j], p)
    <3>1. PICK j \in DOMAIN x : i + 1 < j /\ Closes(x[j], p)
      BY <1>3, <2>1, <2>5 DEF Punctuated
    <3>2. j - 1 \in DOMAIN y /\ y[j - 1] = x[j] /\ i < j - 1
      BY <1>4, <1>5, <3>1
    <3> QED
      BY <3>1, <3>2
  <2> QED
    BY <2>2, <2>3, <2>4, <2>5 DEF Punctuated
<1>9. Prepared(E, y, held)
  <2>1. Prepared(D, x, held)
    BY DEF OnTheWay
  <2>2. ASSUME NEW p \in held PROVE p \in E \/ \E i \in DOMAIN y : Makes(y[i], p)
    <3>1. CASE p \in D
      BY <3>1
    <3>2. CASE \E i \in DOMAIN x : Makes(x[i], p)
      BY <1>2, <1>4, <1>6, <3>2
    <3> QED
      BY <2>1, <3>1, <3>2 DEF Prepared
  <2>3. ASSUME NEW j \in DOMAIN y, NEW p \in Pane, y[j].type = "NEW_INST", y[j].pane_id = p
        PROVE  p \in E \/ \E i \in DOMAIN y : i < j /\ Makes(y[i], p)
    <3>1. j + 1 \in DOMAIN x /\ x[j + 1].type = "NEW_INST" /\ x[j + 1].pane_id = p
      BY <1>3, <2>3
    <3>2. CASE p \in D
      BY <3>1, <3>2
    <3>3. CASE \E i \in DOMAIN x : i < j + 1 /\ Makes(x[i], p)
      <4>1. PICK i \in DOMAIN x : i < j + 1 /\ Makes(x[i], p)
        BY <3>3
      <4>2. CASE i = 1
        BY <1>2, <1>6, <4>1, <4>2
      <4>3. CASE i # 1
        <5>1. i - 1 \in DOMAIN y /\ y[i - 1] = x[i] /\ i - 1 < j
          BY <1>4, <1>5, <4>1, <4>3
        <5> QED
          BY <4>1, <5>1
      <4> QED
        BY <4>2, <4>3
    <3> QED
      BY <2>1, <3>1, <3>2, <3>3 DEF Prepared
  <2> QED
    BY <2>2, <2>3 DEF Prepared
<1> QED
  BY <1>1, <1>2, <1>7, <1>8, <1>9 DEF OnTheWay

\* A worker that takes one of the messages for activated workers.
LEMMA TakePhase ==
    ASSUME NEW x \in Seq(Message), x # <<>>, Head(x).type \in Ordinary,
           NEW st, NEW D, NEW E, NEW over, NEW active,
           Phase(st, D, x, over, active)
    PROVE  Phase(st, E, Tail(x), over, active)
<1> DEFINE n == Len(x)
<1>1. PICK y : y = Tail(x)
  OBVIOUS
<1>2. /\ y \in Seq(Message) /\ n \in Nat \ {0} /\ Len(y) = n - 1
      /\ (\A i \in 1..(n - 1) : y[i] = x[i + 1]) /\ Head(x) = x[1]
  BY <1>1, TailQueue
<1> HIDE DEF n
<1>3. \A i \in 1..(n - 1) : i + 1 \in 1..n
  BY <1>2
<1>4. CASE ~over /\ active /\ st = "running" /\ \A i \in 1..n : x[i].type \in Ordinary
  <2>1. \A i \in 1..Len(y) : y[i].type \in Ordinary
    BY <1>2, <1>3, <1>4
  <2> QED
    BY <1>1, <1>4, <2>1 DEF Phase
<1>5. CASE /\ st = "running" /\ n >= 2
           /\ \A i \in 1..(n - 2) : x[i].type \in Ordinary
           /\ IF over THEN x[n - 1].type = "END" /\ x[n] = EOS
              ELSE ~active /\ x[n - 1].type = "FLUSH" /\ x[n] = GO_OUT
  <2>1. n # 2
    <3> SUFFICES ASSUME n = 2 PROVE FALSE
      OBVIOUS
    <3>1. Head(x).type \in {"END", "FLUSH"}
      BY <1>2, <1>5
    <3> QED
      BY <3>1 DEF Ordinary
  <2>2. /\ Len(y) >= 2 /\ y[Len(y)] = x[n] /\ y[Len(y) - 1] = x[n - 1]
        /\ \A i \in 1..(Len(y) - 2) : y[i] = x[i + 1] /\ i + 1 \in 1..(n - 2)
    BY <1>2, <1>5, <2>1
  <2>3. \A i \in 1..(Len(y) - 2) : y[i].type \in Ordinary
    BY <1>5, <2>2
  <2> QED
    BY <1>1, <1>5, <2>2, <2>3 DEF Phase
<1>6. x # <<EOS>> /\ x # <<GO_OUT>>
  <2>1. Head(<<EOS>>) = EOS /\ Head(<<GO_OUT>>) = GO_OUT
    OBVIOUS
  <2> QED
    BY <2>1 DEF Ordinary, EOS, GO_OUT
<1> QED
  BY <1>4, <1>5, <1>6 DEF Phase, n

\* A worker that takes one of the others has no more than one left.
LEMMA TakeLast ==
    ASSUME NEW x \in Seq(Message), x # <<>>, Head(x).type \notin Ordinary,
           NEW st, NEW D, NEW over, NEW active, Phase(st, D, x, over, active)
    PROVE  /\ st = "running" /\ (~over => ~active)
           /\ \/ /\ Tail(x) = IF over THEN <<EOS>> ELSE <<GO_OUT>>
                 /\ Head(x).type = IF over THEN "END" ELSE "FLUSH"
              \/ /\ Tail(x) = <<>> /\ D = {}
                 /\ Head(x) = IF over THEN EOS ELSE GO_OUT
<1> DEFINE n == Len(x)
<1>1. PICK y : y = Tail(x)
  OBVIOUS
<1>2. /\ y \in Seq(Message) /\ n \in Nat \ {0} /\ Len(y) = n - 1
      /\ (\A i \in 1..(n - 1) : y[i] = x[i + 1]) /\ Head(x) = x[1]
  BY <1>1, TailQueue
<1> HIDE DEF n
<1>3. ~ \A i \in 1..n : x[i].type \in Ordinary
  BY <1>2
<1>4. CASE /\ st = "running" /\ n >= 2
           /\ \A i \in 1..(n - 2) : x[i].type \in Ordinary
           /\ IF over THEN x[n - 1].type = "END" /\ x[n] = EOS
              ELSE ~active /\ x[n - 1].type = "FLUSH" /\ x[n] = GO_OUT
  <2>1. n = 2
    <3> SUFFICES ASSUME n # 2 PROVE FALSE
      OBVIOUS
    <3>1. 1 \in 1..(n - 2)
      BY <1>2, <1>4
    <3> QED
      BY <1>2, <1>4, <3>1
  <2>2. Len(y) = 1 /\ y[1] = x[2]
    BY <1>2, <2>1
  <2>3. \A z \in Seq(Message) : Len(z) = 1 => z = <<z[1]>>
    OBVIOUS
  <2>4. y = <<x[2]>>
    BY <1>2, <2>2, <2>3
  <2> QED
    BY <1>1, <1>2, <1>4, <2>1, <2>4
<1>5. CASE st = "running" /\ D = {} /\ IF over THEN x = <<EOS>> ELSE ~active /\ x = <<GO_OUT>>
  <2>1. \A z : Tail(<<z>>) = <<>> /\ Head(<<z>>) = z
    OBVIOUS
  <2> QED
    BY <1>5, <2>1
<1> QED
  BY <1>3, <1>4, <1>5 DEF Phase, n

-----------------------------------------------------------------------------
(* The steps of a worker                                                   *)

\* The parts of the invariant that an activated or removed worker relies on.
LEMMA OfWorker ==
    ASSUME StageInv, NEW w \in Worker, queue[w] # <<>>
    PROVE  /\ queue[w] \in Seq(Message) /\ Head(queue[w]) \in Message
           /\ paneSet[w] \in [DOMAIN paneSet[w] -> ResultsSet]
           /\ DOMAIN paneSet[w] \in SUBSET Pane
           /\ sched.next_pane_id \in Pane
           /\ Phase(status[w], DOMAIN paneSet[w], queue[w], plqTerminated,
                    w \in sched.activated)
           /\ OnTheWay(DOMAIN paneSet[w], queue[w], sched.next_pane_id,
                       IF plqTerminated THEN {} ELSE HeldBy(sched, w))
           /\ (IF plqTerminated THEN {} ELSE HeldBy(sched, w)) \in SUBSET Pane
<1>1. /\ Emitter.s = sched /\ Emitter.q = queue
      /\ EmitterInv(Emitter, plqTerminated) /\ TypeInv
  BY DEF StageInv, Emitter
<1>2. /\ Emitter.s \in Sched /\ Emitter.q \in [Worker -> Seq(Message)]
      /\ QueuesInv(Emitter, plqTerminated)
  BY <1>1 DEF EmitterInv, EmitterType
<1>3. queue[w] \in Seq(Message) /\ Head(queue[w]) \in Message
  <2>1. queue[w] \in Seq(Message)
    BY <1>1, <1>2
  <2> QED
    BY <2>1, HeadTailProperties
<1>4. paneSet[w] \in Deque
  BY <1>1 DEF TypeInv
<1>5. paneSet[w] \in [DOMAIN paneSet[w] -> ResultsSet] /\ DOMAIN paneSet[w] \in SUBSET Pane
  BY <1>4 DEF Deque
<1>6. sched.next_pane_id \in Pane /\ HeldBy(sched, w) \in SUBSET Pane
  BY <1>1, <1>2 DEF Sched, HeldBy
<1>7. /\ Phase(status[w], DOMAIN paneSet[w], queue[w], plqTerminated,
               w \in sched.activated)
      /\ OnTheWay(DOMAIN paneSet[w], queue[w], sched.next_pane_id,
                  IF plqTerminated THEN {} ELSE HeldBy(sched, w))
  BY <1>1, <1>2 DEF QueuesInv
<1> QED
  BY <1>3, <1>5, <1>6, <1>7

\* Worker w takes a message: what the step does to w is enough.
LEMMA WorkerTakes ==
    ASSUME StageInv, NEW w \in Worker, queue[w] # <<>>, Pop(w),
           UNCHANGED <<emitterVars, strategy>>,
           NEW rs \in Deque, paneSet' = [paneSet EXCEPT ![w] = rs],
           NEW st \in {"running", "frozen", "ended"}, status' = [status EXCEPT ![w] = st],
           results' \in [Pane -> [parts : Nat, tuples : Nat, counts : SUBSET Nat]],
           Phase(st, DOMAIN rs, Tail(queue[w]), plqTerminated, w \in sched.activated),
           OnTheWay(DOMAIN rs, Tail(queue[w]), sched.next_pane_id,
                    IF plqTerminated THEN {} ELSE HeldBy(sched, w))
    PROVE  StageInv'
<1>1. /\ sched' = sched /\ iop' = iop /\ kslack' = kslack /\ last_P' = last_P
      /\ last_timestamp' = last_timestamp /\ received' = received
      /\ reconfs' = reconfs /\ plqTerminated' = plqTerminated /\ strategy' = strategy
      /\ queue' = [queue EXCEPT ![w] = Tail(@)]
  BY DEF emitterVars, Pop
<1>2. /\ TypeInv /\ KSlackInv /\ EmitterInv(Emitter, plqTerminated)
      /\ plqTerminated => sched.activated = Worker
  BY DEF StageInv
<1>3. /\ queue \in [Worker -> Seq(Message)] /\ Tail(queue[w]) \in Seq(Message)
      /\ sched \in Sched /\ last_P \in Timestamp /\ last_timestamp \in Timestamp
  <2>1. /\ queue \in [Worker -> Seq(Message)]
        /\ sched \in Sched /\ last_P \in Timestamp /\ last_timestamp \in Timestamp
    BY <1>2 DEF TypeInv, Emitter, EmitterType
  <2> QED
    BY <2>1, HeadTailProperties
<1>4. Emitter' \in EmitterType
  BY <1>1, <1>3 DEF Emitter, EmitterType
<1>5. TypeInv'
  BY <1>1, <1>2, <1>4 DEF TypeInv, Adaptive
<1>6. KSlackInv'
  BY <1>1, <1>2 DEF KSlackInv
<1>7. /\ Emitter'.s = sched /\ Emitter'.q = queue'
      /\ Emitter'.last_P = last_P /\ Emitter'.last_timestamp = last_timestamp
      /\ Emitter.s = sched /\ Emitter.q = queue
      /\ Emitter.last_P = last_P /\ Emitter.last_timestamp = last_timestamp
  BY <1>1 DEF Emitter
<1>8. QueuesInv(Emitter, plqTerminated)'
  <2> SUFFICES ASSUME NEW v \in Worker
               PROVE  /\ (DOMAIN paneSet[v])' \subseteq Pane
                      /\ Phase(status[v], DOMAIN paneSet[v], Emitter.q[v],
                               plqTerminated, v \in Emitter.s.activated)'
                      /\ OnTheWay(DOMAIN paneSet[v], Emitter.q[v],
                                  Emitter.s.next_pane_id,
                                  IF plqTerminated THEN {} ELSE HeldBy(Emitter.s, v))'
    BY DEF QueuesInv
  <2>1. /\ Phase(status'[v], DOMAIN paneSet'[v], queue'[v], plqTerminated,
                 v \in sched.activated)
        /\ OnTheWay(DOMAIN paneSet'[v], queue'[v], sched.next_pane_id,
                    IF plqTerminated THEN {} ELSE HeldBy(sched, v))
    <3>1. CASE v = w
      BY <3>1, <1>1, <1>2, <1>3 DEF TypeInv
    <3>2. CASE v # w
      <4>1. status'[v] = status[v] /\ paneSet'[v] = paneSet[v] /\ queue'[v] = queue[v]
        BY <3>2, <1>1, <1>2, <1>3 DEF TypeInv
      <4> QED
        BY <4>1, <1>2, <1>7 DEF EmitterInv, QueuesInv
    <3> QED
      BY <3>1, <3>2
  <2>2. paneSet'[v] \in Deque
    BY <1>2 DEF TypeInv
  <2>3. DOMAIN paneSet'[v] \subseteq Pane
    BY <2>2 DEF Deque
  <2> QED
    BY <2>1, <2>3, <1>1, <1>7 DEF OnTheWay, HeldBy
<1>9. SchedInv(Emitter)' /\ \A p \in Pane : p >= Emitter'.s.next_pane_id => PaneInv(Emitter.s, p)'
  BY <1>1, <1>2, <1>7 DEF EmitterInv, SchedInv, PaneInv, ActiveInv, Adaptive
<1> QED
  BY <1>1, <1>2, <1>4, <1>5, <1>6, <1>8, <1>9 DEF StageInv, EmitterInv

\* The next stage counts what it receives.
LEMMA DeliverType ==
    ASSUME TypeInv, NEW P \in SUBSET Pane, NEW rs \in [P -> ResultsSet], Deliver(rs)
    PROVE  results' \in [Pane -> [parts : Nat, tuples : Nat, counts : SUBSET Nat]]
<1>1. results \in [Pane -> [parts : Nat, tuples : Nat, counts : SUBSET Nat]]
  BY DEF TypeInv
<1>2. ASSUME NEW p \in P
      PROVE  [parts  |-> results[p].parts + 1,
              tuples |-> results[p].tuples + rs[p].tuples,
              counts |-> results[p].counts \cup ({rs[p].no_instances} \ {0})]
                \in [parts : Nat, tuples : Nat, counts : SUBSET Nat]
  BY <1>1 DEF ResultsSet
<1> QED
  BY <1>1, <1>2 DEF Deliver

\* What is on the way to a worker whose deque is empty and which is to leave.
LEMMA LastOnTheWay ==
    ASSUME NEW x, NEW next, \A i \in DOMAIN x : x[i].type \in {"EOS", "GO_OUT"}
    PROVE  OnTheWay({}, x, next, {})
<1>1. \A i \in DOMAIN x : \A p : /\ x[i].type # "PUNCT" /\ x[i].type # "NEW_INST"
                                /\ ~Names(x[i], p) /\ ~Makes(x[i], p)
  BY DEF Names, Makes, Naming, Making
<1> QED
  BY <1>1 DEF OnTheWay, Punctuated, InPaneOrder, Prepared

\* A worker that has nothing left but the order to leave satisfies OnTheWay.
LEMMA LeavesNothing ==
    ASSUME NEW next, NEW x, x \in {<<EOS>>, <<GO_OUT>>, <<>>}
    PROVE  OnTheWay({}, x, next, {})
<1>1. \A i \in DOMAIN x : x[i].type \in {"EOS", "GO_OUT"}
  BY DEF EOS, GO_OUT
<1> QED
  BY <1>1, LastOnTheWay

\* The empty deque of panes.
LEMMA EmptyDequeIsDeque == EmptyDeque \in Deque /\ DOMAIN EmptyDeque = {}
<1>1. EmptyDeque \in [{} -> ResultsSet] /\ DOMAIN EmptyDeque = {}
  BY DEF EmptyDeque
<1> QED
  BY <1>1 DEF Deque

\* The invariant is kept by a punctuation (plq.hpp:624).
LEMMA StepPunct ==
    ASSUME StageInv, NEW w \in Worker, RcvPunct(w), strategy' = strategy
    PROVE  StageInv'
<1>1. /\ queue[w] # <<>> /\ Head(queue[w]).type = "PUNCT" /\ Pop(w)
      /\ UNCHANGED <<emitterVars, strategy>> /\ status' = status
  BY DEF RcvPunct, Ready
<1>2. PICK a : a = Head(queue[w]).pane_id
  OBVIOUS
<1>3. PICK D : D = DOMAIN paneSet[w]
  OBVIOUS
<1>4. PICK held : held = IF plqTerminated THEN {} ELSE HeldBy(sched, w)
  OBVIOUS
<1>5. PICK x : x = queue[w]
  OBVIOUS
<1>6. /\ x \in Seq(Message) /\ x # <<>> /\ Head(x) \in Message /\ Head(x).type = "PUNCT"
      /\ a = Head(x).pane_id
      /\ paneSet[w] \in [D -> ResultsSet] /\ D \in SUBSET Pane
      /\ sched.next_pane_id \in Pane
      /\ Phase(status[w], D, x, plqTerminated, w \in sched.activated)
      /\ OnTheWay(D, x, sched.next_pane_id, held) /\ held \in SUBSET Pane
  BY <1>1, <1>2, <1>3, <1>4, <1>5, OfWorker
<1>7. a \in Pane /\ Pane \subseteq Nat
  BY <1>6, MessageFields DEF Pane
<1>8. DOMAIN x = 1..Len(x) /\ 1 \in DOMAIN x /\ x[1] = Head(x)
  BY <1>6, TailQueue
<1>9. ~iop /\ a <= sched.next_pane_id
  <2>1. ~iop
    BY <1>6, <1>8 DEF OnTheWay, InPaneOrder
  <2> QED
    BY <2>1, <1>6, <1>8 DEF OnTheWay, Punctuated
<1>10. PICK E : E = {p \in D : p >= a}
  OBVIOUS
<1>11. \A p \in D \ E : /\ p \notin held
                        /\ \A j \in DOMAIN x : ~(x[j].type = "NEW_INST" /\ x[j].pane_id = p)
  <2> SUFFICES ASSUME NEW p \in D \ E
               PROVE  /\ p \notin held
                      /\ \A j \in DOMAIN x : ~(x[j].type = "NEW_INST" /\ x[j].pane_id = p)
    OBVIOUS
  <2>1. p < a /\ p \in Pane
    BY <1>6, <1>7, <1>10
  <2>2. p \notin held
    <3> SUFFICES ASSUME p \in held PROVE FALSE
      OBVIOUS
    <3>1. PICK next : next = sched.next_pane_id
      OBVIOUS
    <3>2. p >= next
      BY <1>4, <3>1 DEF HeldBy
    <3>3. next \in Nat /\ a \in Nat /\ p \in Nat /\ a <= next
      BY <1>6, <1>7, <1>9, <2>1, <3>1
    <3> QED
      BY <2>1, <3>2, <3>3
  <2>3. ASSUME NEW j \in DOMAIN x, x[j].type = "NEW_INST", x[j].pane_id = p PROVE FALSE
    <3>1. Names(x[j], p)
      BY <2>3 DEF Names, Naming
    <3>2. 1 < j
      <4>1. j # 1
        BY <1>6, <1>8, <2>3
      <4> QED
        BY <1>8, <4>1
    <3>3. a <= p
      BY <1>6, <1>8, <1>9, <2>1, <3>1, <3>2 DEF OnTheWay, Punctuated
    <3> QED
      BY <1>7, <2>1, <3>3
  <2> QED
    BY <2>2, <2>3
<1>12. /\ \A p \in E : (p \in D /\ ~Closes(Head(x), p)) \/ Makes(Head(x), p)
       /\ \A p \in Pane : Makes(Head(x), p) => p \in E
       /\ E \in SUBSET Pane
  BY <1>6, <1>7, <1>10 DEF Closes, Makes, Making
<1>13. OnTheWay(E, Tail(x), sched.next_pane_id, held)
  BY <1>6, <1>11, <1>12, TakeKeeps
<1>14. Phase(status[w], E, Tail(x), plqTerminated, w \in sched.activated)
  <2>1. Head(x).type \in Ordinary
    BY <1>6 DEF Ordinary
  <2> QED
    BY <2>1, <1>6, TakePhase
<1>15. PICK rs : rs = Restrict(paneSet[w], E)
  OBVIOUS
<1>16. rs \in [E -> ResultsSet] /\ DOMAIN rs = E /\ E \subseteq D
  BY <1>6, <1>10, <1>15 DEF Restrict
<1>17. rs \in Deque /\ paneSet' = [paneSet EXCEPT ![w] = rs]
  <2>1. paneSet' = [paneSet EXCEPT ![w] = rs]
    BY <1>2, <1>3, <1>10, <1>15 DEF RcvPunct
  <2> QED
    BY <1>12, <1>16, <2>1 DEF Deque
<1>18. results' \in [Pane -> [parts : Nat, tuples : Nat, counts : SUBSET Nat]]
  <2>1. PICK s : s = Restrict(paneSet[w], {p \in D : p < a})
    OBVIOUS
  <2>2. Deliver(s)
    BY <1>2, <1>3, <2>1 DEF RcvPunct, RestrictDomain
  <2>3. {p \in D : p < a} \in SUBSET Pane /\ s \in [{p \in D : p < a} -> ResultsSet]
    BY <1>6, <2>1 DEF Restrict
  <2>4. TypeInv
    BY DEF StageInv
  <2> QED
    BY <2>2, <2>3, <2>4, DeliverType
<1>19. /\ status[w] \in {"running", "frozen", "ended"}
       /\ status' = [status EXCEPT ![w] = status[w]]
  BY <1>1 DEF StageInv, TypeInv
<1> QED
  BY <1>1, <1>4, <1>5, <1>13, <1>14, <1>16, <1>17, <1>18, <1>19, WorkerTakes

\* A worker takes a message and has then no results set, and none on the way.
LEMMA EmptiesDeque ==
    ASSUME StageInv, NEW w \in Worker, queue[w] # <<>>, Pop(w),
           UNCHANGED <<emitterVars, strategy>>,
           paneSet' = [paneSet EXCEPT ![w] = EmptyDeque],
           NEW st \in {"running", "frozen", "ended"}, status' = [status EXCEPT ![w] = st],
           results' \in [Pane -> [parts : Nat, tuples : Nat, counts : SUBSET Nat]],
           plqTerminated \/ w \notin sched.activated,
           \/ Tail(queue[w]) = (IF plqTerminated THEN <<EOS>> ELSE <<GO_OUT>>) /\ st = "running"
           \/ Tail(queue[w]) = <<>> /\ st = IF plqTerminated THEN "ended" ELSE "frozen"
    PROVE  StageInv'
<1>1. (IF plqTerminated THEN {} ELSE HeldBy(sched, w)) = {}
  BY DEF HeldBy
<1>2. OnTheWay({}, Tail(queue[w]), sched.next_pane_id, {})
  BY LeavesNothing
<1>3. Phase(st, {}, Tail(queue[w]), plqTerminated, w \in sched.activated)
  BY DEF Phase
<1> QED
  BY <1>1, <1>2, <1>3, EmptyDequeIsDeque, WorkerTakes

\* The last messages to a worker that is removed, or at the end of the stream.
LEMMA TakesLast ==
    ASSUME StageInv, NEW w \in Worker, queue[w] # <<>>, Head(queue[w]).type \notin Ordinary
    PROVE  /\ status[w] = "running" /\ (~plqTerminated => w \notin sched.activated)
           /\ \/ /\ Tail(queue[w]) = IF plqTerminated THEN <<EOS>> ELSE <<GO_OUT>>
                 /\ Head(queue[w]).type = IF plqTerminated THEN "END" ELSE "FLUSH"
              \/ /\ Tail(queue[w]) = <<>> /\ DOMAIN paneSet[w] = {}
                 /\ Head(queue[w]) = IF plqTerminated THEN EOS ELSE GO_OUT
<1>1. /\ queue[w] \in Seq(Message)
      /\ Phase(status[w], DOMAIN paneSet[w], queue[w], plqTerminated, w \in sched.activated)
  BY OfWorker
<1>2. PICK x : x = queue[w]
  OBVIOUS
<1>3. PICK D : D = DOMAIN paneSet[w]
  OBVIOUS
<1>4. PICK st : st = status[w]
  OBVIOUS
<1>5. PICK over : over = plqTerminated
  OBVIOUS
<1>6. PICK active : active = (w \in sched.activated)
  OBVIOUS
<1>7. /\ x \in Seq(Message) /\ x # <<>> /\ Head(x).type \notin Ordinary
      /\ Phase(st, D, x, over, active)
  BY <1>1, <1>2, <1>3, <1>4, <1>5, <1>6
<1>8. /\ st = "running" /\ (~over => ~active)
      /\ \/ /\ Tail(x) = IF over THEN <<EOS>> ELSE <<GO_OUT>>
            /\ Head(x).type = IF over THEN "END" ELSE "FLUSH"
         \/ /\ Tail(x) = <<>> /\ D = {}
            /\ Head(x) = IF over THEN EOS ELSE GO_OUT
  BY ONLY <1>7, TakeLast
<1> QED
  BY <1>2, <1>3, <1>4, <1>5, <1>6, <1>8

\* The invariant is kept by END, which empties the deque of the worker.
LEMMA StepEnd ==
    ASSUME StageInv, NEW w \in Worker, RcvEnd(w), strategy' = strategy
    PROVE  StageInv'
<1>1. /\ queue[w] # <<>> /\ Head(queue[w]).type = "END" /\ Pop(w)
      /\ UNCHANGED <<emitterVars, strategy>> /\ status' = status
      /\ Deliver(paneSet[w]) /\ paneSet' = [paneSet EXCEPT ![w] = EmptyDeque]
  BY DEF RcvEnd, Ready
<1>2. Head(queue[w]).type \notin Ordinary /\ Head(queue[w]) # GO_OUT /\ Head(queue[w]) # EOS
  BY <1>1 DEF Ordinary, GO_OUT, EOS
<1>3. /\ status[w] = "running" /\ (~plqTerminated => w \notin sched.activated)
      /\ Tail(queue[w]) = IF plqTerminated THEN <<EOS>> ELSE <<GO_OUT>>
  BY <1>1, <1>2, TakesLast
<1>4. results' \in [Pane -> [parts : Nat, tuples : Nat, counts : SUBSET Nat]]
  <2>1. TypeInv
    BY DEF StageInv
  <2>2. PICK s : s = paneSet[w]
    OBVIOUS
  <2>3. DOMAIN s \in SUBSET Pane /\ s \in [DOMAIN s -> ResultsSet] /\ Deliver(s)
    BY <1>1, <2>2, OfWorker
  <2> QED
    BY <2>1, <2>3, DeliverType
<1>5. status' = [status EXCEPT ![w] = "running"]
  BY <1>1, <1>3 DEF StageInv, TypeInv
<1> QED
  BY <1>1, <1>3, <1>4, <1>5, EmptiesDeque

\* The invariant is kept by FLUSH, which comes before GO_OUT.
LEMMA StepFlush ==
    ASSUME StageInv, NEW w \in Worker, RcvFlush(w), strategy' = strategy
    PROVE  StageInv'
<1>1. /\ queue[w] # <<>> /\ Head(queue[w]).type = "FLUSH" /\ Pop(w)
      /\ UNCHANGED <<emitterVars, strategy>> /\ status' = status
      /\ paneSet' = [paneSet EXCEPT ![w] = EmptyDeque]
  BY DEF RcvFlush, Ready
<1>2. Head(queue[w]).type \notin Ordinary /\ Head(queue[w]) # GO_OUT /\ Head(queue[w]) # EOS
  BY <1>1 DEF Ordinary, GO_OUT, EOS
<1>3. /\ status[w] = "running" /\ (~plqTerminated => w \notin sched.activated)
      /\ Tail(queue[w]) = IF plqTerminated THEN <<EOS>> ELSE <<GO_OUT>>
  BY <1>1, <1>2, TakesLast
<1>4. results' \in [Pane -> [parts : Nat, tuples : Nat, counts : SUBSET Nat]]
  <2>1. TypeInv
    BY DEF StageInv
  <2>2. PICK s : s = [p \in DOMAIN paneSet[w] |->
                      IF iop /\ p < Head(queue[w]).pane_id THEN paneSet[w][p]
                      ELSE Unspecified(paneSet[w][p])]
    OBVIOUS
  <2>3. DOMAIN paneSet[w] \in SUBSET Pane /\ paneSet[w] \in [DOMAIN paneSet[w] -> ResultsSet]
    BY <1>1, OfWorker
  <2>4. \A p \in DOMAIN paneSet[w] : Unspecified(paneSet[w][p]) \in ResultsSet
    BY <2>3 DEF Unspecified, ResultsSet
  <2>5. s \in [DOMAIN paneSet[w] -> ResultsSet]
    BY <2>2, <2>3, <2>4
  <2>6. Deliver(s)
    BY <2>2 DEF RcvFlush
  <2> QED
    BY <2>1, <2>3, <2>5, <2>6, DeliverType
<1>5. status' = [status EXCEPT ![w] = "running"]
  BY <1>1, <1>3 DEF StageInv, TypeInv
<1> QED
  BY <1>1, <1>3, <1>4, <1>5, EmptiesDeque

\* The invariant is kept when a worker freezes or ends.
LEMMA StepLeave ==
    ASSUME StageInv, NEW w \in Worker, Leave(w), strategy' = strategy
    PROVE  StageInv'
<1>1. /\ queue[w] # <<>> /\ Head(queue[w]).type \in {"GO_OUT", "EOS"} /\ Pop(w)
      /\ UNCHANGED <<emitterVars, strategy>> /\ paneSet' = paneSet /\ results' = results
      /\ status' = [status EXCEPT ![w] =
                       IF Head(queue[w]) = EOS THEN "ended" ELSE "frozen"]
  BY DEF Leave, Ready
<1>2. Head(queue[w]).type \notin Ordinary \cup {"END", "FLUSH"}
  BY <1>1 DEF Ordinary
<1>3. /\ (~plqTerminated => w \notin sched.activated)
      /\ Tail(queue[w]) = <<>> /\ DOMAIN paneSet[w] = {}
      /\ Head(queue[w]) = IF plqTerminated THEN EOS ELSE GO_OUT
  BY <1>1, <1>2, TakesLast
<1>4. paneSet[w] = EmptyDeque
  BY <1>1, <1>3, OfWorker DEF EmptyDeque
<1>5. paneSet' = [paneSet EXCEPT ![w] = EmptyDeque]
  BY <1>1, <1>4 DEF StageInv, TypeInv
<1>6. results' \in [Pane -> [parts : Nat, tuples : Nat, counts : SUBSET Nat]]
  BY <1>1 DEF StageInv, TypeInv
<1>7. PICK st : st = IF Head(queue[w]) = EOS THEN "ended" ELSE "frozen"
  OBVIOUS
<1>8. EOS # GO_OUT
  BY DEF EOS, GO_OUT
<1>9. /\ st = (IF plqTerminated THEN "ended" ELSE "frozen")
      /\ st \in {"running", "frozen", "ended"}
  BY <1>3, <1>7, <1>8
<1> QED
  BY <1>1, <1>3, <1>5, <1>6, <1>7, <1>9, EmptiesDeque

\* The invariant is kept by LULL, a pane without a tuple.
LEMMA StepLull ==
    ASSUME StageInv, NEW w \in Worker, RcvLull(w), strategy' = strategy
    PROVE  StageInv'
<1>1. PICK x : x = queue[w]
  OBVIOUS
<1>2. PICK D : D = DOMAIN paneSet[w]
  OBVIOUS
<1>3. PICK held : held = IF plqTerminated THEN {} ELSE HeldBy(sched, w)
  OBVIOUS
<1>4. /\ x # <<>> /\ Head(x).type = "LULL" /\ Pop(w)
      /\ UNCHANGED <<emitterVars, strategy>> /\ status' = status /\ paneSet' = paneSet
  BY <1>1 DEF RcvLull, Ready
<1>5. /\ x \in Seq(Message) /\ Head(x) \in Message
      /\ D \in SUBSET Pane /\ sched.next_pane_id \in Pane
      /\ Phase(status[w], D, x, plqTerminated, w \in sched.activated)
      /\ OnTheWay(D, x, sched.next_pane_id, held) /\ held \in SUBSET Pane
  BY <1>1, <1>2, <1>3, <1>4, OfWorker
<1>6. OnTheWay(D, Tail(x), sched.next_pane_id, held)
  <2>1. /\ \A p \in D : p \in D /\ ~Closes(Head(x), p)
        /\ \A p \in Pane : ~Makes(Head(x), p)
    BY <1>4 DEF Closes, Makes, Making
  <2> QED
    BY <1>4, <1>5, <2>1, TakeKeeps
<1>7. Phase(status[w], D, Tail(x), plqTerminated, w \in sched.activated)
  <2>1. Head(x).type \in Ordinary
    BY <1>4 DEF Ordinary
  <2> QED
    BY <1>4, <1>5, <2>1, TakePhase
<1>8. /\ paneSet[w] \in Deque /\ paneSet' = [paneSet EXCEPT ![w] = paneSet[w]]
      /\ status[w] \in {"running", "frozen", "ended"}
      /\ status' = [status EXCEPT ![w] = status[w]]
  BY <1>4 DEF StageInv, TypeInv
<1>9. results' \in [Pane -> [parts : Nat, tuples : Nat, counts : SUBSET Nat]]
  <2>1. PICK m : m = Head(x)
    OBVIOUS
  <2>2. m.pane_id \in Pane /\ m.no_instances \in Nat
    BY <1>4, <1>5, <2>1, MessageFields
  <2>3. PICK s : s = [p \in {m.pane_id} |-> [no_instances |-> m.no_instances, tuples |-> 0]]
    OBVIOUS
  <2>4. {m.pane_id} \in SUBSET Pane /\ s \in [{m.pane_id} -> ResultsSet] /\ Deliver(s)
    BY <1>1, <2>1, <2>2, <2>3 DEF RcvLull, ResultsSet
  <2>5. TypeInv
    BY DEF StageInv
  <2> QED
    BY <2>4, <2>5, DeliverType
<1> QED
  BY <1>1, <1>2, <1>3, <1>4, <1>6, <1>7, <1>8, <1>9, WorkerTakes

\* The guard of this step always holds, see NewInstFound.
LEMMA StepNewInst ==
    ASSUME StageInv, NEW w \in Worker, RcvNewInst(w), strategy' = strategy
    PROVE  StageInv'
<1>1. PICK x : x = queue[w]
  OBVIOUS
<1>2. PICK D : D = DOMAIN paneSet[w]
  OBVIOUS
<1>3. PICK held : held = IF plqTerminated THEN {} ELSE HeldBy(sched, w)
  OBVIOUS
<1>4. /\ x # <<>> /\ Head(x).type = "NEW_INST" /\ Pop(w)
      /\ UNCHANGED <<emitterVars, strategy>> /\ status' = status /\ results' = results
      /\ Head(x).pane_id \in D
      /\ paneSet' = [paneSet EXCEPT ![w][Head(x).pane_id].no_instances = Head(x).no_instances]
  BY <1>1, <1>2 DEF RcvNewInst, Ready
<1>5. /\ x \in Seq(Message) /\ Head(x) \in Message
      /\ paneSet[w] \in [D -> ResultsSet]
      /\ D \in SUBSET Pane /\ sched.next_pane_id \in Pane
      /\ Phase(status[w], D, x, plqTerminated, w \in sched.activated)
      /\ OnTheWay(D, x, sched.next_pane_id, held) /\ held \in SUBSET Pane
  BY <1>1, <1>2, <1>3, <1>4, OfWorker
<1>6. OnTheWay(D, Tail(x), sched.next_pane_id, held)
  <2>1. /\ \A p \in D : p \in D /\ ~Closes(Head(x), p)
        /\ \A p \in Pane : ~Makes(Head(x), p)
    BY <1>4 DEF Closes, Makes, Making
  <2> QED
    BY <1>4, <1>5, <2>1, TakeKeeps
<1>7. Phase(status[w], D, Tail(x), plqTerminated, w \in sched.activated)
  <2>1. Head(x).type \in Ordinary
    BY <1>4 DEF Ordinary
  <2> QED
    BY <1>4, <1>5, <2>1, TakePhase
<1>8. PICK m : m = Head(x)
  OBVIOUS
<1>9. m.pane_id \in D /\ m.no_instances \in Nat
  <2>1. m \in Message /\ m.type \in Naming \cup {"LULL"} /\ m.pane_id \in D
    BY <1>4, <1>5, <1>8 DEF Naming
  <2> QED
    BY <2>1, MessageFields
<1>10. PICK rs : rs = [paneSet[w] EXCEPT ![m.pane_id].no_instances = m.no_instances]
  OBVIOUS
<1>11. rs \in [D -> ResultsSet] /\ DOMAIN rs = D
  BY <1>5, <1>9, <1>10 DEF ResultsSet
<1>12. /\ rs \in Deque /\ paneSet' = [paneSet EXCEPT ![w] = rs]
       /\ status[w] \in {"running", "frozen", "ended"}
       /\ status' = [status EXCEPT ![w] = status[w]]
       /\ results' \in [Pane -> [parts : Nat, tuples : Nat, counts : SUBSET Nat]]
  <2>1. rs \in Deque
    BY <1>5, <1>11 DEF Deque
  <2>2. paneSet' = [paneSet EXCEPT ![w] = rs]
    BY <1>4, <1>8, <1>10
  <2> QED
    BY <1>4, <2>1, <2>2 DEF StageInv, TypeInv
<1>13. Pop(w) /\ UNCHANGED <<emitterVars, strategy>> /\ queue[w] # <<>>
  BY <1>1, <1>4
<1> QED
  BY ONLY <1>1, <1>2, <1>3, <1>13, <1>6, <1>7, <1>11, <1>12, WorkerTakes, StageInv, w \in Worker

\* The results sets that messages make or fill.
LEMMA FilledType ==
    ASSUME NEW m \in Message, m.type \in Making, NEW r \in ResultsSet
    PROVE  /\ m.pane_id \in Pane /\ Created(m) \in ResultsSet /\ Filled(r, m) \in ResultsSet
           /\ Filled(Created(m), m) \in ResultsSet
<1>1. m.pane_id \in Pane /\ m.no_instances \in Nat
  BY MessageFields DEF Making, Naming
<1> QED
  BY <1>1 DEF Created, Filled, ResultsSet

\* The invariant is kept by EMPTYPANE and by a tuple of the out-of-order build.
LEMMA StepTuple ==
    ASSUME StageInv, NEW w \in Worker, RcvTuple(w), strategy' = strategy
    PROVE  StageInv'
<1>1. PICK x : x = queue[w]
  OBVIOUS
<1>2. PICK D : D = DOMAIN paneSet[w]
  OBVIOUS
<1>3. PICK held : held = IF plqTerminated THEN {} ELSE HeldBy(sched, w)
  OBVIOUS
<1>4. /\ x # <<>> /\ Head(x).type \in Making /\ Pop(w)
      /\ UNCHANGED <<emitterVars, strategy>> /\ status' = status /\ results' = results
  BY <1>1 DEF RcvTuple, Ready, Making
<1>5. /\ x \in Seq(Message) /\ Head(x) \in Message
      /\ paneSet[w] \in [D -> ResultsSet]
      /\ D \in SUBSET Pane /\ sched.next_pane_id \in Pane
      /\ Phase(status[w], D, x, plqTerminated, w \in sched.activated)
      /\ OnTheWay(D, x, sched.next_pane_id, held) /\ held \in SUBSET Pane
  BY <1>1, <1>2, <1>3, <1>4, OfWorker
<1>6. PICK m : m = Head(x)
  OBVIOUS
<1>7. PICK E : E = D \cup {m.pane_id}
  OBVIOUS
<1>8. m.pane_id \in Pane /\ E \in SUBSET Pane
  BY <1>4, <1>5, <1>6, <1>7, MessageFields DEF Making, Naming
<1>9. OnTheWay(E, Tail(x), sched.next_pane_id, held)
  <2>1. /\ \A p \in E : (p \in D /\ ~Closes(Head(x), p)) \/ Makes(Head(x), p)
        /\ \A p \in Pane : Makes(Head(x), p) => p \in E
        /\ D \ E = {}
    BY <1>4, <1>6, <1>7 DEF Closes, Makes, Making
  <2> QED
    BY <1>4, <1>5, <1>8, <2>1, TakeKeeps
<1>10. Phase(status[w], E, Tail(x), plqTerminated, w \in sched.activated)
  <2>1. Head(x).type \in Ordinary
    BY <1>4 DEF Ordinary, Making
  <2> QED
    BY <1>4, <1>5, <2>1, TakePhase
<1>11. PICK old : old = IF m.pane_id \in D THEN paneSet[w][m.pane_id] ELSE Created(m)
  OBVIOUS
<1>12. PICK rs : rs = [p \in E |-> IF p = m.pane_id THEN Filled(old, m) ELSE paneSet[w][p]]
  OBVIOUS
<1>13. rs \in [E -> ResultsSet] /\ DOMAIN rs = E
  <2>1. old \in ResultsSet /\ Filled(old, m) \in ResultsSet
    <3>1. m \in Message /\ m.type \in Making /\ [no_instances |-> 0, tuples |-> 0] \in ResultsSet
      BY <1>4, <1>5, <1>6 DEF ResultsSet
    <3>2. Created(m) \in ResultsSet
      BY <3>1, FilledType
    <3>3. old \in ResultsSet
      BY <1>5, <1>11, <3>2
    <3> QED
      BY <3>1, <3>3, FilledType
  <2> QED
    BY <1>5, <1>7, <1>12, <2>1
<1>14. rs \in Deque
  BY <1>8, <1>13 DEF Deque
<1>15. paneSet' = [paneSet EXCEPT ![w] = rs]
  BY <1>1, <1>2, <1>6, <1>7, <1>11, <1>12 DEF RcvTuple
<1>16. /\ status[w] \in {"running", "frozen", "ended"}
       /\ status' = [status EXCEPT ![w] = status[w]]
       /\ results' \in [Pane -> [parts : Nat, tuples : Nat, counts : SUBSET Nat]]
  BY <1>4 DEF StageInv, TypeInv
<1> QED
  BY <1>1, <1>3, <1>4, <1>9, <1>10, <1>13, <1>14, <1>15, <1>16, WorkerTakes

\* The invariant is kept by a tuple of the in-order build, which also sends
\* the older panes.
LEMMA StepInOrder ==
    ASSUME StageInv, NEW w \in Worker, RcvInOrder(w), strategy' = strategy
    PROVE  StageInv'
<1>1. PICK x : x = queue[w]
  OBVIOUS
<1>2. PICK D : D = DOMAIN paneSet[w]
  OBVIOUS
<1>3. PICK held : held = IF plqTerminated THEN {} ELSE HeldBy(sched, w)
  OBVIOUS
<1>4. /\ iop /\ x # <<>> /\ Head(x).type \in Making /\ Pop(w)
      /\ UNCHANGED <<emitterVars, strategy>> /\ status' = status
  BY <1>1 DEF RcvInOrder, Ready, Making
<1>5. /\ x \in Seq(Message) /\ Head(x) \in Message
      /\ paneSet[w] \in [D -> ResultsSet]
      /\ D \in SUBSET Pane /\ sched.next_pane_id \in Pane
      /\ Phase(status[w], D, x, plqTerminated, w \in sched.activated)
      /\ OnTheWay(D, x, sched.next_pane_id, held) /\ held \in SUBSET Pane
  BY <1>1, <1>2, <1>3, <1>4, OfWorker
<1>6. PICK m : m = Head(x)
  OBVIOUS
<1>7. PICK a : a = m.pane_id
  OBVIOUS
<1>8. m \in Message /\ m.type \in Making /\ a \in Pane /\ Pane \subseteq Nat
  BY <1>4, <1>5, <1>6, <1>7, FilledType, MessageFields DEF Making, Naming, Pane
<1>9. DOMAIN x = 1..Len(x) /\ 1 \in DOMAIN x /\ x[1] = m
  BY <1>4, <1>5, <1>6, TailQueue
<1>10. PICK next : next = sched.next_pane_id
  OBVIOUS
<1>11. /\ a <= next /\ (\A p \in D : p <= a)
       /\ \A j \in DOMAIN x : \A p \in Pane : 1 < j /\ Names(x[j], p) => a <= p
  <2>1. Names(x[1], a)
    BY <1>7, <1>8, <1>9 DEF Names, Making, Naming
  <2>2. InPaneOrder(D, x, next)
    BY <1>4, <1>5, <1>10 DEF OnTheWay
  <2> QED
    BY <1>8, <1>9, <2>1, <2>2 DEF InPaneOrder
<1>12. PICK rest : rest = {p \in D : ~(p < a)}
  OBVIOUS
<1>13. rest \subseteq {a} /\ (rest # {} => a \in D /\ Min(rest) = a)
  <2>1. rest \subseteq {a} /\ (rest # {} => rest = {a} /\ a \in D)
    <3>1. ASSUME NEW p \in rest PROVE p = a /\ p \in D
      <4>1. p \in D /\ p \in Nat /\ a \in Nat /\ ~(p < a) /\ p <= a
        BY <1>5, <1>8, <1>11, <1>12
      <4> QED
        BY <4>1
    <3> QED
      BY <3>1
  <2>2. Min({a}) = a
    <3>1. \A b \in {a} : (\A c \in {a} : b <= c) <=> b = a
      BY <1>8
    <3> QED
      BY <3>1 DEF Min
  <2> QED
    BY <2>1, <2>2
<1>14. PICK E : E = IF rest = {} THEN {a} ELSE D
  OBVIOUS
<1>15. /\ E \in SUBSET Pane
       /\ \A p \in E : (p \in D /\ ~Closes(m, p)) \/ Makes(m, p)
       /\ \A p \in Pane : Makes(m, p) => p \in E
  BY <1>5, <1>7, <1>8, <1>13, <1>14 DEF Closes, Makes, Making
<1>16. \A p \in D \ E : /\ p \notin held
                        /\ \A j \in DOMAIN x : ~(x[j].type = "NEW_INST" /\ x[j].pane_id = p)
  <2> SUFFICES ASSUME NEW p \in D \ E
               PROVE  /\ p \notin held
                      /\ \A j \in DOMAIN x : ~(x[j].type = "NEW_INST" /\ x[j].pane_id = p)
    OBVIOUS
  <2>1. p < a /\ p \in Pane
    BY <1>5, <1>8, <1>12, <1>14
  <2>2. p \notin held
    <3> SUFFICES ASSUME p \in held PROVE FALSE
      OBVIOUS
    <3>1. p >= next
      BY <1>3, <1>10 DEF HeldBy
    <3>2. next \in Nat
      BY <1>5, <1>8, <1>10
    <3> QED
      BY <1>8, <1>11, <2>1, <3>1, <3>2
  <2>3. ASSUME NEW j \in DOMAIN x, x[j].type = "NEW_INST", x[j].pane_id = p PROVE FALSE
    <3>1. Names(x[j], p)
      BY <2>3 DEF Names, Naming
    <3>2. j # 1
      BY <1>8, <1>9, <2>3 DEF Making
    <3>3. 1 < j
      BY <1>9, <3>2
    <3> QED
      BY <1>8, <1>11, <2>1, <3>1, <3>3
  <2> QED
    BY <2>2, <2>3
<1>17. OnTheWay(E, Tail(x), sched.next_pane_id, held)
  BY <1>4, <1>5, <1>6, <1>15, <1>16, TakeKeeps
<1>18. Phase(status[w], E, Tail(x), plqTerminated, w \in sched.activated)
  <2>1. Head(x).type \in Ordinary
    BY <1>4 DEF Ordinary, Making
  <2> QED
    BY <1>4, <1>5, <2>1, TakePhase
<1>19. PICK rs : rs = IF rest = {} THEN [p \in {a} |-> Filled(Created(m), m)]
                      ELSE [paneSet[w] EXCEPT ![a] = Filled(@, m)]
  OBVIOUS
<1>20. rs \in [E -> ResultsSet] /\ DOMAIN rs = E
  <2>1. CASE rest = {}
    <3>1. [no_instances |-> 0, tuples |-> 0] \in ResultsSet
      BY DEF ResultsSet
    <3>2. Filled(Created(m), m) \in ResultsSet
      BY <1>8, <3>1, FilledType
    <3> QED
      BY <1>14, <1>19, <2>1, <3>2
  <2>2. CASE rest # {}
    <3>1. a \in D /\ paneSet[w][a] \in ResultsSet
      BY <1>5, <1>13, <2>2
    <3>2. Filled(paneSet[w][a], m) \in ResultsSet
      BY <1>8, <3>1, FilledType
    <3> QED
      BY <1>5, <1>14, <1>19, <2>2, <3>1, <3>2
  <2> QED
    BY <2>1, <2>2
<1>21. rs \in Deque
  BY <1>15, <1>20 DEF Deque
<1>22. paneSet' = [paneSet EXCEPT ![w] = rs]
  <2>1. paneSet' = [paneSet EXCEPT ![w] =
                IF rest = {} THEN [p \in {a} |-> Filled(Created(m), m)]
                ELSE [paneSet[w] EXCEPT ![Min(rest)] = Filled(@, m)]]
    BY <1>1, <1>2, <1>6, <1>7, <1>12 DEF RcvInOrder
  <2>2. CASE rest = {}
    BY <1>19, <2>1, <2>2
  <2>3. CASE rest # {}
    BY <1>13, <1>19, <2>1, <2>3
  <2> QED
    BY <2>2, <2>3
<1>23. results' \in [Pane -> [parts : Nat, tuples : Nat, counts : SUBSET Nat]]
  <2>1. PICK s : s = Restrict(paneSet[w], {p \in D : p < a})
    OBVIOUS
  <2>2. Deliver(s)
    BY <1>1, <1>2, <1>6, <1>7, <2>1 DEF RcvInOrder, RestrictDomain
  <2>3. {p \in D : p < a} \in SUBSET Pane /\ s \in [{p \in D : p < a} -> ResultsSet]
    BY <1>5, <2>1 DEF Restrict
  <2>4. TypeInv
    BY DEF StageInv
  <2> QED
    BY <2>2, <2>3, <2>4, DeliverType
<1>24. /\ status[w] \in {"running", "frozen", "ended"}
       /\ status' = [status EXCEPT ![w] = status[w]]
  BY <1>4 DEF StageInv, TypeInv
<1>25. Pop(w) /\ UNCHANGED <<emitterVars, strategy>> /\ queue[w] # <<>>
  BY <1>1, <1>4
<1> QED
  BY ONLY <1>1, <1>3, <1>17, <1>18, <1>20, <1>21, <1>22, <1>23, <1>24, <1>25,
          WorkerTakes, StageInv, w \in Worker

\* Whatever a worker takes from its queue.
LEMMA WorkerKeeps ==
    ASSUME StageInv, NEW w \in Worker, WorkerStep(w), strategy' = strategy
    PROVE  StageInv'
  BY StepPunct, StepEnd, StepFlush, StepNewInst, StepLull, StepTuple, StepInOrder,
     StepLeave DEF WorkerStep

-----------------------------------------------------------------------------
(* What the emitter sends                                                  *)

\* Every worker of W has got the message m, and nothing else differs in d.
Sent(e, d, W, m) ==
    /\ d \in EmitterType
    /\ \A v \in Worker : d.q[v] = IF v \in W THEN Append(e.q[v], m) ELSE e.q[v]
    /\ d.last_P = e.last_P /\ d.last_timestamp = e.last_timestamp

\* The schedulers differ at most in the counters that no worker depends on.
Alike(s, t) ==
    /\ t.activated = s.activated /\ t.next_pane_id = s.next_pane_id
    /\ t.n_panes = s.n_panes /\ t.pane_size = s.pane_size
    /\ t.holders = s.holders /\ t.a_worker = s.a_worker

\* The identifiers of workers and panes as numbers.
LEMMA WorkersAreNumbers ==
    /\ Worker \subseteq Nat /\ NoWorker \notin Worker
    /\ Pane \subseteq Nat /\ PaneOf(MaxTs) \in Nat
    /\ \A w \in Worker : (w + 1) % NUM_WORKER_THREADS \in Worker
    /\ NUM_WORKER_THREADS \in Nat \ {0}
<1>1. NUM_WORKER_THREADS \in Nat \ {0} /\ PaneLength \in Nat \ {0} /\ MaxTs \in Nat
  BY PLQAssumption
<1>2. Worker \subseteq Nat /\ NoWorker \notin Worker
  BY <1>1 DEF Worker, NoWorker
<1>3. \A w \in Worker : (w + 1) % NUM_WORKER_THREADS \in Worker
  BY <1>1, <1>2 DEF Worker
<1>4. PaneOf(MaxTs) \in Nat /\ Pane \subseteq Nat
  BY <1>1 DEF PaneOf, Pane
<1> QED
  BY <1>1, <1>2, <1>3, <1>4

\* The panes of two timestamps are in the order of the timestamps.
LEMMA PanesInOrder ==
    ASSUME NEW a \in Timestamp, NEW b \in Timestamp
    PROVE  PaneOf(a) \in Pane /\ (a <= b => PaneOf(a) <= PaneOf(b))
<1>1. PaneLength \in Nat \ {0} /\ MaxTs \in Nat /\ a \in 0..MaxTs /\ b \in 0..MaxTs
  BY PLQAssumption DEF Timestamp
<1>2. a \div PaneLength \in Nat /\ a \div PaneLength <= MaxTs \div PaneLength
  BY <1>1
<1>3. a <= b => a \div PaneLength <= b \div PaneLength
  BY <1>1
<1>4. MaxTs \div PaneLength \in Nat
  BY <1>1
<1> QED
  BY <1>2, <1>3, <1>4 DEF PaneOf, Pane

\* What Send does.
LEMMA SendEffect ==
    ASSUME NEW e \in EmitterType, NEW w \in Worker, NEW m \in Message
    PROVE  Sent(e, Send(e, w, m), {w}, m) /\ Send(e, w, m).s = e.s
<1>1. e.q \in [Worker -> Seq(Message)] /\ Append(e.q[w], m) \in Seq(Message)
  BY DEF EmitterType
<1> QED
  BY <1>1 DEF Send, Sent, EmitterType

\* What Multicast does, to any set of workers.
LEMMA MulticastEffect ==
    ASSUME NEW e \in EmitterType, NEW W, NEW m \in Message
    PROVE  Sent(e, Multicast(e, W, m), W, m) /\ Multicast(e, W, m).s = e.s
<1>1. /\ e.q \in [Worker -> Seq(Message)]
      /\ \A v \in Worker : Append(e.q[v], m) \in Seq(Message) /\ e.q[v] \in Seq(Message)
  BY DEF EmitterType
<1>2. PICK q : q = [v \in Worker |-> IF v \in W THEN Append(e.q[v], m) ELSE e.q[v]]
  OBVIOUS
<1>3. q \in [Worker -> Seq(Message)]
  BY <1>1, <1>2
<1>4. PICK d : d = [e EXCEPT !.q = q]
  OBVIOUS
<1>5. /\ d \in EmitterType /\ d.q = q /\ d.s = e.s
      /\ d.last_P = e.last_P /\ d.last_timestamp = e.last_timestamp
  BY <1>3, <1>4 DEF EmitterType
<1>6. \A v \in Worker : d.q[v] = IF v \in W THEN Append(e.q[v], m) ELSE e.q[v]
  BY <1>2, <1>5
<1>7. Sent(e, d, W, m)
  BY <1>5, <1>6 DEF Sent
<1>8. Multicast(e, W, m) = d
  BY <1>2, <1>4 DEF Multicast
<1> QED
  BY <1>5, <1>7, <1>8

\* The round-robin finds an activated worker.
LEMMA RoundRobin ==
    ASSUME NEW s \in Sched, s.activated # {}
    PROVE  get_rr_w(s) \in s.activated
<1> DEFINE S == {Distance(s, w) : w \in s.activated}
<1>1. \A w \in s.activated : Distance(s, w) \in Nat
  <2> SUFFICES ASSUME NEW w \in s.activated PROVE Distance(s, w) \in Nat
    OBVIOUS
  <2>1. w \in Nat /\ s.last_w \in Nat /\ NUM_WORKER_THREADS \in Nat \ {0}
    BY WorkersAreNumbers DEF Sched
  <2>2. w - s.last_w \in Int
    BY <2>1
  <2> QED
    BY <2>1, <2>2 DEF Distance
<1>2. S \in SUBSET Nat /\ S # {}
  BY <1>1
<1>3. PICK t : t \in S /\ \A y \in S : t <= y
  <2> HIDE DEF S
  <2> QED
    BY <1>2, LeastElement
<1>4. PICK w \in s.activated : t = Distance(s, w)
  BY <1>3
<1>5. \A v \in s.activated : Distance(s, w) <= Distance(s, v)
  BY <1>3, <1>4
<1> QED
  BY <1>5 DEF get_rr_w

\* Round robin sends to one activated worker and changes only its turn.
LEMMA SendRREffect ==
    ASSUME NEW e \in EmitterType, e.s.activated # {}, NEW m \in Message
    PROVE  /\ get_rr_w(e.s) \in e.s.activated /\ get_rr_w(e.s) \in Worker
           /\ Sent(e, SendRR(e, m), {get_rr_w(e.s)}, m)
           /\ Alike(e.s, SendRR(e, m).s)
           /\ SendRR(e, m).s.p_instances = e.s.p_instances
<1>1. e.s \in Sched
  BY DEF EmitterType
<1>2. PICK w : w = get_rr_w(e.s)
  OBVIOUS
<1>3. w \in e.s.activated /\ w \in Worker
  BY <1>1, <1>2, RoundRobin DEF Sched
<1>4. PICK d : d = Send(e, w, m)
  OBVIOUS
<1>5. Sent(e, d, {w}, m) /\ d.s = e.s /\ d \in EmitterType
  BY <1>3, <1>4, SendEffect DEF Sent
<1>6. PICK l : l = (w + 1) % NUM_WORKER_THREADS
  OBVIOUS
<1>7. l \in Worker
  BY <1>3, <1>6, WorkersAreNumbers
<1>8. SendRR(e, m) = [d EXCEPT !.s.last_w = l]
  BY <1>2, <1>4, <1>6 DEF SendRR
<1>9. PICK f : f = [d EXCEPT !.s.last_w = l]
  OBVIOUS
<1>10. /\ f \in EmitterType /\ f.q = d.q /\ f.last_P = d.last_P
       /\ f.last_timestamp = d.last_timestamp
       /\ Alike(d.s, f.s) /\ f.s.p_instances = d.s.p_instances
  BY <1>5, <1>7, <1>9 DEF EmitterType, Sched, Alike
<1>11. Sent(e, f, {w}, m)
  BY <1>5, <1>10 DEF Sent
<1> QED
  BY <1>2, <1>3, <1>5, <1>8, <1>9, <1>10, <1>11

\* Activated workers get a message that closes no pane; those that it tells of
\* another partition of a pane have one, and those that hold a pane in d held it
\* in e or are told to make a partition of it.
LEMMA SentKeeps ==
    ASSUME NEW e \in EmitterType, QueuesInv(e, FALSE),
           NEW d, NEW W \in SUBSET e.s.activated, NEW m \in Message,
           m.type \in Ordinary \ {"PUNCT"}, Sent(e, d, W, m),
           d.s.activated = e.s.activated, d.s.next_pane_id = e.s.next_pane_id,
           \A p \in Pane : Names(m, p) => p >= e.s.next_pane_id /\ (iop => p = e.s.next_pane_id),
           \A p \in Pane, w \in W : m.type = "NEW_INST" /\ m.pane_id = p => w \in e.s.holders[p],
           \A p \in Pane, w \in Worker : w \in d.s.holders[p] =>
               w \in e.s.holders[p] \/ (w \in W /\ Makes(m, p))
    PROVE  QueuesInv(d, FALSE)
<1> SUFFICES ASSUME NEW w \in Worker
             PROVE  /\ DOMAIN paneSet[w] \subseteq Pane
                    /\ Phase(status[w], DOMAIN paneSet[w], d.q[w], FALSE, w \in d.s.activated)
                    /\ OnTheWay(DOMAIN paneSet[w], d.q[w], d.s.next_pane_id, HeldBy(d.s, w))
  BY DEF QueuesInv
<1>1. PICK x : x = e.q[w]
  OBVIOUS
<1>2. PICK D : D = DOMAIN paneSet[w]
  OBVIOUS
<1>3. PICK next : next = e.s.next_pane_id
  OBVIOUS
<1>4. PICK held : held = HeldBy(e.s, w)
  OBVIOUS
<1>5. PICK h : h = HeldBy(d.s, w)
  OBVIOUS
<1>6. /\ x \in Seq(Message) /\ next \in Pane
      /\ held \in SUBSET Pane /\ h \in SUBSET Pane
  BY <1>1, <1>3, <1>4, <1>5 DEF EmitterType, Sched, HeldBy
<1>7. /\ D \subseteq Pane
      /\ Phase(status[w], D, x, FALSE, w \in e.s.activated)
      /\ OnTheWay(D, x, next, held)
  BY <1>1, <1>2, <1>3, <1>4 DEF QueuesInv
<1>8. CASE w \in W
  <2>1. d.q[w] = Append(x, m)
    BY <1>1, <1>8 DEF Sent
  <2>2. Phase(status[w], D, Append(x, m), FALSE, TRUE)
    <3>1. Phase(status[w], D, x, FALSE, TRUE)
      BY <1>7, <1>8
    <3>2. PICK st : st = status[w]
      OBVIOUS
    <3> QED
      BY <1>6, <3>1, <3>2, AppendPhase
  <2>3. /\ \A p \in Pane : Names(m, p) => p >= next /\ (iop => p = next)
        /\ \A p \in h : p \in held \/ Makes(m, p)
        /\ \A p \in Pane : m.type = "NEW_INST" /\ m.pane_id = p => p \in held
    <3>1. \A p \in Pane : Names(m, p) => p >= next /\ (iop => p = next)
      BY <1>3
    <3>2. \A p \in h : p \in held \/ Makes(m, p)
      BY <1>4, <1>5 DEF HeldBy
    <3>3. ASSUME NEW p \in Pane, m.type = "NEW_INST", m.pane_id = p PROVE p \in held
      <4>1. Names(m, p)
        BY <3>3 DEF Names, Naming
      <4>2. p >= next /\ w \in e.s.holders[p] /\ w \in e.s.activated
        BY <1>8, <3>1, <3>3, <4>1
      <4> QED
        BY <1>3, <1>4, <4>2 DEF HeldBy
    <3> QED
      BY <3>1, <3>2, <3>3
  <2>4. D \in SUBSET Pane
    BY <1>7
  <2>5. OnTheWay(D, Append(x, m), next, h)
    BY <1>6, <1>7, <2>3, <2>4, AppendKeeps
  <2> QED
    BY <1>2, <1>3, <1>5, <1>7, <1>8, <2>1, <2>2, <2>5
<1>9. CASE w \notin W
  <2>1. d.q[w] = x
    BY <1>1, <1>9 DEF Sent
  <2>2. h \in SUBSET held
    BY <1>4, <1>5, <1>9 DEF HeldBy
  <2>3. OnTheWay(D, x, next, h)
    BY <1>7, <2>2, FewerHeld
  <2> QED
    BY <1>2, <1>3, <1>5, <1>7, <2>1, <2>3
<1> QED
  BY <1>8, <1>9

\* The emitter d has the same open panes as e, and may have sent messages.
Preserves(e, d) ==
    /\ d \in EmitterType /\ Alike(e.s, d.s)
    /\ d.last_P = e.last_P /\ d.last_timestamp = e.last_timestamp
    /\ QueuesInv(e, FALSE) => QueuesInv(d, FALSE)

\* A lull of one pane, sent to some activated worker, disturbs nothing.
LEMMA LullPreserves ==
    ASSUME NEW e \in EmitterType, e.s.activated # {}, NEW p \in Pane
    PROVE  Preserves(e, LullIfEmpty(e, p))
<1>1. CASE e.s.pane_size[p] = 0
  <2>1. PICK m : m = Lull(p)
    OBVIOUS
  <2>2. m \in Message /\ m.type = "LULL" /\ \A q : ~Names(m, q) /\ ~Makes(m, q)
    BY <2>1, MessagesSent DEF Lull, Names, Makes, Naming, Making
  <2>3. PICK d : d = SendRR(e, m)
    OBVIOUS
  <2>4. PICK w \in e.s.activated : /\ Sent(e, d, {w}, m) /\ Alike(e.s, d.s)
                                   /\ d.s.p_instances = e.s.p_instances
    BY <2>2, <2>3, SendRREffect
  <2>5. d \in EmitterType
    BY <2>4 DEF Sent
  <2>6. PICK f : f = [d EXCEPT !.s.p_instances[p] = 1]
    OBVIOUS
  <2>7. /\ f \in EmitterType /\ f.q = d.q /\ f.last_P = d.last_P
        /\ f.last_timestamp = d.last_timestamp /\ Alike(d.s, f.s)
    BY <2>5, <2>6 DEF EmitterType, Sched, Alike
  <2>8. Sent(e, f, {w}, m) /\ Alike(e.s, f.s)
    BY <2>4, <2>7 DEF Sent, Alike
  <2>9. ASSUME QueuesInv(e, FALSE) PROVE QueuesInv(f, FALSE)
    <3>1. /\ m.type \in Ordinary \ {"PUNCT"} /\ m.type # "NEW_INST"
          /\ {w} \in SUBSET e.s.activated
      BY <2>2, <2>4 DEF Ordinary
    <3>2. /\ f.s.activated = e.s.activated /\ f.s.next_pane_id = e.s.next_pane_id
          /\ f.s.holders = e.s.holders
      BY <2>8 DEF Alike
    <3> QED
      BY <2>2, <2>8, <2>9, <3>1, <3>2, SentKeeps
  <2>10. LullIfEmpty(e, p) = f
    BY <1>1, <2>1, <2>3, <2>6 DEF LullIfEmpty
  <2> QED
    BY <2>8, <2>9, <2>10 DEF Preserves, Sent
<1>2. CASE e.s.pane_size[p] # 0
  BY <1>2 DEF LullIfEmpty, Preserves, Alike
<1> QED
  BY <1>1, <1>2

\* Neither do the lulls of several panes, by induction over the panes.
LEMMA LulledPreserves ==
    ASSUME NEW e \in EmitterType, e.s.activated # {},
           NEW from \in Nat, NEW to \in Int, from <= to + 1, from..to \subseteq Pane
    PROVE  Preserves(e, Lulled(e, from, to))
<1> DEFINE n == to - from + 1
           x == PanesFrom(from, to)
           Y == {d \in EmitterType : Preserves(e, d)}
           F == [u \in Y \X (1..n) |-> LullIfEmpty(u[1], x[u[2]])]
<1>1. n \in Nat /\ \A i \in 1..n : x[i] \in Pane
  <2>1. n \in Nat
    OBVIOUS
  <2>2. ASSUME NEW i \in 1..n PROVE x[i] \in Pane
    <3>1. x[i] = from + i - 1 /\ from + i - 1 \in from..to
      BY <2>1 DEF PanesFrom
    <3> QED
      BY <3>1
  <2> QED
    BY <2>1, <2>2
<1>2. DOMAIN x = 1..n
  BY DEF PanesFrom
<1>3. e \in Y
  BY DEF Preserves, Alike
<1>4. ASSUME NEW d \in Y, NEW i \in 1..n PROVE LullIfEmpty(d, x[i]) \in Y
  <2>1. d \in EmitterType /\ Preserves(e, d)
    OBVIOUS
  <2>2. d.s.activated # {} /\ x[i] \in Pane
    BY <1>1, <2>1 DEF Preserves, Alike
  <2>3. Preserves(d, LullIfEmpty(d, x[i]))
    BY <2>1, <2>2, LullPreserves
  <2>4. PICK f : f = LullIfEmpty(d, x[i])
    OBVIOUS
  <2>5. Preserves(e, f) /\ f \in EmitterType
    BY <2>1, <2>3, <2>4 DEF Preserves, Alike
  <2> QED
    BY <2>4, <2>5
<1> HIDE DEF Y, n, x
<1>5. F \in [Y \X (1..n) -> Y]
  BY <1>4
<1> HIDE DEF F
<1>6. PICK h \in [SUBSET (1..n) -> Y] : FoldValues(h, F, e, n)
  BY <1>1, <1>3, <1>5, FoldExists
<1>7. h = [t \in SUBSET (1..n) |->
             IF t = {} THEN e ELSE LullIfEmpty(h[t \ {Max(t)}], x[Max(t)])]
  <2>1. ASSUME NEW t \in SUBSET (1..n), t # {}
        PROVE  F[<<h[t \ {Max(t)}], Max(t)>>] = LullIfEmpty(h[t \ {Max(t)}], x[Max(t)])
    <3>1. t \in SUBSET (0..n)
      OBVIOUS
    <3>2. Max(t) \in 1..n
      BY <1>1, <2>1, <3>1, GreatestElement
    <3>3. PICK a : a = Max(t)
      OBVIOUS
    <3>4. PICK d : d = h[t \ {a}]
      OBVIOUS
    <3>5. d \in Y /\ a \in 1..n
      BY <3>2, <3>3, <3>4
    <3>6. F[<<d, a>>] = LullIfEmpty(d, x[a])
      BY <3>5 DEF F
    <3> QED
      BY <3>3, <3>4, <3>6
  <2> QED
    BY <1>6, <2>1 DEF FoldValues
<1>8. PICK g : g = CHOOSE f : f = [t \in SUBSET (1..n) |->
                  IF t = {} THEN e ELSE LullIfEmpty(f[t \ {Max(t)}], x[Max(t)])]
  OBVIOUS
<1>9. g = [t \in SUBSET (1..n) |->
             IF t = {} THEN e ELSE LullIfEmpty(g[t \ {Max(t)}], x[Max(t)])]
  BY <1>7, <1>8
<1>10. Lulled(e, from, to) = g[1..n]
  BY <1>2, <1>8 DEF Lulled, FoldLeft, MapThenFoldSet, x
<1>11. g[1..n] \in Y
  <2> DEFINE Z == [k \in 0..n |-> Y]
  <2>1. g[{}] \in Z[0]
    BY <1>1, <1>3, <1>9
  <2>2. ASSUME NEW k \in 1..n, g[1..(k - 1)] \in Z[k - 1] PROVE g[1..k] \in Z[k]
    <3>1. g[1..(k - 1)] \in Y
      BY <1>1, <2>2
    <3>2. /\ 1..k \in SUBSET (1..n) /\ 1..k # {}
          /\ Max(1..k) = k /\ (1..k) \ {k} = 1..(k - 1)
      BY <1>1, Segments
    <3>3. g[1..k] = LullIfEmpty(g[1..(k - 1)], x[k])
      BY <1>9, <3>2
    <3>4. LullIfEmpty(g[1..(k - 1)], x[k]) \in Y
      BY <1>4, <3>1
    <3> QED
      BY <1>1, <3>3, <3>4
  <2> HIDE DEF Z
  <2>3. g[1..n] \in Z[n]
    BY <1>1, <2>1, <2>2, SegmentsInduction
  <2> QED
    BY <1>1, <2>3 DEF Z
<1> QED
  BY <1>10, <1>11 DEF Y

\* The panes before p are closed; out of order, the activated workers are told.
LEMMA ClosedKeeps ==
    ASSUME NEW e \in EmitterType, QueuesInv(e, FALSE),
           NEW p \in Pane, e.s.next_pane_id <= p, NEW d,
           d.s.next_pane_id = p, d.s.activated = e.s.activated, d.s.holders = e.s.holders,
           \A w \in Worker : d.q[w] = IF ~iop /\ w \in e.s.activated
                                     THEN Append(e.q[w], Punct(p)) ELSE e.q[w]
    PROVE  QueuesInv(d, FALSE)
<1> SUFFICES ASSUME NEW w \in Worker
             PROVE  /\ DOMAIN paneSet[w] \subseteq Pane
                    /\ Phase(status[w], DOMAIN paneSet[w], d.q[w], FALSE, w \in d.s.activated)
                    /\ OnTheWay(DOMAIN paneSet[w], d.q[w], d.s.next_pane_id, HeldBy(d.s, w))
  BY DEF QueuesInv
<1>1. PICK x : x = e.q[w]
  OBVIOUS
<1>2. PICK D : D = DOMAIN paneSet[w]
  OBVIOUS
<1>3. PICK next : next = e.s.next_pane_id
  OBVIOUS
<1>4. PICK held : held = HeldBy(e.s, w)
  OBVIOUS
<1>5. PICK h : h = HeldBy(d.s, w)
  OBVIOUS
<1>6. /\ x \in Seq(Message) /\ next \in Pane /\ next <= p
      /\ held \in SUBSET Pane /\ Pane \subseteq Nat
  BY <1>1, <1>3, <1>4, WorkersAreNumbers DEF EmitterType, Sched, HeldBy
<1>7. h \in SUBSET held
  BY <1>3, <1>4, <1>5, <1>6 DEF HeldBy
<1>8. PICK st : st = status[w]
  OBVIOUS
<1>9. /\ D \in SUBSET Pane
      /\ Phase(st, D, x, FALSE, w \in e.s.activated)
      /\ OnTheWay(D, x, next, held)
  BY <1>1, <1>2, <1>3, <1>4, <1>8 DEF QueuesInv
<1>10. CASE iop
  <2>1. OnTheWay(D, x, p, h)
    BY <1>6, <1>7, <1>9, <1>10, InOrderKeeps
  <2> QED
    BY <1>1, <1>2, <1>5, <1>8, <1>9, <1>10, <2>1
<1>11. CASE ~iop /\ w \in e.s.activated
  <2>1. PICK m : m = Punct(p)
    OBVIOUS
  <2>2. m \in Message /\ m.type \in Ordinary
    BY <2>1, MessagesSent DEF Punct, Ordinary
  <2>3. Phase(st, D, x, FALSE, TRUE)
    BY <1>9, <1>11
  <2>4. Phase(st, D, Append(x, m), FALSE, TRUE)
    BY <1>6, <2>2, <2>3, AppendPhase
  <2>5. OnTheWay(D, Append(x, Punct(p)), p, h)
    BY <1>6, <1>7, <1>9, <1>11, PunctKeeps
  <2> QED
    BY <1>1, <1>2, <1>5, <1>8, <1>9, <1>11, <2>1, <2>4, <2>5
<1>12. CASE ~iop /\ w \notin e.s.activated
  <2>1. Phase(st, D, x, FALSE, FALSE) /\ ~iop
    BY <1>9, <1>12 DEF Phase
  <2>2. OnTheWay(D, x, next, held)
    BY <1>9
  <2>3. OnTheWay(D, x, p, {})
    BY ONLY <1>6, <1>9, <2>1, <2>2, p \in Pane, RemovedKeeps
  <2>4. h = {}
    BY <1>5, <1>12 DEF HeldBy
  <2> QED
    BY <1>1, <1>2, <1>5, <1>8, <1>9, <1>12, <2>3, <2>4
<1> QED
  BY <1>10, <1>11, <1>12

\* What executeStreamProgress makes of the emitter e when pane p is ahead.
Closing(e, d, p) ==
    /\ d \in EmitterType
    /\ d.last_P = e.last_P /\ d.last_timestamp = e.last_timestamp
    /\ d.s.activated = e.s.activated /\ d.s.next_pane_id = p
    /\ d.s.n_panes = Larger(e.s.n_panes, p + 1)
    /\ d.s.holders = e.s.holders /\ d.s.pane_size = e.s.pane_size
    /\ d.s.a_worker = e.s.a_worker
    /\ QueuesInv(e, FALSE) => QueuesInv(d, FALSE)

\* executeStreamProgress closes the panes up to p and tells it to every
\* activated worker.
LEMMA ProgressCloses ==
    ASSUME NEW e \in EmitterType, e.s.activated # {},
           NEW p \in Pane, ~(p < e.s.next_pane_id)
    PROVE  Closing(e, executeStreamProgress(e, p), p)
<1>1. PICK k : k = Larger(e.s.n_panes, p + 1)
  OBVIOUS
<1>2. PICK r : r = [e EXCEPT !.s.n_panes = k]
  OBVIOUS
<1>3. p \in Nat /\ e.s.next_pane_id \in Nat /\ e.s.next_pane_id <= p
      /\ p <= PaneOf(MaxTs) /\ PaneOf(MaxTs) \in Nat
      /\ e.s.n_panes \in 0..(PaneOf(MaxTs) + 1)
  BY WorkersAreNumbers DEF EmitterType, Sched, Pane
<1>4. k \in 0..(PaneOf(MaxTs) + 1)
  BY <1>1, <1>3 DEF Larger
<1>5. /\ r \in EmitterType /\ r.q = e.q
      /\ r.last_P = e.last_P /\ r.last_timestamp = e.last_timestamp
      /\ r.s.activated = e.s.activated /\ r.s.next_pane_id = e.s.next_pane_id
      /\ r.s.n_panes = k
      /\ r.s.holders = e.s.holders /\ r.s.pane_size = e.s.pane_size
      /\ r.s.a_worker = e.s.a_worker
  BY <1>2, <1>4 DEF EmitterType, Sched
<1>6. QueuesInv(e, FALSE) => QueuesInv(r, FALSE)
  BY <1>5 DEF QueuesInv, HeldBy
<1>7. PICK l : l = Lulled(r, e.s.next_pane_id, p - 1)
  OBVIOUS
<1>8. Preserves(r, l)
  <2>1. PICK from : from = e.s.next_pane_id
    OBVIOUS
  <2>2. PICK to : to = p - 1
    OBVIOUS
  <2>3. from \in Nat /\ to \in Int /\ from <= to + 1 /\ from..to \subseteq Pane
    BY <1>3, <2>1, <2>2 DEF Pane
  <2>4. r.s.activated # {}
    BY <1>5
  <2> QED
    BY <1>5, <1>7, <2>1, <2>2, <2>3, <2>4, LulledPreserves
<1>9. PICK c : c = [l EXCEPT !.s.next_pane_id = p]
  OBVIOUS
<1>10. /\ l \in EmitterType /\ c \in EmitterType /\ c.q = l.q
       /\ c.last_P = l.last_P /\ c.last_timestamp = l.last_timestamp
       /\ c.s.activated = l.s.activated /\ c.s.next_pane_id = p
       /\ c.s.n_panes = l.s.n_panes
       /\ c.s.holders = l.s.holders /\ c.s.pane_size = l.s.pane_size
       /\ c.s.a_worker = l.s.a_worker
  <2>1. l \in EmitterType
    BY <1>8 DEF Preserves
  <2> QED
    BY <1>9, <2>1 DEF EmitterType, Sched
<1>11. PICK m : m = Punct(p)
  OBVIOUS
<1>12. PICK d : d = IF iop THEN c ELSE Multicast(c, c.s.activated, m)
  OBVIOUS
<1>13. d = executeStreamProgress(e, p)
  <2>1. r = [e EXCEPT !.s.n_panes = Larger(@, p + 1)]
    BY <1>1, <1>2
  <2>2. executeStreamProgress(e, p) =
            LET lulled == Lulled(r, e.s.next_pane_id, p - 1)
                closed == [lulled EXCEPT !.s.next_pane_id = p]
            IN IF iop THEN closed ELSE Multicast(closed, e.s.activated, Punct(p))
    BY <2>1 DEF executeStreamProgress
  <2>3. c.s.activated = e.s.activated
    BY <1>5, <1>8, <1>10 DEF Preserves, Alike
  <2> QED
    BY <1>7, <1>9, <1>11, <1>12, <2>2, <2>3
<1>14. /\ d \in EmitterType /\ d.s = c.s
       /\ d.last_P = c.last_P /\ d.last_timestamp = c.last_timestamp
       /\ \A w \in Worker : d.q[w] = IF ~iop /\ w \in c.s.activated
                                     THEN Append(c.q[w], m) ELSE c.q[w]
  <2>1. CASE iop
    BY <1>10, <1>12, <2>1
  <2>2. CASE ~iop
    <3>1. d = Multicast(c, c.s.activated, m) /\ m \in Message
      BY <1>11, <1>12, <2>2, MessagesSent
    <3>2. Sent(c, d, c.s.activated, m) /\ d.s = c.s
      BY <1>10, <3>1, MulticastEffect
    <3> QED
      BY <2>2, <3>2 DEF Sent
  <2> QED
    BY <2>1, <2>2
<1>15. ASSUME QueuesInv(e, FALSE) PROVE QueuesInv(d, FALSE)
  <2>1. QueuesInv(l, FALSE)
    BY <1>6, <1>8, <1>15 DEF Preserves
  <2>2. l.s.next_pane_id <= p
    BY <1>3, <1>5, <1>8 DEF Preserves, Alike
  <2>3. /\ d.s.next_pane_id = p /\ d.s.activated = l.s.activated
        /\ d.s.holders = l.s.holders
        /\ \A w \in Worker : d.q[w] = IF ~iop /\ w \in l.s.activated
                                      THEN Append(l.q[w], Punct(p)) ELSE l.q[w]
    BY <1>10, <1>11, <1>14
  <2> QED
    BY <1>10, <2>1, <2>2, <2>3, ClosedKeeps
<1>16. /\ d.s.activated = e.s.activated /\ d.s.next_pane_id = p
       /\ d.s.n_panes = k
       /\ d.s.holders = e.s.holders /\ d.s.pane_size = e.s.pane_size
       /\ d.s.a_worker = e.s.a_worker
       /\ d.last_P = e.last_P /\ d.last_timestamp = e.last_timestamp
  BY <1>5, <1>8, <1>10, <1>14 DEF Preserves, Alike
<1> QED
  BY <1>1, <1>13, <1>14, <1>15, <1>16 DEF Closing

\* The emitter as the progress of the stream, or the lack of it, leaves it.
LEMMA ProgressKeeps ==
    ASSUME NEW e, EmitterInv(e, FALSE), NEW p \in Pane,
           p <= PaneOf(IF iop THEN e.last_timestamp ELSE e.last_P)
    PROVE  LET d == executeStreamProgress(e, p)
           IN /\ EmitterInv(d, FALSE)
              /\ d.last_P = e.last_P /\ d.last_timestamp = e.last_timestamp
              /\ d.s.activated = e.s.activated
              /\ d.s.next_pane_id = IF p < e.s.next_pane_id THEN e.s.next_pane_id ELSE p
<1>1. /\ e \in EmitterType /\ QueuesInv(e, FALSE) /\ SchedInv(e)
      /\ \A q \in Pane : q >= e.s.next_pane_id => PaneInv(e.s, q)
  BY DEF EmitterInv
<1>2. CASE p < e.s.next_pane_id
  BY <1>2 DEF executeStreamProgress
<1>3. CASE ~(p < e.s.next_pane_id)
  <2>1. PICK d : d = executeStreamProgress(e, p)
    OBVIOUS
  <2>2. e.s.activated # {}
    BY <1>1 DEF SchedInv
  <2>3. Closing(e, d, p)
    BY <1>1, <1>3, <2>1, <2>2, ProgressCloses
  <2>4. d \in EmitterType /\ QueuesInv(d, FALSE)
    BY <1>1, <2>3 DEF Closing
  <2>5. /\ e.s.n_panes \in Nat /\ p \in Nat /\ e.s.next_pane_id \in Nat /\ Pane \subseteq Nat
        /\ e.s.next_pane_id <= p
    <3>1. e.s.n_panes \in 0..(PaneOf(MaxTs) + 1) /\ e.s.next_pane_id \in Pane
      BY <1>1 DEF EmitterType, Sched
    <3>2. PICK next : next = e.s.next_pane_id
      OBVIOUS
    <3>3. Pane \subseteq Nat /\ p \in Nat /\ next \in Nat /\ ~(p < next)
      BY <1>3, <3>1, <3>2, WorkersAreNumbers
    <3>4. next <= p
      BY <3>3
    <3> QED
      BY <3>1, <3>2, <3>3, <3>4, WorkersAreNumbers
  <2>6. SchedInv(d)
    <3>1. \A q \in Pane : q >= d.s.n_panes => q >= e.s.n_panes
      <4>1. PICK n : n = e.s.n_panes
        OBVIOUS
      <4>2. PICK m : m = d.s.n_panes
        OBVIOUS
      <4>3. m = IF n > p + 1 THEN n ELSE p + 1
        BY <2>3, <4>1, <4>2 DEF Closing, Larger
      <4>4. n \in Nat /\ p \in Nat /\ Pane \subseteq Nat
        BY <1>1, <4>1, WorkersAreNumbers DEF EmitterType, Sched
      <4>5. m \in Nat /\ n <= m
        BY ONLY <4>3, <4>4
      <4>6. \A q \in Nat : q >= m => q >= n
        BY ONLY <4>4, <4>5
      <4> QED
        BY ONLY <4>1, <4>2, <4>4, <4>6
    <3>2. iop => d.s.n_panes <= d.s.next_pane_id + 1
      <4> SUFFICES ASSUME iop PROVE d.s.n_panes <= d.s.next_pane_id + 1
        OBVIOUS
      <4>1. e.s.n_panes <= e.s.next_pane_id + 1
        BY <1>1 DEF SchedInv
      <4>2. d.s.next_pane_id = p /\ d.s.n_panes = Larger(e.s.n_panes, p + 1)
        BY <2>3 DEF Closing
      <4> QED
        BY <2>5, <4>1, <4>2 DEF Larger
    <3> QED
      BY <1>1, <2>3, <3>1, <3>2 DEF SchedInv, Closing
  <2>7. ASSUME NEW q \in Pane, q >= d.s.next_pane_id PROVE PaneInv(d.s, q)
    <3>1. q >= e.s.next_pane_id
      BY <2>3, <2>5, <2>7 DEF Closing
    <3>2. PaneInv(e.s, q)
      BY <1>1, <3>1
    <3> QED
      BY <2>3, <3>2 DEF PaneInv, ActiveInv, Closing
  <2>8. EmitterInv(d, FALSE)
    BY <2>4, <2>6, <2>7 DEF EmitterInv
  <2> QED
    BY <1>3, <2>1, <2>3, <2>8 DEF Closing
<1> QED
  BY <1>2, <1>3

-----------------------------------------------------------------------------
(* The strategies                                                          *)

\* Nothing but pane p is different in d, and the messages that were sent.
Elsewhere(e, d, p) ==
    /\ d.s.activated = e.s.activated /\ d.s.next_pane_id = e.s.next_pane_id
    /\ d.last_P = e.last_P /\ d.last_timestamp = e.last_timestamp
    /\ \A q \in Pane \ {p} : /\ d.s.holders[q] = e.s.holders[q]
                             /\ d.s.pane_size[q] = e.s.pane_size[q]
                             /\ d.s.a_worker[q] = e.s.a_worker[q]

\* Pane p is open, and at workers that are activated or that are in W.
Due(e, p, W) ==
    /\ QueuesInv(e, FALSE)
    /\ p >= e.s.next_pane_id /\ (iop => p = e.s.next_pane_id)
    /\ e.s.holders[p] \subseteq e.s.activated \cup W
    /\ ActiveInv(e.s, p)

\* The strategy made d of e for pane p; if the pane is Due, it is in order in d.
Serves(e, d, p, W) ==
    /\ d \in EmitterType /\ Elsewhere(e, d, p)
    /\ Due(e, p, W) => QueuesInv(d, FALSE) /\ PaneInv(d.s, p)
\* A tuple of pane p is counted.
Counts(e, c, p) ==
    /\ c \in EmitterType /\ c.q = e.q /\ Elsewhere(e, c, p)
    /\ c.s.n_panes = Larger(e.s.n_panes, p + 1)
    /\ c.s.holders = e.s.holders /\ c.s.a_worker = e.s.a_worker
    /\ c.s.p_instances = e.s.p_instances /\ c.s.last_w = e.s.last_w

\* Counting the tuple of a pane changes its size only.
LEMMA CountedEffect ==
    ASSUME NEW e \in EmitterType, NEW p \in Pane
    PROVE  Counts(e, [e EXCEPT !.s.n_panes = Larger(@, p + 1), !.s.pane_size[p] = @ + 1], p)
<1>1. PICK k : k = Larger(e.s.n_panes, p + 1)
  OBVIOUS
<1>2. k \in 0..(PaneOf(MaxTs) + 1)
  <2>1. /\ p \in Nat /\ p <= PaneOf(MaxTs) /\ PaneOf(MaxTs) \in Nat
        /\ e.s.n_panes \in 0..(PaneOf(MaxTs) + 1)
    BY WorkersAreNumbers DEF EmitterType, Sched, Pane
  <2> QED
    BY <1>1, <2>1 DEF Larger
<1>3. PICK r : r = [e EXCEPT !.s.n_panes = k]
  OBVIOUS
<1>4. /\ r \in EmitterType /\ r.q = e.q /\ r.s.n_panes = k
      /\ r.last_P = e.last_P /\ r.last_timestamp = e.last_timestamp
      /\ r.s.activated = e.s.activated /\ r.s.next_pane_id = e.s.next_pane_id
      /\ r.s.holders = e.s.holders /\ r.s.pane_size = e.s.pane_size
      /\ r.s.a_worker = e.s.a_worker /\ r.s.p_instances = e.s.p_instances
      /\ r.s.last_w = e.s.last_w
  BY <1>2, <1>3 DEF EmitterType, Sched
<1>5. PICK z : z = e.s.pane_size[p] + 1
  OBVIOUS
<1>6. z \in Nat
  BY <1>5 DEF EmitterType, Sched
<1>7. PICK c : c = [r EXCEPT !.s.pane_size[p] = z]
  OBVIOUS
<1>8. /\ c \in EmitterType /\ c.q = r.q /\ c.s.n_panes = r.s.n_panes
      /\ c.last_P = r.last_P /\ c.last_timestamp = r.last_timestamp
      /\ c.s.activated = r.s.activated /\ c.s.next_pane_id = r.s.next_pane_id
      /\ c.s.holders = r.s.holders
      /\ \A q \in Pane \ {p} : c.s.pane_size[q] = r.s.pane_size[q]
      /\ c.s.a_worker = r.s.a_worker /\ c.s.p_instances = r.s.p_instances
      /\ c.s.last_w = r.s.last_w
  BY <1>4, <1>6, <1>7 DEF EmitterType, Sched
<1>9. Counts(e, c, p)
  BY <1>1, <1>4, <1>8 DEF Counts, Elsewhere
<1>10. c = [e EXCEPT !.s.n_panes = Larger(@, p + 1), !.s.pane_size[p] = @ + 1]
  BY <1>1, <1>3, <1>4, <1>5, <1>7
<1> QED
  BY <1>9, <1>10

\* A worker that is activated is told to make, or fill, a partition of pane p,
\* or those that have one are told of another.
LEMMA TellKeeps ==
    ASSUME NEW e \in EmitterType, NEW p \in Pane,
           QueuesInv(e, FALSE), p >= e.s.next_pane_id, iop => p = e.s.next_pane_id,
           NEW d, NEW W \in SUBSET e.s.activated, NEW m \in Message,
           Sent(e, d, W, m), m.type \in Naming, m.pane_id = p,
           m.type = "NEW_INST" => W \subseteq e.s.holders[p],
           Elsewhere(e, d, p),
           d.s.holders[p] \subseteq
               IF m.type = "NEW_INST" THEN e.s.holders[p] ELSE e.s.holders[p] \cup W
    PROVE  QueuesInv(d, FALSE)
<1>1. m.type \in Ordinary \ {"PUNCT"}
  BY DEF Ordinary, Naming
<1>2. d.s.activated = e.s.activated /\ d.s.next_pane_id = e.s.next_pane_id
  BY DEF Elsewhere
<1>3. \A q \in Pane : Names(m, q) => q >= e.s.next_pane_id /\ (iop => q = e.s.next_pane_id)
  BY DEF Names
<1>4. \A q \in Pane, w \in W : m.type = "NEW_INST" /\ m.pane_id = q => w \in e.s.holders[q]
  OBVIOUS
<1>5. ASSUME NEW q \in Pane, NEW w \in Worker, w \in d.s.holders[q]
      PROVE  w \in e.s.holders[q] \/ (w \in W /\ Makes(m, q))
  <2>1. CASE q = p
    <3>1. m.type # "NEW_INST" => Makes(m, q)
      BY <2>1 DEF Makes, Making, Naming
    <3> QED
      BY <1>5, <2>1, <3>1
  <2>2. CASE q # p
    BY <1>5, <2>2 DEF Elsewhere
  <2> QED
    BY <2>1, <2>2
<1> QED
  BY <1>1, <1>2, <1>3, <1>4, <1>5, SentKeeps

\* The choice by round robin depends on the activated workers and the turn only.
LEMMA SameChoice ==
    ASSUME NEW s, NEW t, t.activated = s.activated, t.last_w = s.last_w
    PROVE  get_rr_w(t) = get_rr_w(s)
<1>1. PICK A : A = s.activated
  OBVIOUS
<1>2. PICK l : l = s.last_w
  OBVIOUS
<1>3. get_rr_w(s) = CHOOSE w \in A : \A v \in A :
          (w - l) % NUM_WORKER_THREADS <= (v - l) % NUM_WORKER_THREADS
  BY <1>1, <1>2 DEF get_rr_w, Distance
<1>4. t.activated = A /\ t.last_w = l
  BY <1>1, <1>2
<1>5. get_rr_w(t) = CHOOSE w \in A : \A v \in A :
          (w - l) % NUM_WORKER_THREADS <= (v - l) % NUM_WORKER_THREADS
  BY <1>4 DEF get_rr_w, Distance
<1> QED
  BY <1>3, <1>5

\* Worker w, which is the next one, gets message m and is the holder of pane p.
NextTold(e, p, m, w, n) ==
    [SendRR(e, m) EXCEPT !.s.holders[p] = {w}, !.s.p_instances[p] = n]

Opens(e, d, p, m, w) ==
    /\ w \in e.s.activated /\ w \in Worker
    /\ Sent(e, d, {w}, m) /\ Elsewhere(e, d, p)
    /\ d.s.n_panes = e.s.n_panes
    /\ d.s.holders[p] = {w} /\ d.s.pane_size[p] = e.s.pane_size[p]
    /\ d.s.a_worker[p] = e.s.a_worker[p]

\* A partition of the pane is opened at the next worker in turn, who is told first.
LEMMA NextOpens ==
    ASSUME NEW e \in EmitterType, e.s.activated # {}, NEW p \in Pane,
           NEW m \in Message, NEW n \in Nat, NEW w, w = get_rr_w(e.s)
    PROVE  Opens(e, NextTold(e, p, m, w, n), p, m, w)
<1>2. PICK r : r = SendRR(e, m)
  OBVIOUS
<1>3. w \in e.s.activated /\ w \in Worker /\ Sent(e, r, {w}, m) /\ Alike(e.s, r.s)
  BY <1>2, SendRREffect
<1>4. r \in EmitterType
  BY <1>3 DEF Sent
<1>5. PICK t : t = [r EXCEPT !.s.holders[p] = {w}]
  OBVIOUS
<1> w \in Worker
  BY <1>3
<1>6. /\ t \in EmitterType /\ t.q = r.q
      /\ t.last_P = r.last_P /\ t.last_timestamp = r.last_timestamp
      /\ t.s.activated = r.s.activated /\ t.s.next_pane_id = r.s.next_pane_id
      /\ t.s.n_panes = r.s.n_panes /\ t.s.pane_size = r.s.pane_size
      /\ t.s.a_worker = r.s.a_worker /\ t.s.holders[p] = {w}
      /\ \A q \in Pane \ {p} : t.s.holders[q] = r.s.holders[q]
  BY <1>4, <1>5 DEF EmitterType, Sched
<1>7. PICK d : d = [t EXCEPT !.s.p_instances[p] = n]
  OBVIOUS
<1>8. /\ d \in EmitterType /\ d.q = t.q
      /\ d.last_P = t.last_P /\ d.last_timestamp = t.last_timestamp
      /\ d.s.activated = t.s.activated /\ d.s.next_pane_id = t.s.next_pane_id
      /\ d.s.n_panes = t.s.n_panes /\ d.s.pane_size = t.s.pane_size
      /\ d.s.a_worker = t.s.a_worker /\ d.s.holders = t.s.holders
  BY <1>6, <1>7 DEF EmitterType, Sched
<1>9. d = NextTold(e, p, m, w, n)
  BY <1>2, <1>5, <1>7 DEF NextTold
<1>10. Sent(e, d, {w}, m) /\ Elsewhere(e, d, p)
  BY <1>3, <1>6, <1>8 DEF Sent, Elsewhere, Alike
<1>11. /\ d.s.n_panes = e.s.n_panes
       /\ d.s.holders[p] = {w} /\ d.s.pane_size[p] = e.s.pane_size[p]
       /\ d.s.a_worker[p] = e.s.a_worker[p]
  BY <1>3, <1>6, <1>8 DEF Alike
<1> QED
  BY <1>3, <1>9, <1>10, <1>11 DEF Opens

\* PB_RR_Sched sends a tuple to the holder of its pane, who has it on the way.
LEMMA PBServes ==
    ASSUME strategy = "PB_RR",
           NEW e \in EmitterType, e.s.activated # {}, NEW p \in Pane
    PROVE  LET d == PB_sched_to_worker(e, p)
           IN Serves(e, d, p, {}) /\ d.s.n_panes = Larger(e.s.n_panes, p + 1)
<1>1. PICK c : c = [e EXCEPT !.s.n_panes = Larger(@, p + 1), !.s.pane_size[p] = @ + 1]
  OBVIOUS
<1>2. Counts(e, c, p)
  BY <1>1, CountedEffect
<1>3. c \in EmitterType /\ c.s.activated = e.s.activated /\ c.s.activated # {}
  BY <1>2 DEF Counts, Elsewhere
<1>4. PICK d : d = PB_sched_to_worker(e, p)
  OBVIOUS
<1>5. ~Adaptive
  BY DEF Adaptive
<1>6. CASE e.s.holders[p] = {}
  <2>1. PICK w : w = get_rr_w(e.s)
    OBVIOUS
  <2>2. PICK m : m = Regular(p, 1)
    BY Zenon
  <2>3. d = NextTold(c, p, m, w, 1)
    BY <1>1, <1>4, <1>6, <2>1, <2>2 DEF PB_sched_to_worker, NextTold
  <2>4. m \in Message /\ m.type \in Naming /\ m.type # "NEW_INST" /\ m.pane_id = p
    BY <2>2, MessagesSent DEF Regular, Naming
  <2>5. w = get_rr_w(c.s)
    BY <1>2, <2>1, SameChoice DEF Counts, Elsewhere
  <2>6. Opens(c, d, p, m, w)
    <3>1. 1 \in Nat
      OBVIOUS
    <3> QED
      BY ONLY <1>3, <2>3, <2>4, <2>5, <3>1, p \in Pane, NextOpens
  <2>7. /\ w \in e.s.activated /\ Sent(c, d, {w}, m) /\ Elsewhere(c, d, p)
        /\ d.s.n_panes = c.s.n_panes /\ d.s.holders[p] = {w}
    BY <1>3, <2>6 DEF Opens
  <2>8. Sent(e, d, {w}, m) /\ Elsewhere(e, d, p) /\ d \in EmitterType
    BY <1>2, <2>7 DEF Counts, Elsewhere, Sent
  <2>9. ASSUME Due(e, p, {}) PROVE QueuesInv(d, FALSE) /\ PaneInv(d.s, p)
    <3>1. QueuesInv(d, FALSE)
      BY <2>4, <2>7, <2>8, <2>9, TellKeeps DEF Due
    <3>2. PaneInv(d.s, p)
      BY <1>5, <2>7, <2>8 DEF PaneInv, ActiveInv, Elsewhere
    <3> QED
      BY <3>1, <3>2
  <2> QED
    BY <1>2, <1>4, <2>7, <2>8, <2>9 DEF Serves, Counts
<1>7. CASE e.s.holders[p] # {}
  <2>1. PICK w : w = CHOOSE h \in e.s.holders[p] : TRUE
    OBVIOUS
  <2>2. PICK n : n = e.s.p_instances[p]
    OBVIOUS
  <2>3. PICK m : m = Regular(p, n)
    BY Zenon
  <2>4. d = Send(c, w, m)
    BY <1>1, <1>4, <1>7, <2>1, <2>2, <2>3 DEF PB_sched_to_worker
  <2>5. w \in e.s.holders[p] /\ w \in Worker /\ n \in Nat
    BY <1>7, <2>1, <2>2 DEF EmitterType, Sched
  <2>6. m \in Message /\ m.type \in Naming /\ m.type # "NEW_INST" /\ m.pane_id = p
    BY <2>3, <2>5, MessagesSent DEF Regular, Naming
  <2>7. Sent(c, d, {w}, m) /\ d.s = c.s
    BY <1>3, <2>4, <2>5, <2>6, SendEffect
  <2>8. /\ Sent(e, d, {w}, m) /\ Elsewhere(e, d, p) /\ d \in EmitterType
        /\ d.s.holders = e.s.holders /\ d.s.n_panes = Larger(e.s.n_panes, p + 1)
    BY <1>2, <2>7 DEF Counts, Elsewhere, Sent
  <2>9. ASSUME Due(e, p, {}) PROVE QueuesInv(d, FALSE) /\ PaneInv(d.s, p)
    <3>1. e.s.holders[p] \subseteq e.s.activated
      BY <2>9 DEF Due
    <3>2. QueuesInv(d, FALSE)
      BY <2>5, <2>6, <2>8, <2>9, <3>1, TellKeeps DEF Due
    <3>3. PaneInv(d.s, p)
      BY <1>5, <2>8, <3>1 DEF PaneInv, ActiveInv, Elsewhere
    <3> QED
      BY <3>2, <3>3
  <2> QED
    BY <1>4, <2>8, <2>9 DEF Serves
<1> QED
  BY <1>6, <1>7

\* PB_RR_Sched gives an open pane whose holder leaves to another worker.
LEMMA PBRepairs ==
    ASSUME strategy = "PB_RR",
           NEW e \in EmitterType, e.s.activated # {}, NEW p \in Pane, NEW W
    PROVE  LET d == PB_Repair(e, W, p)
           IN Serves(e, d, p, W) /\ d.s.n_panes = e.s.n_panes
<1>1. PICK d : d = PB_Repair(e, W, p)
  OBVIOUS
<1>2. ~Adaptive
  BY DEF Adaptive
<1>3. CASE e.s.holders[p] \cap W = {}
  <2>1. d = e
    BY <1>1, <1>3 DEF PB_Repair
  <2>2. Due(e, p, W) => PaneInv(e.s, p)
    BY <1>2, <1>3 DEF Due, PaneInv, ActiveInv
  <2> QED
    BY <1>1, <2>1, <2>2 DEF Serves, Elsewhere, Due
<1>4. CASE e.s.holders[p] \cap W # {}
  <2>1. PICK w : w = get_rr_w(e.s)
    OBVIOUS
  <2>2. PICK n : n = e.s.p_instances[p] + 1
    OBVIOUS
  <2>3. PICK m : m = EmptyPane(p, n)
    OBVIOUS
  <2>4. d = NextTold(e, p, m, w, n)
    BY <1>1, <1>4, <2>1, <2>2, <2>3 DEF PB_Repair, NextTold
  <2>5. n \in Nat
    BY <2>2 DEF EmitterType, Sched
  <2>6. m \in Message /\ m.type \in Naming /\ m.type # "NEW_INST" /\ m.pane_id = p
    BY <2>3, <2>5, MessagesSent DEF EmptyPane, Naming
  <2>7. Opens(e, d, p, m, w)
    BY ONLY <2>1, <2>4, <2>5, <2>6, e \in EmitterType, e.s.activated # {}, p \in Pane,
            NextOpens
  <2>8. /\ w \in e.s.activated /\ Sent(e, d, {w}, m) /\ Elsewhere(e, d, p)
        /\ d.s.n_panes = e.s.n_panes /\ d.s.holders[p] = {w}
    BY <2>7 DEF Opens
  <2>9. ASSUME Due(e, p, W) PROVE QueuesInv(d, FALSE) /\ PaneInv(d.s, p)
    <3>1. QueuesInv(d, FALSE)
      BY <2>6, <2>8, <2>9, TellKeeps DEF Due
    <3>2. PaneInv(d.s, p)
      BY <1>2, <2>8 DEF PaneInv, ActiveInv, Elsewhere
    <3> QED
      BY <3>1, <3>2
  <2> QED
    BY <1>1, <2>8, <2>9 DEF Serves, Sent
<1> QED
  BY <1>3, <1>4

\* The holders of pane p are told that worker w gets another partition of it.
LEMMA SplitKeeps ==
    ASSUME NEW e \in EmitterType, NEW p \in Pane,
           QueuesInv(e, FALSE), p >= e.s.next_pane_id, iop => p = e.s.next_pane_id,
           e.s.holders[p] \subseteq e.s.activated,
           NEW n \in Nat, NEW w \in e.s.activated,
           NEW m \in Message, m.type \in Making, m.pane_id = p,
           NEW d, Sent(Multicast(e, e.s.holders[p], NewInst(p, n)), d, {w}, m),
           Elsewhere(e, d, p), d.s.holders[p] \subseteq e.s.holders[p] \cup {w}
    PROVE  QueuesInv(d, FALSE)
<1>1. PICK a : a = NewInst(p, n)
  OBVIOUS
<1>2. PICK t : t = Multicast(e, e.s.holders[p], a)
  OBVIOUS
<1>3. a \in Message /\ a.type = "NEW_INST" /\ a.type \in Naming /\ a.pane_id = p
  BY <1>1, MessagesSent DEF NewInst, Naming
<1>4. PICK H : H = e.s.holders[p]
  OBVIOUS
<1>5. Sent(e, t, H, a) /\ t.s = e.s /\ t \in EmitterType
  <2>1. Sent(e, t, H, a) /\ t.s = e.s
    BY <1>2, <1>3, <1>4, MulticastEffect
  <2> QED
    BY <2>1 DEF Sent
<1>6. Elsewhere(e, t, p)
  BY <1>5 DEF Elsewhere, Sent
<1>7. QueuesInv(t, FALSE)
  BY <1>3, <1>4, <1>5, <1>6, TellKeeps
<1>8. Sent(t, d, {w}, m) /\ m.type \in Naming /\ m.type # "NEW_INST"
  BY <1>1, <1>2 DEF Making, Naming
<1>9. Elsewhere(t, d, p)
  BY <1>5, <1>8 DEF Elsewhere, Sent
<1> QED
  BY <1>5, <1>7, <1>8, <1>9, TellKeeps

\* TB_RR_Sched sends a tuple to any worker, with a partition of the pane where
\* the worker had none.
LEMMA TBServes ==
    ASSUME strategy = "TB_RR",
           NEW e \in EmitterType, e.s.activated # {}, NEW p \in Pane
    PROVE  LET d == TB_sched_to_worker(e, p)
           IN Serves(e, d, p, {}) /\ d.s.n_panes = Larger(e.s.n_panes, p + 1)
<1>1. PICK c : c = [e EXCEPT !.s.n_panes = Larger(@, p + 1), !.s.pane_size[p] = @ + 1]
  OBVIOUS
<1>2. Counts(e, c, p)
  BY <1>1, CountedEffect
<1>3. c \in EmitterType /\ c.s.activated = e.s.activated /\ c.s.activated # {}
  BY <1>2 DEF Counts, Elsewhere
<1>4. PICK d : d = TB_sched_to_worker(e, p)
  OBVIOUS
<1>5. ~Adaptive
  BY DEF Adaptive
<1>6. PICK w : w = get_rr_w(e.s)
  OBVIOUS
<1>7. w = get_rr_w(c.s)
  BY <1>2, <1>6, SameChoice DEF Counts, Elsewhere
<1>8. CASE w \in e.s.holders[p]
  <2>1. PICK n : n = e.s.p_instances[p]
    OBVIOUS
  <2>2. PICK m : m = Regular(p, n)
    BY Zenon
  <2>3. d = SendRR(c, m)
    BY <1>1, <1>4, <1>6, <1>8, <2>1, <2>2 DEF TB_sched_to_worker
  <2>4. n \in Nat
    BY <2>1 DEF EmitterType, Sched
  <2>5. m \in Message /\ m.type \in Naming /\ m.type # "NEW_INST" /\ m.pane_id = p
    BY <2>2, <2>4, MessagesSent DEF Regular, Naming
  <2>6. w \in c.s.activated /\ Sent(c, d, {w}, m) /\ Alike(c.s, d.s)
    BY <1>3, <1>7, <2>3, <2>5, SendRREffect
  <2>7. /\ Sent(e, d, {w}, m) /\ Elsewhere(e, d, p) /\ d \in EmitterType
        /\ d.s.holders = e.s.holders /\ d.s.n_panes = Larger(e.s.n_panes, p + 1)
    BY <1>2, <2>6 DEF Counts, Elsewhere, Sent, Alike
  <2>8. ASSUME Due(e, p, {}) PROVE QueuesInv(d, FALSE) /\ PaneInv(d.s, p)
    <3>1. e.s.holders[p] \subseteq e.s.activated
      BY <2>8 DEF Due
    <3>2. QueuesInv(d, FALSE)
      BY <1>3, <2>5, <2>6, <2>7, <2>8, TellKeeps DEF Due
    <3>3. PaneInv(d.s, p)
      BY <1>5, <2>7, <3>1 DEF PaneInv, ActiveInv, Elsewhere
    <3> QED
      BY <3>2, <3>3
  <2> QED
    BY <1>4, <2>7, <2>8 DEF Serves
<1>9. CASE w \notin e.s.holders[p]
  <2>1. PICK n : n = e.s.p_instances[p] + 1
    OBVIOUS
  <2>2. PICK m : m = Regular(p, n)
    BY Zenon
  <2>3. n \in Nat
    BY <2>1 DEF EmitterType, Sched
  <2>4. m \in Message /\ m.type \in Making /\ m.pane_id = p
    BY <2>2, <2>3, MessagesSent DEF Regular, Making
  <2>5. PICK H : H = e.s.holders[p]
    OBVIOUS
  <2>6. PICK t : t = Multicast(c, H, NewInst(p, n))
    OBVIOUS
  <2>7. /\ t \in EmitterType /\ t.s = c.s
        /\ t.last_P = c.last_P /\ t.last_timestamp = c.last_timestamp
    <3>1. NewInst(p, n) \in Message
      BY <2>3, MessagesSent
    <3>2. PICK a : a = NewInst(p, n)
      OBVIOUS
    <3>3. Sent(c, t, H, a) /\ t.s = c.s
      BY <1>3, <2>6, <3>1, <3>2, MulticastEffect
    <3> QED
      BY <3>3 DEF Sent
  <2>8. w \in Worker
    BY <1>3, <1>7, <2>4, SendRREffect
  <2>9. H \in SUBSET Worker /\ H \cup {w} \in SUBSET Worker
    BY <2>5, <2>8 DEF EmitterType, Sched
  <2>10. PICK u : u = [t EXCEPT !.s.p_instances[p] = n]
    OBVIOUS
  <2>11. /\ u \in EmitterType /\ u.q = t.q
         /\ u.last_P = t.last_P /\ u.last_timestamp = t.last_timestamp
         /\ u.s.activated = t.s.activated /\ u.s.next_pane_id = t.s.next_pane_id
         /\ u.s.n_panes = t.s.n_panes /\ u.s.pane_size = t.s.pane_size
         /\ u.s.a_worker = t.s.a_worker /\ u.s.holders = t.s.holders
         /\ u.s.last_w = t.s.last_w
    BY <2>3, <2>7, <2>10 DEF EmitterType, Sched
  <2>12. PICK G : G = H \cup {w}
    OBVIOUS
  <2>13. PICK v : v = [u EXCEPT !.s.holders[p] = G]
    OBVIOUS
  <2>14. /\ v \in EmitterType /\ v.q = t.q
         /\ v.last_P = t.last_P /\ v.last_timestamp = t.last_timestamp
         /\ v.s.activated = t.s.activated /\ v.s.next_pane_id = t.s.next_pane_id
         /\ v.s.n_panes = t.s.n_panes /\ v.s.pane_size = t.s.pane_size
         /\ v.s.a_worker = t.s.a_worker /\ v.s.last_w = t.s.last_w
         /\ v.s.holders[p] = G
         /\ \A q \in Pane \ {p} : v.s.holders[q] = t.s.holders[q]
    BY <2>9, <2>11, <2>12, <2>13 DEF EmitterType, Sched
  <2>15. d = SendRR(v, m)
    <3>1. v = [t EXCEPT !.s.p_instances[p] = n, !.s.holders[p] = @ \cup {w}]
      BY <1>2, <2>5, <2>7, <2>10, <2>11, <2>12, <2>13 DEF Counts
    <3> QED
      BY <1>1, <1>4, <1>6, <1>9, <2>1, <2>2, <2>5, <2>6, <3>1 DEF TB_sched_to_worker
  <2>16. w = get_rr_w(v.s)
    BY <1>7, <2>7, <2>14, SameChoice
  <2>17. w \in v.s.activated /\ Sent(v, d, {w}, m) /\ Alike(v.s, d.s)
    BY <1>3, <2>4, <2>7, <2>14, <2>15, <2>16, SendRREffect
  <2>18. /\ Sent(t, d, {w}, m) /\ Elsewhere(c, d, p) /\ Elsewhere(e, d, p)
         /\ d \in EmitterType /\ d.s.holders[p] = G
         /\ d.s.n_panes = Larger(e.s.n_panes, p + 1) /\ w \in c.s.activated
    BY <1>2, <2>7, <2>14, <2>17 DEF Counts, Elsewhere, Sent, Alike
  <2>19. ASSUME Due(e, p, {}) PROVE QueuesInv(d, FALSE) /\ PaneInv(d.s, p)
    <3>1. H \subseteq e.s.activated
      BY <2>5, <2>19 DEF Due
    <3>2. QueuesInv(c, FALSE)
      BY <1>2, <2>19 DEF Due, QueuesInv, Counts, Elsewhere, HeldBy
    <3>3. /\ p >= c.s.next_pane_id /\ (iop => p = c.s.next_pane_id)
          /\ c.s.holders[p] \subseteq c.s.activated /\ c.s.holders[p] = H
      BY <1>2, <2>5, <2>19, <3>1 DEF Due, Counts, Elsewhere
    <3>4. QueuesInv(d, FALSE)
      BY <1>3, <2>3, <2>4, <2>6, <2>12, <2>18, <3>2, <3>3, SplitKeeps
    <3>5. PaneInv(d.s, p)
      BY <1>3, <1>5, <2>12, <2>18, <3>1 DEF PaneInv, ActiveInv, Elsewhere
    <3> QED
      BY <3>4, <3>5
  <2> QED
    BY <1>4, <2>18, <2>19 DEF Serves
<1> QED
  BY <1>8, <1>9

\* TB_RR_Sched opens a partition where all those of a pane were at leaving workers.
LEMMA TBRepairs ==
    ASSUME strategy = "TB_RR",
           NEW e \in EmitterType, e.s.activated # {}, NEW p \in Pane, NEW W
    PROVE  LET d == TB_Repair(e, W, p)
           IN Serves(e, d, p, W) /\ d.s.n_panes = e.s.n_panes
<1>1. PICK d : d = TB_Repair(e, W, p)
  OBVIOUS
<1>2. ~Adaptive
  BY DEF Adaptive
<1>3. PICK live : live = e.s.holders[p] \cap e.s.activated
  OBVIOUS
<1>4. CASE live # {}
  <2>1. d = [e EXCEPT !.s.holders[p] = live]
    BY <1>1, <1>3, <1>4 DEF TB_Repair
  <2>2. live \in SUBSET Worker
    BY <1>3 DEF EmitterType, Sched
  <2>3. PICK f : f = [e EXCEPT !.s.holders[p] = live]
    OBVIOUS
  <2>4. /\ f \in EmitterType /\ f.q = e.q /\ Elsewhere(e, f, p)
        /\ f.s.n_panes = e.s.n_panes /\ f.s.holders[p] = live
    BY <2>2, <2>3 DEF EmitterType, Sched, Elsewhere
  <2>5. ASSUME Due(e, p, W) PROVE QueuesInv(f, FALSE) /\ PaneInv(f.s, p)
    <3>1. \A w \in Worker : HeldBy(f.s, w) \subseteq HeldBy(e.s, w)
      BY <1>3, <2>4 DEF HeldBy, Elsewhere
    <3>2. QueuesInv(f, FALSE)
      <4>1. QueuesInv(e, FALSE)
        BY <2>5 DEF Due
      <4>2. /\ f.s.activated = e.s.activated /\ f.s.next_pane_id = e.s.next_pane_id
            /\ f.q = e.q
        BY <2>4 DEF Elsewhere
      <4> QED
        BY <3>1, <4>1, <4>2, FewerHeld DEF QueuesInv
    <3>3. PaneInv(f.s, p)
      BY <1>2, <1>3, <2>4 DEF PaneInv, ActiveInv, Elsewhere
    <3> QED
      BY <3>2, <3>3
  <2> QED
    BY <1>1, <2>1, <2>3, <2>4, <2>5 DEF Serves
<1>5. CASE live = {}
  <2>1. PICK w : w = get_rr_w(e.s)
    OBVIOUS
  <2>2. PICK n : n = e.s.p_instances[p] + 1
    OBVIOUS
  <2>3. PICK m : m = EmptyPane(p, n)
    OBVIOUS
  <2>4. d = NextTold(e, p, m, w, n)
    BY <1>1, <1>3, <1>5, <2>1, <2>2, <2>3 DEF TB_Repair, NextTold
  <2>5. n \in Nat
    BY <2>2 DEF EmitterType, Sched
  <2>6. m \in Message /\ m.type \in Naming /\ m.type # "NEW_INST" /\ m.pane_id = p
    BY <2>3, <2>5, MessagesSent DEF EmptyPane, Naming
  <2>7. Opens(e, d, p, m, w)
    BY ONLY <2>1, <2>4, <2>5, <2>6, e \in EmitterType, e.s.activated # {}, p \in Pane,
            NextOpens
  <2>8. /\ w \in e.s.activated /\ Sent(e, d, {w}, m) /\ Elsewhere(e, d, p)
        /\ d.s.n_panes = e.s.n_panes /\ d.s.holders[p] = {w}
    BY <2>7 DEF Opens
  <2>9. ASSUME Due(e, p, W) PROVE QueuesInv(d, FALSE) /\ PaneInv(d.s, p)
    <3>1. QueuesInv(d, FALSE)
      BY <2>6, <2>8, <2>9, TellKeeps DEF Due
    <3>2. PaneInv(d.s, p)
      BY <1>2, <2>8 DEF PaneInv, ActiveInv, Elsewhere
    <3> QED
      BY <3>1, <3>2
  <2> QED
    BY <1>1, <2>8, <2>9 DEF Serves, Sent
<1> QED
  BY <1>4, <1>5

\* The partition of pane p at worker w becomes the active one.
Activates(e, d, p, w) ==
    /\ d \in EmitterType /\ d.q = e.q /\ Elsewhere(e, d, p)
    /\ d.s.n_panes = e.s.n_panes /\ d.s.holders = e.s.holders
    /\ d.s.pane_size = e.s.pane_size /\ d.s.p_instances = e.s.p_instances
    /\ d.s.a_worker[p] = w

\* Adaptive_Sched makes a worker the active one of the pane.
LEMMA ActivateEffect ==
    ASSUME NEW e \in EmitterType, NEW p \in Pane, NEW w \in Worker
    PROVE  Activates(e, Activate(e, p, w), p, w)
<1>1. PICK l : l = (w + 1) % NUM_WORKER_THREADS
  OBVIOUS
<1>2. l \in Worker
  BY <1>1, WorkersAreNumbers
<1>3. PICK t : t = [e EXCEPT !.s.last_w = l]
  OBVIOUS
<1>4. /\ t \in EmitterType /\ t.q = e.q
      /\ t.last_P = e.last_P /\ t.last_timestamp = e.last_timestamp
      /\ t.s.activated = e.s.activated /\ t.s.next_pane_id = e.s.next_pane_id
      /\ t.s.n_panes = e.s.n_panes /\ t.s.holders = e.s.holders
      /\ t.s.pane_size = e.s.pane_size /\ t.s.p_instances = e.s.p_instances
      /\ t.s.a_worker = e.s.a_worker
  BY <1>2, <1>3 DEF EmitterType, Sched
<1>5. PICK d : d = [t EXCEPT !.s.a_worker[p] = w]
  OBVIOUS
<1>6. /\ d \in EmitterType /\ d.q = t.q
      /\ d.last_P = t.last_P /\ d.last_timestamp = t.last_timestamp
      /\ d.s.activated = t.s.activated /\ d.s.next_pane_id = t.s.next_pane_id
      /\ d.s.n_panes = t.s.n_panes /\ d.s.holders = t.s.holders
      /\ d.s.pane_size = t.s.pane_size /\ d.s.p_instances = t.s.p_instances
      /\ d.s.a_worker[p] = w
      /\ \A q \in Pane \ {p} : d.s.a_worker[q] = t.s.a_worker[q]
  BY <1>4, <1>5 DEF EmitterType, Sched
<1>7. Activate(e, p, w) = d
  BY <1>1, <1>3, <1>5 DEF Activate
<1> QED
  BY <1>4, <1>6, <1>7 DEF Activates, Elsewhere

\* The descriptor of pane p has one more holder, w.
Joins(e, d, p, w) ==
    /\ d \in EmitterType /\ d.q = e.q /\ Elsewhere(e, d, p)
    /\ d.s.n_panes = e.s.n_panes /\ d.s.pane_size = e.s.pane_size
    /\ d.s.a_worker = e.s.a_worker
    /\ d.s.holders[p] = e.s.holders[p] \cup {w}

\* A worker that is given a partition of a pane joins its holders.
LEMMA JoinEffect ==
    ASSUME NEW e \in EmitterType, NEW p \in Pane, NEW w \in Worker, NEW n \in Nat
    PROVE  Joins(e, [e EXCEPT !.s.p_instances[p] = n, !.s.holders[p] = @ \cup {w}], p, w)
<1>1. PICK t : t = [e EXCEPT !.s.p_instances[p] = n]
  OBVIOUS
<1>2. /\ t \in EmitterType /\ t.q = e.q
      /\ t.last_P = e.last_P /\ t.last_timestamp = e.last_timestamp
      /\ t.s.activated = e.s.activated /\ t.s.next_pane_id = e.s.next_pane_id
      /\ t.s.n_panes = e.s.n_panes /\ t.s.holders = e.s.holders
      /\ t.s.pane_size = e.s.pane_size /\ t.s.a_worker = e.s.a_worker
  BY <1>1 DEF EmitterType, Sched
<1>3. PICK G : G = e.s.holders[p] \cup {w}
  OBVIOUS
<1>4. G \in SUBSET Worker
  BY <1>3 DEF EmitterType, Sched
<1>5. PICK d : d = [t EXCEPT !.s.holders[p] = G]
  OBVIOUS
<1>6. /\ d \in EmitterType /\ d.q = t.q
      /\ d.last_P = t.last_P /\ d.last_timestamp = t.last_timestamp
      /\ d.s.activated = t.s.activated /\ d.s.next_pane_id = t.s.next_pane_id
      /\ d.s.n_panes = t.s.n_panes /\ d.s.holders[p] = G
      /\ d.s.pane_size = t.s.pane_size /\ d.s.a_worker = t.s.a_worker
      /\ \A q \in Pane \ {p} : d.s.holders[q] = t.s.holders[q]
  BY <1>2, <1>4, <1>5 DEF EmitterType, Sched
<1>7. d = [e EXCEPT !.s.p_instances[p] = n, !.s.holders[p] = @ \cup {w}]
  BY <1>1, <1>2, <1>3, <1>5
<1>8. Joins(e, d, p, w)
  BY <1>2, <1>3, <1>6 DEF Joins, Elsewhere
<1> QED
  BY <1>7, <1>8

\* Worker w has opened another partition of pane p, and d is what that made of e.
Splits(e, d, p, w) ==
    /\ d \in EmitterType /\ Elsewhere(e, d, p)
    /\ d.s.n_panes = e.s.n_panes /\ d.s.pane_size = e.s.pane_size
    /\ d.s.a_worker = e.s.a_worker
    /\ d.s.holders[p] = e.s.holders[p] \cup {w}
    /\ \E n \in Nat, m \in Message :
          /\ m.type \in Making /\ m.pane_id = p
          /\ Sent(Multicast(e, e.s.holders[p], NewInst(p, n)), d, {w}, m)

\* What Split of Adaptive_Sched does.
LEMMA SplitEffect ==
    ASSUME NEW e \in EmitterType, NEW p \in Pane, NEW w \in Worker,
           NEW type \in Making
    PROVE  Splits(e, Split(e, p, w, type), p, w)
<1>1. PICK n : n = e.s.p_instances[p] + 1
  OBVIOUS
<1>2. n \in Nat
  BY <1>1 DEF EmitterType, Sched
<1>3. PICK m : m = IF type = "REGULAR" THEN Regular(p, n) ELSE EmptyPane(p, n)
  BY Zenon
<1>4. m \in Message /\ m.type \in Making /\ m.pane_id = p
  BY <1>2, <1>3, MessagesSent DEF Regular, EmptyPane, Making
<1>5. PICK H : H = e.s.holders[p]
  OBVIOUS
<1>6. PICK a : a = NewInst(p, n)
  OBVIOUS
<1>7. PICK t : t = Multicast(e, H, a)
  OBVIOUS
<1>8. a \in Message
  BY <1>2, <1>6, MessagesSent
<1>9. Sent(e, t, H, a) /\ t.s = e.s
  BY <1>7, <1>8, MulticastEffect
<1>10. t \in EmitterType
  BY <1>9 DEF Sent
<1>11. PICK u : u = Send(t, w, m)
  OBVIOUS
<1>12. Sent(t, u, {w}, m) /\ u.s = t.s
  BY <1>4, <1>10, <1>11, SendEffect
<1>13. u \in EmitterType
  BY <1>12 DEF Sent
<1>14. PICK d : d = [u EXCEPT !.s.p_instances[p] = n, !.s.holders[p] = @ \cup {w}]
  OBVIOUS
<1>15. Joins(u, d, p, w)
  BY ONLY p \in Pane, w \in Worker, <1>2, <1>13, <1>14, JoinEffect
<1>16. Split(e, p, w, type) = d
  BY <1>1, <1>3, <1>5, <1>6, <1>7, <1>11, <1>14 DEF Split
<1>17. Sent(t, d, {w}, m) /\ d \in EmitterType
  BY <1>12, <1>15 DEF Sent, Joins, Elsewhere
<1>18. /\ Elsewhere(e, d, p)
       /\ d.s.n_panes = e.s.n_panes /\ d.s.pane_size = e.s.pane_size
       /\ d.s.a_worker = e.s.a_worker
       /\ d.s.holders[p] = e.s.holders[p] \cup {w}
  BY <1>9, <1>12, <1>15 DEF Sent, Joins, Elsewhere
<1>19. Splits(e, d, p, w)
  BY <1>2, <1>4, <1>5, <1>6, <1>7, <1>17, <1>18 DEF Splits
<1> QED
  BY <1>16, <1>19

\* A split keeps the invariants of the scheduler.
LEMMA SplitsKeep ==
    ASSUME NEW e \in EmitterType, NEW p \in Pane,
           QueuesInv(e, FALSE), p >= e.s.next_pane_id, iop => p = e.s.next_pane_id,
           e.s.holders[p] \subseteq e.s.activated,
           NEW w \in e.s.activated, NEW d, Splits(e, d, p, w)
    PROVE  QueuesInv(d, FALSE)
<1>1. PICK n \in Nat, m \in Message :
          /\ m.type \in Making /\ m.pane_id = p
          /\ Sent(Multicast(e, e.s.holders[p], NewInst(p, n)), d, {w}, m)
  BY DEF Splits
<1>2. Elsewhere(e, d, p) /\ d.s.holders[p] \subseteq e.s.holders[p] \cup {w}
  BY DEF Splits
<1> QED
  BY <1>1, <1>2, SplitKeeps

\* Adaptive_Sched sends a tuple to the active worker of its pane, who holds it.
LEMMA ADServes ==
    ASSUME Adaptive, NEW e \in EmitterType, NEW p \in Pane, Due(e, p, {}),
           NEW w \in e.s.activated, NEW large
    PROVE  LET d == AD_sched_to_worker(e, p, large, w)
           IN Serves(e, d, p, {}) /\ d.s.n_panes = Larger(e.s.n_panes, p + 1)
<1>1. PICK c : c = [e EXCEPT !.s.n_panes = Larger(@, p + 1), !.s.pane_size[p] = @ + 1]
  OBVIOUS
<1>2. Counts(e, c, p)
  BY <1>1, CountedEffect
<1>3. PICK a : a = Activate(c, p, w)
  OBVIOUS
<1>4. w \in Worker /\ c \in EmitterType
  BY <1>2 DEF Counts, EmitterType, Sched
<1>5. Activates(c, a, p, w)
  BY <1>3, <1>4, ActivateEffect
<1>6. PICK n : n = e.s.p_instances[p]
  OBVIOUS
<1>7. n \in Nat
  BY <1>6 DEF EmitterType, Sched
<1>8. PICK d : d = AD_sched_to_worker(e, p, large, w)
  OBVIOUS
<1>9. /\ QueuesInv(e, FALSE)
      /\ p >= e.s.next_pane_id /\ (iop => p = e.s.next_pane_id)
      /\ e.s.holders[p] \subseteq e.s.activated /\ ActiveInv(e.s, p)
  BY DEF Due
<1>10. /\ a \in EmitterType /\ a.q = e.q /\ Elsewhere(e, a, p)
       /\ a.s.n_panes = Larger(e.s.n_panes, p + 1) /\ a.s.holders = e.s.holders
       /\ a.s.a_worker[p] = w
  BY <1>2, <1>5 DEF Counts, Activates, Elsewhere
<1>11. CASE e.s.pane_size[p] = 0
  <2>1. PICK m : m = Regular(p, 1)
    BY Zenon
  <2>2. m \in Message /\ m.type \in Naming /\ m.type # "NEW_INST" /\ m.pane_id = p
    BY <2>1, MessagesSent DEF Regular, Naming
  <2>3. PICK s : s = Send(a, w, m)
    OBVIOUS
  <2>4. Sent(a, s, {w}, m) /\ s.s = a.s
    BY <1>4, <1>10, <2>2, <2>3, SendEffect
  <2>5. s \in EmitterType
    BY <2>4 DEF Sent
  <2>6. d = [s EXCEPT !.s.p_instances[p] = 1, !.s.holders[p] = @ \cup {w}]
    BY <1>1, <1>3, <1>8, <1>11, <2>1, <2>3 DEF AD_sched_to_worker
  <2>7. Joins(s, d, p, w)
    BY <1>4, <2>5, <2>6, JoinEffect
  <2>8. Sent(e, d, {w}, m) /\ d \in EmitterType
    BY <1>10, <2>4, <2>7 DEF Sent, Joins, Elsewhere
  <2>9. /\ Elsewhere(e, d, p) /\ d.s.n_panes = Larger(e.s.n_panes, p + 1)
        /\ d.s.holders[p] = e.s.holders[p] \cup {w} /\ d.s.a_worker[p] = w
    BY <1>10, <2>4, <2>7 DEF Sent, Joins, Elsewhere
  <2>10. QueuesInv(d, FALSE)
    BY <1>9, <2>2, <2>8, <2>9, TellKeeps
  <2>11. PaneInv(d.s, p)
    BY <1>4, <1>9, <2>9, WorkersAreNumbers DEF PaneInv, ActiveInv, Elsewhere
  <2> QED
    BY <1>8, <2>8, <2>9, <2>10, <2>11 DEF Serves
<1>12. CASE e.s.pane_size[p] # 0 /\ (~large \/ e.s.warmup)
  <2>1. PICK m : m = Regular(p, n)
    BY Zenon
  <2>2. m \in Message /\ m.type \in Naming /\ m.type # "NEW_INST" /\ m.pane_id = p
    BY <1>7, <2>1, MessagesSent DEF Regular, Naming
  <2>3. PICK v : v = e.s.a_worker[p]
    OBVIOUS
  <2>4. e.s.pane_size[p] > 0
    <3>1. e.s.pane_size[p] \in Nat
      BY DEF EmitterType, Sched
    <3> QED
      BY <1>12, <3>1
  <2>5. v \in e.s.holders[p] /\ v # NoWorker
    BY <1>9, <2>3, <2>4 DEF ActiveInv
  <2>6. v \in e.s.activated /\ v \in Worker
    BY <1>9, <2>5 DEF EmitterType, Sched
  <2>7. d = Send(c, v, m)
    BY <1>1, <1>6, <1>8, <1>12, <2>1, <2>3 DEF AD_sched_to_worker
  <2>8. Sent(c, d, {v}, m) /\ d.s = c.s
    BY <1>4, <2>2, <2>6, <2>7, SendEffect
  <2>9. /\ Sent(e, d, {v}, m) /\ d \in EmitterType /\ Elsewhere(e, d, p)
        /\ d.s.n_panes = Larger(e.s.n_panes, p + 1)
        /\ d.s.holders = e.s.holders /\ d.s.a_worker = e.s.a_worker
    BY <1>2, <2>8 DEF Counts, Sent, Elsewhere
  <2>10. QueuesInv(d, FALSE)
    BY <1>9, <2>2, <2>6, <2>9, TellKeeps
  <2>11. PaneInv(d.s, p)
    BY <1>9, <2>3, <2>5, <2>9 DEF PaneInv, ActiveInv, Elsewhere
  <2> QED
    BY <1>8, <2>9, <2>10, <2>11 DEF Serves
<1>13. CASE e.s.pane_size[p] # 0 /\ ~(~large \/ e.s.warmup) /\ w \in e.s.holders[p]
  <2>1. PICK m : m = Regular(p, n)
    BY Zenon
  <2>2. m \in Message /\ m.type \in Naming /\ m.type # "NEW_INST" /\ m.pane_id = p
    BY <1>7, <2>1, MessagesSent DEF Regular, Naming
  <2>3. d = Send(a, w, m)
    BY <1>1, <1>3, <1>6, <1>8, <1>13, <2>1 DEF AD_sched_to_worker
  <2>4. Sent(a, d, {w}, m) /\ d.s = a.s
    BY <1>4, <1>10, <2>2, <2>3, SendEffect
  <2>5. /\ Sent(e, d, {w}, m) /\ d \in EmitterType /\ Elsewhere(e, d, p)
        /\ d.s.n_panes = Larger(e.s.n_panes, p + 1)
        /\ d.s.holders = e.s.holders /\ d.s.a_worker[p] = w
    BY <1>10, <2>4 DEF Sent, Elsewhere
  <2>6. QueuesInv(d, FALSE)
    BY <1>9, <2>2, <2>5, TellKeeps
  <2>7. PaneInv(d.s, p)
    BY <1>4, <1>9, <1>13, <2>5, WorkersAreNumbers DEF PaneInv, ActiveInv, Elsewhere
  <2> QED
    BY <1>8, <2>5, <2>6, <2>7 DEF Serves
<1>14. CASE e.s.pane_size[p] # 0 /\ ~(~large \/ e.s.warmup) /\ w \notin e.s.holders[p]
  <2>1. d = Split(a, p, w, "REGULAR") /\ "REGULAR" \in Making
    BY <1>1, <1>3, <1>8, <1>14 DEF AD_sched_to_worker, Making
  <2>2. Splits(a, d, p, w)
    BY <1>4, <1>10, <2>1, SplitEffect
  <2>3. QueuesInv(a, FALSE) /\ w \in a.s.activated /\ a.s.holders[p] \subseteq a.s.activated
        /\ p >= a.s.next_pane_id /\ (iop => p = a.s.next_pane_id)
    BY <1>9, <1>10 DEF QueuesInv, HeldBy, Elsewhere
  <2>4. QueuesInv(d, FALSE)
    BY <1>10, <2>2, <2>3, SplitsKeep
  <2>5. /\ d \in EmitterType /\ Elsewhere(e, d, p)
        /\ d.s.n_panes = Larger(e.s.n_panes, p + 1)
        /\ d.s.holders[p] = e.s.holders[p] \cup {w} /\ d.s.a_worker[p] = w
    BY <1>10, <2>2 DEF Splits, Elsewhere
  <2>6. PaneInv(d.s, p)
    BY <1>4, <1>9, <2>5, WorkersAreNumbers DEF PaneInv, ActiveInv, Elsewhere
  <2> QED
    BY <1>8, <2>4, <2>5, <2>6 DEF Serves
<1> QED
  BY <1>11, <1>12, <1>13, <1>14

\* Adaptive_Sched replaces the active worker that leaves.
LEMMA ADRepairs ==
    ASSUME Adaptive, NEW e \in EmitterType, NEW p \in Pane, NEW W, Due(e, p, W),
           NEW w \in e.s.activated
    PROVE  LET d == AD_Repair(e, p, w)
           IN Serves(e, d, p, W) /\ d.s.n_panes = e.s.n_panes
<1>1. PICK d : d = AD_Repair(e, p, w)
  OBVIOUS
<1>2. PICK live : live = e.s.holders[p] \cap e.s.activated
  OBVIOUS
<1>3. PICK k : k = [e EXCEPT !.s.holders[p] = live]
  OBVIOUS
<1>4. PICK lost : lost = (live = {} \/ e.s.a_worker[p] \notin e.s.activated)
  OBVIOUS
<1>5. d = IF ~lost THEN k ELSE IF w \in live THEN Activate(k, p, w)
          ELSE Split(Activate(k, p, w), p, w, "EMPTYPANE")
  BY <1>1, <1>2, <1>3, <1>4 DEF AD_Repair, Live, ActiveLost
<1>6. live \in SUBSET Worker /\ w \in Worker
  BY <1>2 DEF EmitterType, Sched
<1>7. /\ k \in EmitterType /\ k.q = e.q /\ Elsewhere(e, k, p)
      /\ k.s.n_panes = e.s.n_panes /\ k.s.holders[p] = live
      /\ k.s.a_worker = e.s.a_worker /\ k.s.pane_size = e.s.pane_size
  BY <1>3, <1>6 DEF EmitterType, Sched, Elsewhere
<1>8. /\ QueuesInv(e, FALSE) /\ ActiveInv(e.s, p)
      /\ p >= e.s.next_pane_id /\ (iop => p = e.s.next_pane_id)
  BY DEF Due
<1>9. QueuesInv(k, FALSE)
  <2>1. \A v \in Worker : HeldBy(k.s, v) \subseteq HeldBy(e.s, v)
    BY <1>2, <1>7 DEF HeldBy, Elsewhere
  <2>2. /\ k.s.activated = e.s.activated /\ k.s.next_pane_id = e.s.next_pane_id
        /\ k.q = e.q
    BY <1>7 DEF Elsewhere
  <2> QED
    BY <1>8, <2>1, <2>2, FewerHeld DEF QueuesInv
<1>10. PICK a : a = Activate(k, p, w)
  OBVIOUS
<1>11. Activates(k, a, p, w)
  BY <1>6, <1>7, <1>10, ActivateEffect
<1>12. /\ a \in EmitterType /\ a.q = e.q /\ Elsewhere(e, a, p)
       /\ a.s.n_panes = e.s.n_panes /\ a.s.holders = k.s.holders
       /\ a.s.a_worker[p] = w
  BY <1>7, <1>11 DEF Activates, Elsewhere
<1>13. QueuesInv(a, FALSE)
  <2>1. /\ a.s.activated = k.s.activated /\ a.s.next_pane_id = k.s.next_pane_id
        /\ a.q = k.q /\ a.s.holders = k.s.holders
    BY <1>7, <1>12 DEF Elsewhere
  <2>2. \A v \in Worker : HeldBy(a.s, v) = HeldBy(k.s, v)
    BY <2>1 DEF HeldBy
  <2> QED
    BY ONLY <1>9, <2>1, <2>2 DEF QueuesInv
<1>14. CASE ~lost
  <2>1. d = k
    BY <1>5, <1>14
  <2>2. e.s.a_worker[p] \in e.s.activated
    BY <1>4, <1>14
  <2>3. PaneInv(k.s, p)
    BY <1>2, <1>7, <1>8, <2>2 DEF PaneInv, ActiveInv, Elsewhere
  <2> QED
    BY <1>1, <1>7, <1>9, <2>1, <2>3 DEF Serves
<1>15. CASE lost /\ w \in live
  <2>1. d = a
    BY <1>5, <1>10, <1>15
  <2>2. PaneInv(a.s, p)
    BY <1>2, <1>6, <1>7, <1>12, <1>15, WorkersAreNumbers DEF PaneInv, ActiveInv, Elsewhere
  <2> QED
    BY <1>1, <1>12, <1>13, <2>1, <2>2 DEF Serves
<1>16. CASE lost /\ w \notin live
  <2>1. d = Split(a, p, w, "EMPTYPANE") /\ "EMPTYPANE" \in Making
    BY <1>5, <1>10, <1>16 DEF Making
  <2>2. Splits(a, d, p, w)
    BY <1>6, <1>12, <2>1, SplitEffect
  <2>3. w \in a.s.activated /\ a.s.holders[p] \subseteq a.s.activated
        /\ p >= a.s.next_pane_id /\ (iop => p = a.s.next_pane_id)
    BY <1>2, <1>7, <1>8, <1>12 DEF Elsewhere
  <2>4. QueuesInv(d, FALSE)
    BY <1>12, <1>13, <2>2, <2>3, SplitsKeep
  <2>5. /\ d \in EmitterType /\ Elsewhere(e, d, p) /\ d.s.n_panes = e.s.n_panes
        /\ d.s.holders[p] = live \cup {w} /\ d.s.a_worker[p] = w
    BY <1>7, <1>12, <2>2 DEF Splits, Elsewhere
  <2>6. PaneInv(d.s, p)
    BY <1>2, <1>6, <2>5, WorkersAreNumbers DEF PaneInv, ActiveInv, Elsewhere
  <2> QED
    BY <1>1, <2>4, <2>5, <2>6 DEF Serves
<1> QED
  BY <1>14, <1>15, <1>16

\* A tuple of an open pane is scheduled.
LEMMA ScheduleServes ==
    ASSUME strategy \in {"PB_RR", "TB_RR", "ADAPTIVE"},
           NEW e \in EmitterType, e.s.activated # {}, NEW p \in Pane, Due(e, p, {}),
           NEW large, NEW llw, Adaptive => llw \in e.s.activated
    PROVE  LET d == sched_to_worker(e, p, large, llw)
           IN Serves(e, d, p, {}) /\ d.s.n_panes = Larger(e.s.n_panes, p + 1)
<1>1. CASE strategy = "PB_RR"
  <2>1. sched_to_worker(e, p, large, llw) = PB_sched_to_worker(e, p)
    BY <1>1 DEF sched_to_worker, Adaptive
  <2> QED
    BY <1>1, <2>1, PBServes
<1>2. CASE strategy = "TB_RR"
  <2>1. sched_to_worker(e, p, large, llw) = TB_sched_to_worker(e, p)
    BY <1>2 DEF sched_to_worker, Adaptive
  <2> QED
    BY <1>2, <2>1, TBServes
<1>3. CASE Adaptive
  <2>1. sched_to_worker(e, p, large, llw) = AD_sched_to_worker(e, p, large, llw)
    BY <1>3 DEF sched_to_worker, Adaptive
  <2> QED
    BY <1>3, <2>1, ADServes
<1> QED
  BY <1>1, <1>2, <1>3 DEF Adaptive

\* A pane is repaired.
LEMMA RepairServes ==
    ASSUME strategy \in {"PB_RR", "TB_RR", "ADAPTIVE"},
           NEW e \in EmitterType, e.s.activated # {}, NEW p \in Pane,
           NEW W, Due(e, p, W),
           NEW llw, Adaptive => llw \in e.s.activated
    PROVE  LET d == Repair(e, W, p, llw)
           IN Serves(e, d, p, W) /\ d.s.n_panes = e.s.n_panes
<1>1. CASE strategy = "PB_RR"
  <2>1. Repair(e, W, p, llw) = PB_Repair(e, W, p)
    BY <1>1 DEF Repair, Adaptive
  <2> QED
    BY <1>1, <2>1, PBRepairs
<1>2. CASE strategy = "TB_RR"
  <2>1. Repair(e, W, p, llw) = TB_Repair(e, W, p)
    BY <1>2 DEF Repair, Adaptive
  <2> QED
    BY <1>2, <2>1, TBRepairs
<1>3. CASE Adaptive
  <2>1. Repair(e, W, p, llw) = AD_Repair(e, p, llw)
    BY <1>3 DEF Repair, Adaptive
  <2> QED
    BY <1>3, <2>1, ADRepairs
<1> QED
  BY <1>1, <1>2, <1>3 DEF Adaptive

\* The emitter is in order after a tuple is scheduled.
LEMMA ScheduleKeeps ==
    ASSUME strategy \in {"PB_RR", "TB_RR", "ADAPTIVE"},
           NEW e, EmitterInv(e, FALSE), NEW p \in Pane,
           p >= e.s.next_pane_id, iop => p = e.s.next_pane_id,
           NEW large, NEW llw, Adaptive => llw \in e.s.activated
    PROVE  LET d == sched_to_worker(e, p, large, llw)
           IN EmitterInv(d, FALSE) /\ d.s.activated = e.s.activated
<1>1. PICK d : d = sched_to_worker(e, p, large, llw)
  OBVIOUS
<1>2. /\ e \in EmitterType /\ QueuesInv(e, FALSE) /\ SchedInv(e)
      /\ \A q \in Pane : q >= e.s.next_pane_id => PaneInv(e.s, q)
  BY DEF EmitterInv
<1>3. e.s.activated # {}
  BY <1>2 DEF SchedInv
<1>4. Due(e, p, {})
  BY <1>2 DEF Due, PaneInv
<1>5. Serves(e, d, p, {}) /\ d.s.n_panes = Larger(e.s.n_panes, p + 1)
  BY <1>1, <1>2, <1>3, <1>4, ScheduleServes
<1>6. /\ d \in EmitterType /\ Elsewhere(e, d, p)
      /\ QueuesInv(d, FALSE) /\ PaneInv(d.s, p)
  BY <1>4, <1>5 DEF Serves
<1>7. d.s.activated = e.s.activated /\ d.s.next_pane_id = e.s.next_pane_id
  BY <1>6 DEF Elsewhere
<1>8. p \in Nat /\ Pane \subseteq Nat /\ e.s.n_panes \in Nat /\ e.s.next_pane_id \in Nat
  <2>1. e.s.n_panes \in 0..(PaneOf(MaxTs) + 1) /\ e.s.next_pane_id \in Pane
    BY <1>2 DEF EmitterType, Sched
  <2>2. PICK k : k = e.s.n_panes
    OBVIOUS
  <2>3. k \in Nat
    BY ONLY <2>1, <2>2, WorkersAreNumbers
  <2> QED
    BY ONLY <2>1, <2>2, <2>3, p \in Pane, WorkersAreNumbers
<1>9. SchedInv(d)
  <2>1. ASSUME NEW q \in Pane, q >= d.s.n_panes
        PROVE  d.s.holders[q] = {} /\ d.s.pane_size[q] = 0 /\ d.s.a_worker[q] = NoWorker
    <3>1. q >= e.s.n_panes /\ q # p
      BY <1>5, <1>8, <2>1 DEF Larger
    <3>2. e.s.holders[q] = {} /\ e.s.pane_size[q] = 0 /\ e.s.a_worker[q] = NoWorker
      BY <1>2, <3>1 DEF SchedInv
    <3> QED
      BY <1>6, <3>1, <3>2 DEF Elsewhere
  <2>2. iop => d.s.n_panes <= d.s.next_pane_id + 1
    <3>1. iop => e.s.n_panes <= e.s.next_pane_id + 1
      BY <1>2 DEF SchedInv
    <3> QED
      BY <1>5, <1>7, <1>8, <3>1 DEF Larger
  <2>3. d.s.next_pane_id <= PaneOf(IF iop THEN d.last_timestamp ELSE d.last_P)
    BY <1>2, <1>6 DEF SchedInv, Elsewhere
  <2> QED
    BY <1>3, <1>7, <2>1, <2>2, <2>3 DEF SchedInv
<1>10. ASSUME NEW q \in Pane, q >= d.s.next_pane_id PROVE PaneInv(d.s, q)
  <2>1. CASE q = p
    BY <1>6, <2>1
  <2>2. CASE q # p
    <3>1. PaneInv(e.s, q)
      BY <1>2, <1>7, <1>10
    <3> QED
      BY <1>6, <1>7, <2>2, <3>1 DEF PaneInv, ActiveInv, Elsewhere
  <2> QED
    BY <2>1, <2>2
<1>11. EmitterInv(d, FALSE)
  BY <1>6, <1>9, <1>10 DEF EmitterInv
<1> QED
  BY <1>1, <1>7, <1>11

-----------------------------------------------------------------------------
(* The stream                                                              *)

\* The emitter has seen a punctuation, or a tuple, that is not older.
LEMMA LaterKeeps ==
    ASSUME NEW e, EmitterInv(e, FALSE), NEW d \in EmitterType,
           d.s = e.s, d.q = e.q,
           e.last_P <= d.last_P, e.last_timestamp <= d.last_timestamp
    PROVE  EmitterInv(d, FALSE)
<1>1. /\ e \in EmitterType /\ QueuesInv(e, FALSE) /\ SchedInv(e)
      /\ \A q \in Pane : q >= e.s.next_pane_id => PaneInv(e.s, q)
  BY DEF EmitterInv
<1>2. QueuesInv(d, FALSE)
  BY <1>1 DEF QueuesInv
<1>3. PICK next : next = e.s.next_pane_id
  OBVIOUS
<1>4. PICK a : a = IF iop THEN e.last_timestamp ELSE e.last_P
  OBVIOUS
<1>5. PICK b : b = IF iop THEN d.last_timestamp ELSE d.last_P
  OBVIOUS
<1>6. a \in Timestamp /\ b \in Timestamp /\ a <= b
  BY <1>1, <1>4, <1>5 DEF EmitterType
<1>7. next \in Nat /\ PaneOf(a) \in Nat /\ PaneOf(b) \in Nat /\ PaneOf(a) <= PaneOf(b)
  <2>1. next \in Pane
    BY <1>1, <1>3 DEF EmitterType, Sched
  <2> QED
    BY ONLY <1>6, <2>1, PanesInOrder, WorkersAreNumbers
<1>8. next <= PaneOf(a)
  BY <1>1, <1>3, <1>4 DEF SchedInv
<1>9. next <= PaneOf(b)
  BY ONLY <1>7, <1>8
<1>10. SchedInv(d)
  BY <1>1, <1>3, <1>5, <1>9 DEF SchedInv
<1> QED
  BY <1>1, <1>2, <1>10 DEF EmitterInv

\* Out of order: a punctuation, which may be broadcast.
LEMMA ProgressedKeeps ==
    ASSUME ~iop, NEW e, EmitterInv(e, FALSE),
           NEW punct \in Timestamp \cup {NoPunct}, NEW elapsed
    PROVE  LET d == Progressed(e, punct, elapsed)
           IN /\ EmitterInv(d, FALSE)
              /\ d.s.activated = e.s.activated
              /\ d.last_P >= e.last_P
<1>1. PICK l : l = Larger(e.last_P, punct)
  OBVIOUS
<1>2. PICK k : k = [e EXCEPT !.last_P = l]
  OBVIOUS
<1>3. e \in EmitterType /\ e.last_P \in Timestamp
  BY DEF EmitterInv, EmitterType
<1>4. l \in Timestamp /\ e.last_P <= l /\ (punct # NoPunct => punct <= l)
  <2>1. Timestamp \subseteq Nat /\ e.last_P \in Nat /\ punct \in Int
    BY <1>3, PLQAssumption DEF Timestamp, NoPunct
  <2>2. punct = NoPunct => ~(punct > e.last_P) /\ l = e.last_P
    BY <1>1, <2>1 DEF NoPunct, Larger
  <2> QED
    BY <1>1, <1>3, <2>1, <2>2 DEF Larger
<1>5. /\ k \in EmitterType /\ k.s = e.s /\ k.q = e.q /\ k.last_P = l
      /\ k.last_timestamp = e.last_timestamp
  BY <1>2, <1>3, <1>4 DEF EmitterType
<1>6. EmitterInv(k, FALSE)
  <2>1. e.last_timestamp <= k.last_timestamp
    <3>1. e.last_timestamp \in Nat
      BY <1>3, PLQAssumption DEF EmitterType, Timestamp
    <3> QED
      BY <1>5, <3>1
  <2> QED
    BY <1>4, <1>5, <2>1, LaterKeeps
<1>7. CASE punct # NoPunct /\ elapsed
  <2>1. PICK p : p = PaneOf(punct)
    OBVIOUS
  <2>2. p \in Pane /\ p <= PaneOf(l)
    <3>1. punct \in Timestamp
      BY <1>7
    <3> QED
      BY <1>4, <1>7, <2>1, <3>1, PanesInOrder
  <2>3. p <= PaneOf(IF iop THEN k.last_timestamp ELSE k.last_P)
    BY <1>5, <2>2
  <2>4. PICK d : d = executeStreamProgress(k, p)
    OBVIOUS
  <2>5. /\ EmitterInv(d, FALSE) /\ d.last_P = k.last_P /\ d.s.activated = k.s.activated
    BY <1>6, <2>2, <2>3, <2>4, ProgressKeeps
  <2>6. d = Progressed(e, punct, elapsed)
    BY <1>1, <1>2, <1>7, <2>1, <2>4 DEF Progressed
  <2>7. d.last_P >= e.last_P
    <3>1. l \in Nat /\ e.last_P \in Nat
      BY <1>3, <1>4, PLQAssumption DEF Timestamp
    <3> QED
      BY <1>4, <1>5, <2>5, <3>1
  <2> QED
    BY <1>5, <2>5, <2>6, <2>7
<1>8. CASE ~(punct # NoPunct /\ elapsed)
  <2>1. k = Progressed(e, punct, elapsed)
    BY <1>1, <1>2, <1>8 DEF Progressed
  <2>2. k.last_P >= e.last_P
    <3>1. l \in Nat /\ e.last_P \in Nat
      BY <1>3, <1>4, PLQAssumption DEF Timestamp
    <3> QED
      BY <1>4, <1>5, <3>1
  <2> QED
    BY <1>5, <1>6, <2>1, <2>2
<1> QED
  BY <1>7, <1>8

\* The warmup flag is nobody's business.
LEMMA WarmupKeeps ==
    ASSUME NEW e, EmitterInv(e, FALSE), NEW punct, NEW elapsed \in BOOLEAN
    PROVE  LET d == AdaptiveProgressed(e, punct, elapsed)
           IN /\ EmitterInv(d, FALSE)
              /\ d.s.activated = e.s.activated /\ d.last_P = e.last_P
<1>1. /\ e \in EmitterType /\ QueuesInv(e, FALSE) /\ SchedInv(e)
      /\ \A q \in Pane : q >= e.s.next_pane_id => PaneInv(e.s, q)
  BY DEF EmitterInv
<1>2. PICK b : b = (e.s.warmup /\ ~(punct # NoPunct /\ elapsed
                                      /\ PaneOf(punct) > WarmupPanes))
  OBVIOUS
<1>3. b \in BOOLEAN
  BY <1>1, <1>2 DEF EmitterType, Sched
<1>4. PICK d : d = [e EXCEPT !.s.warmup = b]
  OBVIOUS
<1>5. d = AdaptiveProgressed(e, punct, elapsed)
  BY <1>2, <1>4 DEF AdaptiveProgressed
<1>6. /\ d \in EmitterType /\ d.q = e.q
      /\ d.last_P = e.last_P /\ d.last_timestamp = e.last_timestamp
      /\ d.s.activated = e.s.activated /\ d.s.next_pane_id = e.s.next_pane_id
      /\ d.s.n_panes = e.s.n_panes /\ d.s.holders = e.s.holders
      /\ d.s.pane_size = e.s.pane_size /\ d.s.a_worker = e.s.a_worker
  BY <1>1, <1>3, <1>4 DEF EmitterType, Sched
<1>7. QueuesInv(d, FALSE)
  BY <1>1, <1>6 DEF QueuesInv, HeldBy
<1>8. SchedInv(d)
  BY <1>1, <1>6 DEF SchedInv
<1>9. \A q \in Pane : q >= d.s.next_pane_id => PaneInv(d.s, q)
  BY <1>1, <1>6 DEF PaneInv, ActiveInv
<1> QED
  BY <1>5, <1>6, <1>7, <1>8, <1>9 DEF EmitterInv

\* In order: the emitter takes a tuple.
LEMMA TupleKeeps ==
    ASSUME iop, strategy \in {"PB_RR", "TB_RR", "ADAPTIVE"}, ~Adaptive,
           NEW e, EmitterInv(e, FALSE), NEW ts \in Timestamp
    PROVE  EmitterInv(Take(e, ts), FALSE) /\ Take(e, ts).s.activated = e.s.activated
<1>1. CASE Late(e, ts)
  BY <1>1 DEF Take
<1>2. CASE ~Late(e, ts)
  <2>1. e \in EmitterType /\ e.last_timestamp \in Timestamp /\ Timestamp \subseteq Nat
    BY PLQAssumption DEF EmitterInv, EmitterType, Timestamp
  <2>2. e.last_timestamp <= ts
    <3>1. PICK l : l = e.last_timestamp
      OBVIOUS
    <3>2. ~(ts < l)
      BY <1>2, <3>1 DEF Late
    <3>3. l \in Nat /\ ts \in Nat
      BY ONLY <2>1, <3>1, ts \in Timestamp
    <3>4. l <= ts
      BY ONLY <3>2, <3>3
    <3> QED
      BY <3>1, <3>4
  <2>3. PICK k : k = [e EXCEPT !.last_timestamp = ts]
    OBVIOUS
  <2>4. /\ k \in EmitterType /\ k.s = e.s /\ k.q = e.q /\ k.last_P = e.last_P
        /\ k.last_timestamp = ts
    BY <2>1, <2>3 DEF EmitterType
  <2>5. EmitterInv(k, FALSE)
    <3>1. e.last_P <= k.last_P
      <4>1. e.last_P \in Nat
        BY <2>1, PLQAssumption DEF EmitterType, Timestamp
      <4> QED
        BY <2>4, <4>1
    <3> QED
      BY <2>2, <2>4, <3>1, LaterKeeps
  <2>6. PICK p : p = PaneOf(ts)
    OBVIOUS
  <2>7. p \in Pane /\ p \in Nat
    BY <2>6, PanesInOrder, WorkersAreNumbers
  <2>8. p <= PaneOf(IF iop THEN k.last_timestamp ELSE k.last_P)
    BY <2>4, <2>6, <2>7
  <2>9. PICK a : a = executeStreamProgress(k, p)
    OBVIOUS
  <2>10. /\ EmitterInv(a, FALSE) /\ a.s.activated = e.s.activated
         /\ a.s.next_pane_id = IF p < k.s.next_pane_id THEN k.s.next_pane_id ELSE p
    <3>1. /\ EmitterInv(a, FALSE) /\ a.s.activated = k.s.activated
          /\ a.s.next_pane_id = IF p < k.s.next_pane_id THEN k.s.next_pane_id ELSE p
      BY ONLY <2>5, <2>7, <2>8, <2>9, ProgressKeeps
    <3> QED
      BY <2>4, <3>1
  <2>11. k.s.next_pane_id <= p
    BY <2>4, <2>5, <2>6 DEF EmitterInv, SchedInv
  <2>12. a.s.next_pane_id = p
    <3>1. PICK next : next = k.s.next_pane_id
      OBVIOUS
    <3>2. next \in Nat
      BY <2>4, <3>1, WorkersAreNumbers DEF EmitterType, Sched
    <3> QED
      BY <2>7, <2>10, <2>11, <3>1, <3>2
  <2>13. PICK d : d = sched_to_worker(a, p, FALSE, NoWorker)
    OBVIOUS
  <2>14. p >= a.s.next_pane_id
    BY <2>7, <2>12
  <2>15. EmitterInv(d, FALSE) /\ d.s.activated = a.s.activated
    <3>1. EmitterInv(a, FALSE) /\ p \in Pane
      BY <2>7, <2>10
    <3>2. iop => p = a.s.next_pane_id
      BY <2>12
    <3>3. PICK large : large = FALSE
      OBVIOUS
    <3>4. PICK llw : llw = NoWorker
      OBVIOUS
    <3>5. Adaptive => llw \in a.s.activated
      OBVIOUS
    <3>6. d = sched_to_worker(a, p, large, llw)
      BY <2>13, <3>3, <3>4
    <3>7. LET s == sched_to_worker(a, p, large, llw)
          IN EmitterInv(s, FALSE) /\ s.s.activated = a.s.activated
      BY ONLY strategy \in {"PB_RR", "TB_RR", "ADAPTIVE"}, <2>14, <3>1, <3>2, <3>5,
              ScheduleKeeps
    <3> QED
      BY ONLY <3>6, <3>7
  <2>16. d = Take(e, ts)
    BY <1>2, <2>3, <2>6, <2>9, <2>13 DEF Take, Advanced
  <2> QED
    BY <2>10, <2>15, <2>16
<1> QED
  BY <1>1, <1>2

\* In order: the emitter takes tuples one after the other.
LEMMA TakenKeeps ==
    ASSUME strategy \in {"PB_RR", "TB_RR", "ADAPTIVE"}, Adaptive => ~iop,
           EmitterInv(Emitter, FALSE),
           NEW x \in Seq(Timestamp), iop \/ x = <<>>
    PROVE  EmitterInv(Taken(x), FALSE) /\ Taken(x).s.activated = sched.activated
<1> DEFINE n == Len(x)
           Y == {d \in EmitterType : EmitterInv(d, FALSE) /\ d.s.activated = sched.activated}
           F == [u \in Y \X (1..n) |-> Take(u[1], x[u[2]])]
<1>1. n \in Nat /\ DOMAIN x = 1..n /\ \A i \in 1..n : x[i] \in Timestamp
  OBVIOUS
<1>2. PICK e : e = Emitter
  OBVIOUS
<1>3. e \in Y
  <2>1. e.s.activated = sched.activated
    BY <1>2 DEF Emitter
  <2> QED
    BY <1>2, <2>1 DEF EmitterInv
<1>4. ASSUME NEW d \in Y, NEW i \in 1..n PROVE Take(d, x[i]) \in Y
  <2>1. EmitterInv(d, FALSE) /\ d.s.activated = sched.activated
    OBVIOUS
  <2>2. iop /\ ~Adaptive
    BY <1>1
  <2>3. PICK ts \in Timestamp : ts = x[i]
    BY <1>1
  <2>4. PICK f : f = Take(d, ts)
    OBVIOUS
  <2>5. EmitterInv(f, FALSE) /\ f.s.activated = d.s.activated
    BY <2>1, <2>2, <2>4, TupleKeeps
  <2>6. f \in Y
    BY <2>1, <2>5 DEF EmitterInv
  <2> QED
    BY <2>3, <2>4, <2>6
<1> HIDE DEF Y, n
<1>5. F \in [Y \X (1..n) -> Y]
  BY <1>4
<1> HIDE DEF F
<1>6. PICK h \in [SUBSET (1..n) -> Y] : FoldValues(h, F, e, n)
  BY <1>1, <1>3, <1>5, FoldExists
<1>7. h = [t \in SUBSET (1..n) |->
             IF t = {} THEN e ELSE Take(h[t \ {Max(t)}], x[Max(t)])]
  <2>1. ASSUME NEW t \in SUBSET (1..n), t # {}
        PROVE  F[<<h[t \ {Max(t)}], Max(t)>>] = Take(h[t \ {Max(t)}], x[Max(t)])
    <3>1. t \in SUBSET (0..n)
      OBVIOUS
    <3>2. Max(t) \in 1..n
      BY <1>1, <2>1, <3>1, GreatestElement
    <3>3. PICK a : a = Max(t)
      OBVIOUS
    <3>4. PICK d : d = h[t \ {a}]
      OBVIOUS
    <3>5. d \in Y /\ a \in 1..n
      BY <3>2, <3>3, <3>4
    <3>6. F[<<d, a>>] = Take(d, x[a])
      BY <3>5 DEF F
    <3> QED
      BY <3>3, <3>4, <3>6
  <2> QED
    BY <1>6, <2>1 DEF FoldValues
<1>8. PICK g : g = CHOOSE f : f = [t \in SUBSET (1..n) |->
                  IF t = {} THEN e ELSE Take(f[t \ {Max(t)}], x[Max(t)])]
  OBVIOUS
<1>9. g = [t \in SUBSET (1..n) |->
             IF t = {} THEN e ELSE Take(g[t \ {Max(t)}], x[Max(t)])]
  BY <1>7, <1>8
<1>10. Taken(x) = g[1..n]
  BY <1>1, <1>2, <1>8 DEF Taken, FoldLeft, MapThenFoldSet
<1>11. g[1..n] \in Y
  <2> DEFINE Z == [k \in 0..n |-> Y]
  <2>1. g[{}] \in Z[0]
    BY <1>1, <1>3, <1>9
  <2>2. ASSUME NEW k \in 1..n, g[1..(k - 1)] \in Z[k - 1] PROVE g[1..k] \in Z[k]
    <3>1. g[1..(k - 1)] \in Y
      BY <1>1, <2>2
    <3>2. /\ 1..k \in SUBSET (1..n) /\ 1..k # {}
          /\ Max(1..k) = k /\ (1..k) \ {k} = 1..(k - 1)
      BY <1>1, Segments
    <3>3. g[1..k] = Take(g[1..(k - 1)], x[k])
      BY <1>9, <3>2
    <3>4. Take(g[1..(k - 1)], x[k]) \in Y
      BY <1>4, <3>1
    <3> QED
      BY <1>1, <3>3, <3>4
  <2> HIDE DEF Z
  <2>3. g[1..n] \in Z[n]
    BY <1>1, <2>1, <2>2, SegmentsInduction
  <2> QED
    BY <1>1, <2>3 DEF Z
<1> QED
  BY <1>10, <1>11 DEF Y

-----------------------------------------------------------------------------
(* Reconfigurations and the end of the stream                              *)

\* Workers are removed: the panes that they hold are not repaired yet.
Retired(d, W) ==
    /\ d \in EmitterType /\ QueuesInv(d, FALSE)
    /\ d.s.activated = sched.activated \ W /\ d.s.activated # {}
    /\ d.s.next_pane_id = sched.next_pane_id /\ d.s.n_panes = sched.n_panes
    /\ d.last_P = last_P /\ d.last_timestamp = last_timestamp
    /\ \A p \in Pane : p >= sched.n_panes =>
          d.s.holders[p] = {} /\ d.s.pane_size[p] = 0 /\ d.s.a_worker[p] = NoWorker
    /\ \A p \in Pane : p >= sched.next_pane_id =>
          d.s.holders[p] \subseteq d.s.activated \cup W /\ ActiveInv(d.s, p)

\* Removed tells the workers W that they are not activated any more.
LEMMA RemovedEffect ==
    ASSUME EmitterInv(Emitter, FALSE), NEW W \in SUBSET Worker, CanRemove(W)
    PROVE  LET d == Removed(W)
           IN /\ d \in EmitterType
              /\ \A w \in Worker :
                    d.q[w] = IF w \in W
                             THEN Append(Append(queue[w], FLUSH(sched.next_pane_id)), GO_OUT)
                             ELSE queue[w]
              /\ d.last_P = last_P /\ d.last_timestamp = last_timestamp
              /\ W \subseteq sched.activated
              /\ d.s.activated = sched.activated \ W /\ d.s.activated # {}
              /\ d.s.next_pane_id = sched.next_pane_id /\ d.s.n_panes = sched.n_panes
              /\ d.s.holders = sched.holders /\ d.s.pane_size = sched.pane_size
              /\ d.s.a_worker = sched.a_worker /\ d.s.p_instances = sched.p_instances
<1>1. PICK e : e = Emitter
  OBVIOUS
<1>2. /\ e \in EmitterType /\ QueuesInv(e, FALSE) /\ SchedInv(e)
      /\ \A q \in Pane : q >= e.s.next_pane_id => PaneInv(e.s, q)
  BY <1>1 DEF EmitterInv
<1>3. /\ e.s = sched /\ e.q = queue
      /\ e.last_P = last_P /\ e.last_timestamp = last_timestamp
  BY <1>1 DEF Emitter
<1>4. PICK k : k = Cardinality(W)
  OBVIOUS
<1>5. k \in Int
  <2>1. IsFiniteSet(Worker)
    BY FS_Interval, PLQAssumption DEF Worker
  <2> QED
    BY <1>4, <2>1, FS_Subset, FS_CardinalityType
<1>6. PICK A : A = e.s.activated \ W
  OBVIOUS
<1>7. A \in SUBSET Worker /\ A # {} /\ W \subseteq e.s.activated
  BY <1>2, <1>3, <1>6 DEF CanRemove, EmitterType, Sched
<1>8. PICK t : t = [e EXCEPT !.s.nw_plq = @ - k]
  OBVIOUS
<1>9. /\ t \in EmitterType /\ t.q = e.q
      /\ t.last_P = e.last_P /\ t.last_timestamp = e.last_timestamp
      /\ t.s.activated = e.s.activated /\ t.s.next_pane_id = e.s.next_pane_id
      /\ t.s.n_panes = e.s.n_panes /\ t.s.holders = e.s.holders
      /\ t.s.pane_size = e.s.pane_size /\ t.s.a_worker = e.s.a_worker
      /\ t.s.p_instances = e.s.p_instances
  <2>1. PICK z : z = e.s.nw_plq - k
    OBVIOUS
  <2>2. z \in Int
    BY <1>2, <1>5, <2>1 DEF EmitterType, Sched
  <2>3. t = [e EXCEPT !.s.nw_plq = z]
    BY <1>8, <2>1
  <2> QED
    BY <1>2, <2>2, <2>3 DEF EmitterType, Sched
<1>10. PICK u : u = [t EXCEPT !.s.activated = A]
  OBVIOUS
<1>11. /\ u \in EmitterType /\ u.q = t.q
       /\ u.last_P = t.last_P /\ u.last_timestamp = t.last_timestamp
       /\ u.s.activated = A /\ u.s.next_pane_id = t.s.next_pane_id
       /\ u.s.n_panes = t.s.n_panes /\ u.s.holders = t.s.holders
       /\ u.s.pane_size = t.s.pane_size /\ u.s.a_worker = t.s.a_worker
       /\ u.s.p_instances = t.s.p_instances
  BY <1>7, <1>9, <1>10 DEF EmitterType, Sched
<1>12. PICK next : next = e.s.next_pane_id
  OBVIOUS
<1>13. next \in Pane /\ u.s.next_pane_id = next
  BY <1>2, <1>9, <1>11, <1>12 DEF EmitterType, Sched
<1>14. PICK a : a = FLUSH(next)
  OBVIOUS
<1>15. a \in Message /\ GO_OUT \in Message
  BY <1>13, <1>14, MessagesSent
<1>16. PICK v : v = Multicast(u, W, a)
  OBVIOUS
<1>17. Sent(u, v, W, a) /\ v.s = u.s
  BY <1>11, <1>15, <1>16, MulticastEffect
<1>18. v \in EmitterType
  BY <1>17 DEF Sent
<1>19. PICK d : d = Multicast(v, W, GO_OUT)
  OBVIOUS
<1>20. Sent(v, d, W, GO_OUT) /\ d.s = v.s
  BY <1>15, <1>18, <1>19, MulticastEffect
<1>21. d = Removed(W)
  <2>1. u = [e EXCEPT !.s.nw_plq = @ - Cardinality(W), !.s.activated = @ \ W]
    BY <1>4, <1>6, <1>8, <1>9, <1>10
  <2> QED
    BY <1>1, <1>13, <1>14, <1>16, <1>19, <2>1 DEF Removed, Retire
<1>22. /\ d \in EmitterType
       /\ \A w \in Worker : d.q[w] = IF w \in W THEN Append(Append(e.q[w], FLUSH(next)), GO_OUT)
                                    ELSE e.q[w]
       /\ d.last_P = e.last_P /\ d.last_timestamp = e.last_timestamp
  BY <1>9, <1>11, <1>14, <1>17, <1>20 DEF Sent
<1>23. /\ d.s.activated = A /\ d.s.next_pane_id = next
       /\ d.s.n_panes = e.s.n_panes /\ d.s.holders = e.s.holders
       /\ d.s.pane_size = e.s.pane_size /\ d.s.a_worker = e.s.a_worker
       /\ d.s.p_instances = e.s.p_instances
  BY <1>9, <1>11, <1>13, <1>17, <1>20
<1> QED
  BY <1>3, <1>6, <1>7, <1>12, <1>21, <1>22, <1>23

\* What Removed does before the panes are repaired.
LEMMA RemovedRetires ==
    ASSUME EmitterInv(Emitter, FALSE), NEW W \in SUBSET Worker, CanRemove(W)
    PROVE  Retired(Removed(W), W)
<1>1. PICK e : e = Emitter
  OBVIOUS
<1>2. /\ e \in EmitterType /\ QueuesInv(e, FALSE) /\ SchedInv(e)
      /\ \A q \in Pane : q >= e.s.next_pane_id => PaneInv(e.s, q)
  BY <1>1 DEF EmitterInv
<1>3. /\ e.s = sched /\ e.q = queue
      /\ e.last_P = last_P /\ e.last_timestamp = last_timestamp
  BY <1>1 DEF Emitter
<1>4. PICK A : A = e.s.activated \ W
  OBVIOUS
<1>5. PICK next : next = e.s.next_pane_id
  OBVIOUS
<1>6. next \in Pane
  BY <1>2, <1>5 DEF EmitterType, Sched
<1>7. PICK d : d = Removed(W)
  OBVIOUS
<1>8. /\ d \in EmitterType
      /\ \A w \in Worker : d.q[w] = IF w \in W THEN Append(Append(e.q[w], FLUSH(next)), GO_OUT)
                                   ELSE e.q[w]
      /\ d.last_P = e.last_P /\ d.last_timestamp = e.last_timestamp
      /\ W \subseteq e.s.activated /\ A # {}
      /\ d.s.activated = A /\ d.s.next_pane_id = next
      /\ d.s.n_panes = e.s.n_panes /\ d.s.holders = e.s.holders
      /\ d.s.pane_size = e.s.pane_size /\ d.s.a_worker = e.s.a_worker
  BY <1>3, <1>4, <1>5, <1>7, RemovedEffect
<1>9. QueuesInv(d, FALSE)
  <2> SUFFICES ASSUME NEW w \in Worker
               PROVE  /\ DOMAIN paneSet[w] \subseteq Pane
                      /\ Phase(status[w], DOMAIN paneSet[w], d.q[w], FALSE, w \in d.s.activated)
                      /\ OnTheWay(DOMAIN paneSet[w], d.q[w], d.s.next_pane_id, HeldBy(d.s, w))
    BY DEF QueuesInv
  <2>1. PICK x : x = e.q[w]
    OBVIOUS
  <2>2. PICK D : D = DOMAIN paneSet[w]
    OBVIOUS
  <2>3. PICK held : held = HeldBy(e.s, w)
    OBVIOUS
  <2>4. PICK st : st = status[w]
    OBVIOUS
  <2>5. x \in Seq(Message) /\ held \in SUBSET Pane
    BY <1>2, <2>1, <2>3 DEF EmitterType, HeldBy
  <2>6. /\ D \in SUBSET Pane
        /\ Phase(st, D, x, FALSE, w \in e.s.activated)
        /\ OnTheWay(D, x, next, held)
    BY <1>2, <1>5, <2>1, <2>2, <2>3, <2>4 DEF QueuesInv
  <2>7. CASE w \in W
    <3>1. w \in e.s.activated /\ w \notin A
      BY <1>4, <1>8, <2>7
    <3>2. Phase(st, D, x, FALSE, TRUE)
      BY <2>6, <3>1
    <3>3. PICK y : y = Append(Append(x, FLUSH(next)), GO_OUT)
      OBVIOUS
    <3>4. Phase(st, D, y, FALSE, FALSE) /\ OnTheWay(D, y, next, {})
      BY ONLY <1>6, <2>5, <2>6, <3>2, <3>3, RetireKeeps
    <3>5. d.q[w] = y /\ HeldBy(d.s, w) = {}
      BY <1>8, <2>1, <2>7, <3>1, <3>3 DEF HeldBy
    <3>6. (w \in d.s.activated) = FALSE
      BY <1>8, <3>1
    <3> QED
      BY <1>8, <2>2, <2>4, <2>6, <3>4, <3>5, <3>6
  <2>8. CASE w \notin W
    <3>1. /\ w \in A <=> w \in e.s.activated
          /\ d.q[w] = x /\ HeldBy(d.s, w) = held
      BY <1>4, <1>5, <1>8, <2>1, <2>3, <2>8 DEF HeldBy
    <3>2. (w \in A) = (w \in e.s.activated)
      BY <3>1
    <3> QED
      BY <1>8, <2>2, <2>4, <2>6, <3>1, <3>2
  <2> QED
    BY <2>7, <2>8
<1>10. ASSUME NEW p \in Pane, p >= sched.next_pane_id
       PROVE  d.s.holders[p] \subseteq d.s.activated \cup W /\ ActiveInv(d.s, p)
  <2>1. PaneInv(e.s, p)
    BY <1>2, <1>3, <1>10
  <2> QED
    BY <1>4, <1>8, <2>1 DEF PaneInv, ActiveInv
<1>11. \A p \in Pane : p >= sched.n_panes =>
          d.s.holders[p] = {} /\ d.s.pane_size[p] = 0 /\ d.s.a_worker[p] = NoWorker
  BY <1>2, <1>3, <1>8 DEF SchedInv
<1> QED
  BY <1>3, <1>4, <1>5, <1>7, <1>8, <1>9, <1>10, <1>11 DEF Retired

\* A pane is repaired: the other ones are as they were.
LEMMA RepairKeeps ==
    ASSUME strategy \in {"PB_RR", "TB_RR", "ADAPTIVE"},
           NEW W, NEW d, Retired(d, W), NEW p \in Pane,
           p >= sched.next_pane_id, p < sched.n_panes, iop => p = sched.next_pane_id,
           NEW llw, Adaptive => llw \in sched.activated \ W
    PROVE  LET f == Repair(d, W, p, llw)
           IN /\ Retired(f, W) /\ PaneInv(f.s, p)
              /\ \A q \in Pane : q # p /\ PaneInv(d.s, q) => PaneInv(f.s, q)
<1>1. PICK f : f = Repair(d, W, p, llw)
  OBVIOUS
<1>2. /\ d \in EmitterType /\ QueuesInv(d, FALSE)
      /\ d.s.activated = sched.activated \ W /\ d.s.activated # {}
      /\ d.s.next_pane_id = sched.next_pane_id /\ d.s.n_panes = sched.n_panes
      /\ d.last_P = last_P /\ d.last_timestamp = last_timestamp
      /\ d.s.holders[p] \subseteq d.s.activated \cup W /\ ActiveInv(d.s, p)
  BY DEF Retired
<1>3. Due(d, p, W) /\ (Adaptive => llw \in d.s.activated)
  BY <1>2 DEF Due
<1>4. Serves(d, f, p, W) /\ f.s.n_panes = d.s.n_panes
  BY <1>1, <1>2, <1>3, RepairServes
<1>5. f \in EmitterType /\ Elsewhere(d, f, p) /\ QueuesInv(f, FALSE) /\ PaneInv(f.s, p)
  BY <1>3, <1>4 DEF Serves
<1>6. /\ f.s.activated = d.s.activated /\ f.s.next_pane_id = d.s.next_pane_id
      /\ f.last_P = d.last_P /\ f.last_timestamp = d.last_timestamp
      /\ \A q \in Pane \ {p} : /\ f.s.holders[q] = d.s.holders[q]
                               /\ f.s.pane_size[q] = d.s.pane_size[q]
                               /\ f.s.a_worker[q] = d.s.a_worker[q]
  BY <1>5 DEF Elsewhere
<1>7. ASSUME NEW q \in Pane, q >= sched.n_panes
      PROVE  f.s.holders[q] = {} /\ f.s.pane_size[q] = 0 /\ f.s.a_worker[q] = NoWorker
  <2>1. PICK n : n = sched.n_panes
    OBVIOUS
  <2>2. n \in Int /\ p < n /\ q >= n /\ p \in Nat /\ q \in Nat
    BY <1>2, <1>7, <2>1, WorkersAreNumbers DEF EmitterType, Sched
  <2>3. q # p
    BY ONLY <2>2
  <2>4. d.s.holders[q] = {} /\ d.s.pane_size[q] = 0 /\ d.s.a_worker[q] = NoWorker
    BY <1>7 DEF Retired
  <2> QED
    BY <1>6, <2>3, <2>4
<1>8. ASSUME NEW q \in Pane, q >= sched.next_pane_id
      PROVE  f.s.holders[q] \subseteq f.s.activated \cup W /\ ActiveInv(f.s, q)
  <2>1. CASE q = p
    BY <1>5, <2>1 DEF PaneInv
  <2>2. CASE q # p
    <3>1. d.s.holders[q] \subseteq d.s.activated \cup W /\ ActiveInv(d.s, q)
      BY <1>8 DEF Retired
    <3> QED
      BY <1>6, <2>2, <3>1 DEF ActiveInv
  <2> QED
    BY <2>1, <2>2
<1>9. Retired(f, W)
  BY <1>2, <1>4, <1>5, <1>6, <1>7, <1>8 DEF Retired
<1>10. \A q \in Pane : q # p /\ PaneInv(d.s, q) => PaneInv(f.s, q)
  BY <1>6 DEF PaneInv, ActiveInv
<1> QED
  BY <1>1, <1>5, <1>9, <1>10

\* The panes that are not closed are repaired one after the other.
LEMMA RepairedKeeps ==
    ASSUME strategy \in {"PB_RR", "TB_RR", "ADAPTIVE"},
           EmitterInv(Emitter, FALSE), NEW W \in SUBSET Worker, CanRemove(W),
           NEW llw, \A p \in Pane : Adaptive => llw[p] \in sched.activated \ W
    PROVE  EmitterInv(Repaired(W, llw), FALSE)
<1> DEFINE next == sched.next_pane_id
           np == sched.n_panes
           n == IF np > next THEN np - next ELSE 0
           x == OpenPanes(sched)
           Y == {d \in EmitterType : Retired(d, W)}
           F == [u \in Y \X (1..n) |-> Repair(u[1], W, x[u[2]], llw[x[u[2]]])]
<1>1. /\ SchedInv(Emitter) /\ next \in Pane /\ next \in Nat
      /\ np \in 0..(PaneOf(MaxTs) + 1) /\ np \in Nat
  <2>1. SchedInv(Emitter) /\ Emitter \in EmitterType
    BY DEF EmitterInv
  <2>2. next \in Pane /\ np \in 0..(PaneOf(MaxTs) + 1)
    BY <2>1 DEF Emitter, EmitterType, Sched
  <2>3. PICK k : k = np
    OBVIOUS
  <2>4. k \in Nat
    BY ONLY <2>2, <2>3, WorkersAreNumbers
  <2> QED
    BY <2>1, <2>2, <2>3, <2>4, WorkersAreNumbers
<1>2. n \in Nat /\ DOMAIN x = 1..n
  <2>1. x = [i \in 1..((np - 1) - next + 1) |-> next + i - 1]
    BY DEF OpenPanes, PanesFrom
  <2>2. PICK k : k = np
    OBVIOUS
  <2>3. PICK l : l = next
    OBVIOUS
  <2>4. k \in Nat /\ l \in Nat
    BY <1>1, <2>2, <2>3
  <2>5. 1..((k - 1) - l + 1) = 1..(IF k > l THEN k - l ELSE 0)
    BY ONLY <2>4
  <2>6. (IF k > l THEN k - l ELSE 0) \in Nat
    BY ONLY <2>4
  <2> QED
    BY <2>1, <2>2, <2>3, <2>5, <2>6
<1>3. ASSUME NEW i \in 1..n
      PROVE  /\ x[i] = next + i - 1 /\ x[i] \in Pane
             /\ x[i] >= next /\ x[i] < np /\ (iop => x[i] = next)
  <2>1. x[i] = next + i - 1
    BY <1>2 DEF OpenPanes, PanesFrom
  <2>2. PICK k : k = np
    OBVIOUS
  <2>3. PICK l : l = next
    OBVIOUS
  <2>4. PICK z : z = PaneOf(MaxTs)
    OBVIOUS
  <2>5. k \in 0..(z + 1) /\ l \in Nat /\ z \in Nat /\ Pane = 0..z
    BY <1>1, <2>2, <2>3, <2>4, WorkersAreNumbers DEF Pane
  <2>6. i \in 1..(IF k > l THEN k - l ELSE 0)
    BY <2>2, <2>3
  <2>7. l + i - 1 \in 0..z /\ l + i - 1 >= l /\ l + i - 1 < k
    BY ONLY <2>5, <2>6
  <2>8. iop => k <= l + 1
    BY <1>1, <2>2, <2>3 DEF SchedInv, Emitter
  <2>9. iop => l + i - 1 = l
    BY ONLY <2>5, <2>6, <2>8
  <2> QED
    BY ONLY <2>1, <2>2, <2>3, <2>5, <2>7, <2>9
<1>4. PICK e : e = Removed(W)
  OBVIOUS
<1>5. e \in Y
  <2>1. Retired(e, W)
    BY <1>4, RemovedRetires
  <2> QED
    BY <2>1 DEF Retired
<1> HIDE DEF x, n
<1>6. ASSUME NEW d \in Y, NEW i \in 1..n
      PROVE  LET f == Repair(d, W, x[i], llw[x[i]])
             IN /\ f \in Y /\ PaneInv(f.s, x[i])
                /\ \A q \in Pane : q # x[i] /\ PaneInv(d.s, q) => PaneInv(f.s, q)
  <2>1. Retired(d, W)
    OBVIOUS
  <2>2. PICK p \in Pane : p = x[i]
    BY <1>3
  <2>3. p >= sched.next_pane_id /\ p < sched.n_panes /\ (iop => p = sched.next_pane_id)
    BY <1>3, <2>2
  <2>4. PICK l : l = llw[p]
    OBVIOUS
  <2>5. Adaptive => l \in sched.activated \ W
    BY <2>4
  <2>6. PICK f : f = Repair(d, W, p, l)
    OBVIOUS
  <2>7. /\ Retired(f, W) /\ PaneInv(f.s, p)
        /\ \A q \in Pane : q # p /\ PaneInv(d.s, q) => PaneInv(f.s, q)
    BY <2>1, <2>3, <2>5, <2>6, RepairKeeps
  <2>8. f \in Y
    BY <2>7 DEF Retired
  <2> QED
    BY <2>2, <2>4, <2>6, <2>7, <2>8
<1> HIDE DEF Y
<1>7. F \in [Y \X (1..n) -> Y]
  BY <1>6
<1> HIDE DEF F
<1>8. PICK h \in [SUBSET (1..n) -> Y] : FoldValues(h, F, e, n)
  BY <1>2, <1>5, <1>7, FoldExists
<1>9. h = [t \in SUBSET (1..n) |->
             IF t = {} THEN e ELSE Repair(h[t \ {Max(t)}], W, x[Max(t)], llw[x[Max(t)]])]
  <2>1. ASSUME NEW t \in SUBSET (1..n), t # {}
        PROVE  F[<<h[t \ {Max(t)}], Max(t)>>]
                  = Repair(h[t \ {Max(t)}], W, x[Max(t)], llw[x[Max(t)]])
    <3>1. t \in SUBSET (0..n)
      OBVIOUS
    <3>2. Max(t) \in 1..n
      BY <1>2, <2>1, <3>1, GreatestElement
    <3>3. PICK a : a = Max(t)
      OBVIOUS
    <3>4. PICK d : d = h[t \ {a}]
      OBVIOUS
    <3>5. d \in Y /\ a \in 1..n
      BY <3>2, <3>3, <3>4
    <3>6. F[<<d, a>>] = Repair(d, W, x[a], llw[x[a]])
      BY <3>5 DEF F
    <3> QED
      BY <3>3, <3>4, <3>6
  <2> QED
    BY <1>8, <2>1 DEF FoldValues
<1>10. PICK g : g = CHOOSE f : f = [t \in SUBSET (1..n) |->
             IF t = {} THEN e ELSE Repair(f[t \ {Max(t)}], W, x[Max(t)], llw[x[Max(t)]])]
  OBVIOUS
<1>11. g = [t \in SUBSET (1..n) |->
             IF t = {} THEN e ELSE Repair(g[t \ {Max(t)}], W, x[Max(t)], llw[x[Max(t)]])]
  BY <1>9, <1>10
<1>12. Repaired(W, llw) = g[1..n]
  BY <1>2, <1>4, <1>10 DEF Repaired, FoldLeft, MapThenFoldSet, x
<1> DEFINE Z == [k \in 0..n |-> {d \in Y : \A i \in 1..k : PaneInv(d.s, x[i])}]
<1>13. g[1..n] \in Z[n]
  <2>1. g[{}] \in Z[0]
    BY <1>2, <1>5, <1>11
  <2>2. ASSUME NEW k \in 1..n, g[1..(k - 1)] \in Z[k - 1] PROVE g[1..k] \in Z[k]
    <3>1. PICK d : d = g[1..(k - 1)]
      OBVIOUS
    <3>2. d \in Y /\ \A i \in 1..(k - 1) : PaneInv(d.s, x[i])
      BY <1>2, <2>2, <3>1
    <3>3. /\ 1..k \in SUBSET (1..n) /\ 1..k # {}
          /\ Max(1..k) = k /\ (1..k) \ {k} = 1..(k - 1)
      BY <1>2, Segments
    <3>4. PICK f : f = Repair(d, W, x[k], llw[x[k]])
      OBVIOUS
    <3>5. g[1..k] = f
      BY <1>11, <3>1, <3>3, <3>4
    <3>6. /\ f \in Y /\ PaneInv(f.s, x[k])
          /\ \A q \in Pane : q # x[k] /\ PaneInv(d.s, q) => PaneInv(f.s, q)
      BY <1>6, <3>2, <3>4
    <3>7. ASSUME NEW i \in 1..k PROVE PaneInv(f.s, x[i])
      <4>1. CASE i = k
        BY <3>6, <4>1
      <4>2. CASE i # k
        <5>1. i \in 1..(k - 1) /\ i \in 1..n
          BY <1>2, <4>2
        <5>2. x[i] = next + i - 1 /\ x[k] = next + k - 1 /\ x[i] \in Pane
          BY <1>3, <5>1
        <5>3. x[i] # x[k]
          BY <1>1, <4>2, <5>1, <5>2
        <5> QED
          BY <3>2, <3>6, <5>1, <5>2, <5>3
      <4> QED
        BY <4>1, <4>2
    <3> QED
      BY <1>2, <3>5, <3>6, <3>7
  <2> HIDE DEF Z
  <2> QED
    BY <1>2, <2>1, <2>2, SegmentsInduction
<1>14. PICK d : d = g[1..n]
  OBVIOUS
<1>15. d \in Y /\ \A i \in 1..n : PaneInv(d.s, x[i])
  BY <1>2, <1>13, <1>14
<1>16. Retired(d, W)
  BY <1>15 DEF Y
<1>17. /\ d \in EmitterType /\ QueuesInv(d, FALSE)
       /\ d.s.activated # {}
       /\ d.s.next_pane_id = next /\ d.s.n_panes = np
       /\ d.last_P = last_P /\ d.last_timestamp = last_timestamp
       /\ \A p \in Pane : p >= np =>
             d.s.holders[p] = {} /\ d.s.pane_size[p] = 0 /\ d.s.a_worker[p] = NoWorker
       /\ \A p \in Pane : p >= next => ActiveInv(d.s, p)
  BY <1>16 DEF Retired
<1>18. SchedInv(d)
  BY <1>1, <1>17 DEF SchedInv, Emitter
<1>19. ASSUME NEW p \in Pane, p >= next PROVE PaneInv(d.s, p)
  <2>1. CASE p >= np
    BY <1>17, <1>19, <2>1 DEF PaneInv
  <2>2. CASE ~(p >= np)
    <3>1. PICK k : k = np
      OBVIOUS
    <3>2. PICK l : l = next
      OBVIOUS
    <3>3. k \in Nat /\ l \in Nat /\ p \in Nat /\ p >= l /\ ~(p >= k)
      BY <1>1, <1>19, <2>2, <3>1, <3>2, WorkersAreNumbers
    <3>4. PICK i : i = p - l + 1
      OBVIOUS
    <3>5. i \in 1..(IF k > l THEN k - l ELSE 0) /\ p = l + i - 1
      BY ONLY <3>3, <3>4
    <3>6. i \in 1..n
      BY <3>1, <3>2, <3>5 DEF n
    <3>7. x[i] = p
      BY <1>3, <3>2, <3>5, <3>6
    <3> QED
      BY <1>15, <3>6, <3>7
  <2> QED
    BY <2>1, <2>2
<1>20. EmitterInv(d, FALSE)
  BY <1>17, <1>18, <1>19 DEF EmitterInv
<1> QED
  BY <1>12, <1>14, <1>20

-----------------------------------------------------------------------------
(* The slack                                                               *)

Slack(k) == k \in KSlackType /\ k.K <= k.tcurr /\ \A u \in k.ts_vect : u <= k.tcurr

\* A tuple seen keeps the slack, which is at most the present time.
LEMMA SeenKeeps ==
    ASSUME NEW k, Slack(k), NEW ts \in Timestamp
    PROVE  /\ Slack(Seen(k, ts)) /\ Seen(k, ts).buffer = k.buffer
           /\ ts > k.tcurr => Seen(k, ts).K <= ts
<1>1. /\ k.K \in Nat /\ k.tcurr \in Nat /\ k.ts_vect \subseteq Nat /\ ts \in Nat
      /\ Timestamp = 0..MaxTs /\ MaxTs \in Nat
  BY PLQAssumption DEF Slack, KSlackType, Timestamp
<1>2. PICK times : times = k.ts_vect \cup {ts}
  OBVIOUS
<1>3. CASE ts <= k.tcurr
  <2>1. Seen(k, ts) = [k EXCEPT !.ts_vect = times]
    BY <1>2, <1>3 DEF Seen
  <2>2. times \in SUBSET Timestamp /\ \A u \in times : u <= k.tcurr
    BY <1>2, <1>3 DEF Slack, KSlackType
  <2>3. PICK s : s = [k EXCEPT !.ts_vect = times]
    OBVIOUS
  <2>4. s \in KSlackType /\ s.K = k.K /\ s.tcurr = k.tcurr /\ s.ts_vect = times
        /\ s.buffer = k.buffer
    BY <2>2, <2>3 DEF Slack, KSlackType
  <2>5. ~(ts > k.tcurr)
    BY <1>1, <1>3
  <2> QED
    BY <2>1, <2>2, <2>3, <2>4, <2>5 DEF Slack
<1>4. CASE ~(ts <= k.tcurr)
  <2>1. PICK delays : delays = {k.K} \cup {ts - u : u \in times}
    OBVIOUS
  <2>2. delays \in SUBSET (0..ts) /\ delays # {}
    <3>1. k.K \in 0..ts
      BY <1>1, <1>4 DEF Slack
    <3>2. ASSUME NEW u \in times PROVE ts - u \in 0..ts
      <4>1. u \in Nat /\ u <= ts
        BY <1>1, <1>2, <1>4 DEF Slack
      <4> QED
        BY <1>1, <4>1
    <3> QED
      BY <2>1, <3>1, <3>2
  <2>3. PICK K : K = Max(delays)
    OBVIOUS
  <2>4. K \in 0..ts
    BY <1>1, <2>2, <2>3, GreatestElement
  <2>5. Seen(k, ts) = [k EXCEPT !.tcurr = ts, !.ts_vect = {}, !.K = K]
    BY <1>2, <1>4, <2>1, <2>3 DEF Seen
  <2>6. K \in Timestamp /\ K <= ts
    BY <1>1, <2>4
  <2> QED
    BY <1>1, <2>5, <2>6 DEF Slack, KSlackType
<1> QED
  BY <1>3, <1>4

\* The progress of the slack has its type.
LEMMA ProgressType ==
    ASSUME NEW k, Slack(k), NEW ts \in Timestamp
    PROVE  Progress(k, ts) \subseteq Timestamp \cup {NoPunct}
<1>1. k.tcurr \in Nat /\ ts \in 0..MaxTs /\ Timestamp = 0..MaxTs /\ MaxTs \in Nat
  BY PLQAssumption DEF Slack, KSlackType, Timestamp
<1>2. CASE ts <= k.tcurr
  BY <1>2 DEF Progress
<1>3. CASE ~(ts <= k.tcurr)
  <2>1. PICK K : K = Seen(k, ts).K
    OBVIOUS
  <2>2. K \in Nat /\ K <= ts
    <3>1. Seen(k, ts) \in KSlackType /\ (ts > k.tcurr => Seen(k, ts).K <= ts)
      BY SeenKeeps DEF Slack
    <3>2. ts > k.tcurr
      BY <1>1, <1>3
    <3> QED
      BY <1>1, <2>1, <3>1, <3>2 DEF KSlackType
  <2>3. Progress(k, ts) = (ts - K)..ts
    BY <1>3, <2>1 DEF Progress
  <2>4. (ts - K)..ts \subseteq 0..MaxTs
    BY <1>1, <2>2
  <2> QED
    BY <1>1, <2>3, <2>4
<1> QED
  BY <1>2, <1>3

\* The number of elements of a sequence that satisfy a condition.
LEMMA PartCount ==
    ASSUME NEW x \in Seq(Timestamp), NEW S \in SUBSET (DOMAIN x)
    PROVE  Cardinality(S) \in 0..Len(x)
<1>1. DOMAIN x = 1..Len(x) /\ Len(x) \in Nat
  OBVIOUS
<1>2. IsFiniteSet(1..Len(x)) /\ Cardinality(1..Len(x)) = Len(x)
  <2>1. PICK n : n = Len(x)
    OBVIOUS
  <2>2. n \in Nat /\ n \in Int /\ 1 \in Int
    BY <1>1, <2>1
  <2>3. IsFiniteSet(1..n) /\ Cardinality(1..n) = IF 1 > n THEN 0 ELSE n - 1 + 1
    BY ONLY <2>2, FS_Interval
  <2>4. (IF 1 > n THEN 0 ELSE n - 1 + 1) = n
    BY ONLY <2>2
  <2> QED
    BY <2>1, <2>3, <2>4
<1>3. IsFiniteSet(S) /\ Cardinality(S) <= Len(x)
  BY <1>1, <1>2, FS_Subset
<1>4. Cardinality(S) \in Nat
  BY <1>3, FS_CardinalityType
<1> QED
  BY <1>1, <1>3, <1>4

\* Part of a sequence of timestamps.
LEMMA PartType ==
    ASSUME NEW x \in Seq(Timestamp), NEW a \in 1..(Len(x) + 1), NEW b \in 0..Len(x)
    PROVE  SubSeq(x, a, b) \in Seq(Timestamp)
  OBVIOUS

\* The insertion keeps the buffer sorted.
LEMMA InsertedKeeps ==
    ASSUME NEW k, Slack(k), NEW ts \in Timestamp
    PROVE  Slack(Inserted(k, ts))
<1>1. PICK x : x = k.buffer
  OBVIOUS
<1>2. x \in Seq(Timestamp) /\ Len(x) \in Nat
  <2>1. x \in Seq(Timestamp)
    BY <1>1 DEF Slack, KSlackType
  <2> QED
    BY <2>1
<1>3. PICK older : older = Cardinality({i \in DOMAIN k.buffer : k.buffer[i] < ts})
  OBVIOUS
<1>4. older \in 0..Len(x)
  BY <1>1, <1>2, <1>3, PartCount
<1>5. SubSeq(x, 1, older) \in Seq(Timestamp) /\ SubSeq(x, older + 1, Len(x)) \in Seq(Timestamp)
  BY <1>2, <1>4, PartType
<1>6. PICK y : y = SubSeq(x, 1, older) \o <<ts>> \o SubSeq(x, older + 1, Len(x))
  OBVIOUS
<1>7. y \in Seq(Timestamp)
  BY <1>5, <1>6
<1>8. PICK s : s = Seen(k, ts)
  OBVIOUS
<1>9. Slack(s) /\ s.buffer = x
  BY <1>1, <1>8, SeenKeeps
<1>10. Inserted(k, ts) = [s EXCEPT !.buffer = y]
  BY <1>3, <1>6, <1>8, <1>9 DEF Inserted
<1> QED
  BY <1>7, <1>9, <1>10 DEF Slack, KSlackType

\* The extraction gives timestamps and leaves a sorted buffer.
LEMMA RemainingKeeps ==
    ASSUME NEW k, Slack(k), NEW limit
    PROVE  Slack(Remaining(k, limit)) /\ Extracted(k, limit) \in Seq(Timestamp)
<1>1. PICK x : x = k.buffer
  OBVIOUS
<1>2. x \in Seq(Timestamp) /\ Len(x) \in Nat
  <2>1. x \in Seq(Timestamp)
    BY <1>1 DEF Slack, KSlackType
  <2> QED
    BY <2>1
<1>3. PICK r : r = Ripe(k, limit)
  OBVIOUS
<1>4. r \in 0..Len(x)
  BY <1>1, <1>2, <1>3, PartCount DEF Ripe
<1>5. SubSeq(x, 1, r) \in Seq(Timestamp) /\ SubSeq(x, r + 1, Len(x)) \in Seq(Timestamp)
  BY <1>2, <1>4, PartType
<1>6. PICK y : y = SubSeq(x, r + 1, Len(x))
  OBVIOUS
<1>7. Remaining(k, limit) = [k EXCEPT !.buffer = y]
  BY <1>1, <1>3, <1>6 DEF Remaining
<1> QED
  BY <1>1, <1>3, <1>5, <1>6, <1>7 DEF Slack, KSlackType, Extracted

-----------------------------------------------------------------------------
(* The steps of the emitter                                                *)

\* The emitter is e after the step.
LEMMA EmitterStep ==
    ASSUME StageInv, ~plqTerminated, NEW e, EmitterInv(e, FALSE), Update(e),
           UNCHANGED <<iop, strategy, plqTerminated, workerVars>>,
           Slack(kslack'), ~iop => kslack'.buffer = <<>>,
           {received', reconfs'} \subseteq Nat
    PROVE  StageInv'
<1>1. /\ TypeInv /\ e \in EmitterType /\ QueuesInv(e, FALSE) /\ SchedInv(e)
      /\ \A p \in Pane : p >= e.s.next_pane_id => PaneInv(e.s, p)
  BY DEF StageInv, EmitterInv
<1>2. /\ iop' = iop /\ strategy' = strategy /\ plqTerminated' = FALSE
      /\ status' = status /\ paneSet' = paneSet /\ results' = results
  BY <1>1 DEF workerVars, TypeInv
<1>3. /\ Emitter'.s = e.s /\ Emitter'.q = e.q
      /\ Emitter'.last_P = e.last_P /\ Emitter'.last_timestamp = e.last_timestamp
  BY DEF Update, Emitter
<1>4. Emitter' \in EmitterType
  <2>1. e.s \in Sched /\ e.q \in [Worker -> Seq(Message)]
        /\ e.last_P \in Timestamp /\ e.last_timestamp \in Timestamp
    BY <1>1 DEF EmitterType
  <2> QED
    BY <2>1 DEF Update, Emitter, EmitterType
<1>5. TypeInv'
  <2>1. kslack' \in KSlackType
    BY DEF Slack
  <2>2. {iop', plqTerminated'} \subseteq BOOLEAN
    BY <1>1, <1>2 DEF TypeInv
  <2> QED
    BY <1>1, <1>2, <1>4, <2>1, <2>2 DEF TypeInv, Adaptive
<1>6. KSlackInv'
  BY <1>2 DEF KSlackInv, Slack
<1>7. QueuesInv(Emitter, plqTerminated)'
  <2> SUFFICES ASSUME NEW v \in Worker
               PROVE  /\ (DOMAIN paneSet[v])' \subseteq Pane
                      /\ Phase(status[v], DOMAIN paneSet[v], Emitter.q[v],
                               plqTerminated, v \in Emitter.s.activated)'
                      /\ OnTheWay(DOMAIN paneSet[v], Emitter.q[v],
                                  Emitter.s.next_pane_id,
                                  IF plqTerminated THEN {} ELSE HeldBy(Emitter.s, v))'
    BY DEF QueuesInv
  <2>1. /\ DOMAIN paneSet[v] \subseteq Pane
        /\ Phase(status[v], DOMAIN paneSet[v], e.q[v], FALSE, v \in e.s.activated)
        /\ OnTheWay(DOMAIN paneSet[v], e.q[v], e.s.next_pane_id, HeldBy(e.s, v))
    BY <1>1 DEF QueuesInv
  <2>2. HeldBy(Emitter.s, v)' = HeldBy(e.s, v)
    BY <1>3 DEF HeldBy
  <2>3. (DOMAIN paneSet[v])' \subseteq Pane
    BY <1>2, <2>1
  <2>4. Phase(status[v], DOMAIN paneSet[v], Emitter.q[v],
              plqTerminated, v \in Emitter.s.activated)'
    BY <1>2, <1>3, <2>1
  <2>5. OnTheWay(DOMAIN paneSet[v], Emitter.q[v], Emitter.s.next_pane_id,
                 IF plqTerminated THEN {} ELSE HeldBy(Emitter.s, v))'
    <3>1. (IF plqTerminated THEN {} ELSE HeldBy(Emitter.s, v))' = HeldBy(e.s, v)
      BY <1>2, <2>2
    <3> QED
      BY <1>2, <1>3, <2>1, <3>1 DEF OnTheWay
  <2> QED
    BY <2>3, <2>4, <2>5
<1>8. SchedInv(Emitter)' /\ \A p \in Pane : p >= Emitter'.s.next_pane_id => PaneInv(Emitter.s, p)'
  BY <1>1, <1>2, <1>3 DEF SchedInv, PaneInv, ActiveInv, Adaptive
<1>9. EmitterInv(Emitter, plqTerminated)'
  BY <1>4, <1>7, <1>8 DEF EmitterInv
<1> QED
  BY <1>2, <1>5, <1>6, <1>9 DEF StageInv

\* What the steps of the emitter start from.
LEMMA EmitterStart ==
    ASSUME StageInv, ~plqTerminated
    PROVE  /\ EmitterInv(Emitter, FALSE) /\ Slack(kslack)
           /\ ~iop => kslack.buffer = <<>>
           /\ received \in Nat /\ reconfs \in Nat
           /\ strategy \in {"PB_RR", "TB_RR", "ADAPTIVE"} /\ (Adaptive => ~iop)
           /\ Emitter.s = sched /\ Emitter.last_P = last_P
           /\ plqTerminated = FALSE
<1>1. plqTerminated = FALSE
  BY DEF StageInv, TypeInv
<1> QED
  BY <1>1 DEF StageInv, TypeInv, KSlackInv, Slack, Emitter

\* The invariant is kept by a tuple in the out-of-order build.
LEMMA StepStreamOOP ==
    ASSUME StageInv, StreamOOP, strategy' = strategy
    PROVE  StageInv'
<1>1. PICK ts \in Timestamp, elapsed \in BOOLEAN, large \in Sizes, llw \in LeastLoaded :
      \E punct \in Progress(kslack, ts) :
        LET progressed == Progressed(Emitter, punct, elapsed)
            e == IF Adaptive THEN AdaptiveProgressed(progressed, punct, elapsed)
                 ELSE progressed
        IN /\ ~iop
           /\ processNewTuple(Seen(kslack, ts),
                  IF Late(e, ts) THEN e
                  ELSE sched_to_worker(e, PaneOf(ts), large, llw))
  BY DEF StreamOOP
<1>2. PICK punct \in Progress(kslack, ts) :
        LET progressed == Progressed(Emitter, punct, elapsed)
            e == IF Adaptive THEN AdaptiveProgressed(progressed, punct, elapsed)
                 ELSE progressed
        IN /\ ~iop
           /\ processNewTuple(Seen(kslack, ts),
                  IF Late(e, ts) THEN e
                  ELSE sched_to_worker(e, PaneOf(ts), large, llw))
  BY <1>1
<1>3. PICK f : f = Progressed(Emitter, punct, elapsed)
  OBVIOUS
<1>4. PICK e : e = IF Adaptive THEN AdaptiveProgressed(f, punct, elapsed) ELSE f
  OBVIOUS
<1>5. PICK d : d = IF Late(e, ts) THEN e ELSE sched_to_worker(e, PaneOf(ts), large, llw)
  OBVIOUS
<1>6. ~iop /\ processNewTuple(Seen(kslack, ts), d)
  BY <1>2, <1>3, <1>4, <1>5
<1>7. /\ ~plqTerminated /\ received' = received + 1 /\ kslack' = Seen(kslack, ts)
      /\ Update(d) /\ UNCHANGED <<iop, reconfs, plqTerminated, workerVars>>
  BY <1>6 DEF processNewTuple
<1>8. /\ EmitterInv(Emitter, FALSE) /\ Slack(kslack) /\ kslack.buffer = <<>>
      /\ received \in Nat /\ reconfs \in Nat
      /\ strategy \in {"PB_RR", "TB_RR", "ADAPTIVE"}
      /\ Emitter.s = sched /\ Emitter.last_P = last_P
  BY <1>6, <1>7, EmitterStart
<1>9. punct \in Timestamp \cup {NoPunct}
  BY <1>8, ProgressType
<1>10. EmitterInv(f, FALSE) /\ f.s.activated = sched.activated
  <2>1. PICK b : b = Emitter
    OBVIOUS
  <2>2. EmitterInv(f, FALSE) /\ f.s.activated = b.s.activated
    BY <1>3, <1>6, <1>8, <1>9, <2>1, ProgressedKeeps
  <2> QED
    BY <1>8, <2>1, <2>2
<1>11. EmitterInv(e, FALSE) /\ e.s.activated = sched.activated
  <2>1. CASE Adaptive
    <3>1. e = AdaptiveProgressed(f, punct, elapsed)
      BY <1>4, <2>1
    <3>2. EmitterInv(e, FALSE) /\ e.s.activated = f.s.activated
      BY <1>10, <3>1, WarmupKeeps
    <3> QED
      BY <1>10, <3>2
  <2>2. CASE ~Adaptive
    BY <1>4, <1>10, <2>2
  <2> QED
    BY <2>1, <2>2
<1>12. EmitterInv(d, FALSE)
  <2>1. CASE Late(e, ts)
    BY <1>5, <1>11, <2>1
  <2>2. CASE ~Late(e, ts)
    <3>1. PICK l : l = e.last_P
      OBVIOUS
    <3>2. PICK next : next = e.s.next_pane_id
      OBVIOUS
    <3>3. e \in EmitterType /\ SchedInv(e)
      BY <1>11 DEF EmitterInv
    <3>4. l \in Timestamp /\ next \in Pane
      BY <3>1, <3>2, <3>3 DEF EmitterType, Sched
    <3>5. ~(ts < l)
      BY <1>6, <2>2, <3>1 DEF Late
    <3>6. l <= ts
      <4>1. l \in Nat /\ ts \in Nat
        BY <3>4, PLQAssumption DEF Timestamp
      <4> QED
        BY ONLY <3>5, <4>1
    <3>7. PICK p : p = PaneOf(ts)
      OBVIOUS
    <3>8. p \in Pane /\ PaneOf(l) \in Pane /\ PaneOf(l) <= p
      BY <3>4, <3>6, <3>7, PanesInOrder
    <3>9. next <= PaneOf(l)
      BY <1>6, <3>1, <3>2, <3>3 DEF SchedInv
    <3>10. p >= next
      <4>1. PICK z : z = PaneOf(l)
        OBVIOUS
      <4>2. next \in Nat /\ z \in Nat /\ p \in Nat /\ next <= z /\ z <= p
        BY <3>4, <3>8, <3>9, <4>1, WorkersAreNumbers
      <4> QED
        BY ONLY <4>2
    <3>11. Adaptive => llw \in e.s.activated
      BY <1>11 DEF LeastLoaded
    <3>12. d = sched_to_worker(e, p, large, llw)
      BY <1>5, <2>2, <3>7
    <3> QED
      BY <1>6, <1>8, <1>11, <3>2, <3>8, <3>10, <3>11, <3>12, ScheduleKeeps
  <2> QED
    BY <2>1, <2>2
<1>13. Slack(kslack') /\ kslack'.buffer = <<>>
  BY <1>7, <1>8, SeenKeeps
<1>14. {received', reconfs'} \subseteq Nat
  BY <1>7, <1>8
<1>15. UNCHANGED <<iop, strategy, plqTerminated, workerVars>>
  BY <1>7
<1> QED
  BY <1>7, <1>12, <1>13, <1>14, <1>15, EmitterStep

\* The invariant is kept by a tuple in the in-order build, with all that leave
\* the buffer for it.
LEMMA StepStreamIOP ==
    ASSUME StageInv, StreamIOP, strategy' = strategy
    PROVE  StageInv'
<1>1. PICK ts \in Timestamp : \E limit \in Progress(kslack, ts) :
        LET k == Inserted(kslack, ts)
        IN /\ iop
           /\ processNewTuple(Remaining(k, limit), Taken(Extracted(k, limit)))
  BY DEF StreamIOP
<1>2. PICK k : k = Inserted(kslack, ts)
  OBVIOUS
<1>3. PICK limit : iop /\ processNewTuple(Remaining(k, limit), Taken(Extracted(k, limit)))
  BY <1>1, <1>2
<1>4. PICK x : x = Extracted(k, limit)
  OBVIOUS
<1>5. PICK d : d = Taken(x)
  OBVIOUS
<1>6. /\ ~plqTerminated /\ received' = received + 1 /\ kslack' = Remaining(k, limit)
      /\ Update(d) /\ UNCHANGED <<iop, reconfs, plqTerminated, workerVars>>
  BY <1>3, <1>4, <1>5 DEF processNewTuple
<1>7. /\ EmitterInv(Emitter, FALSE) /\ Slack(kslack)
      /\ received \in Nat /\ reconfs \in Nat
      /\ strategy \in {"PB_RR", "TB_RR", "ADAPTIVE"} /\ (Adaptive => ~iop)
  BY <1>6, EmitterStart
<1>8. Slack(k)
  BY <1>2, <1>7, InsertedKeeps
<1>9. Slack(kslack') /\ x \in Seq(Timestamp)
  BY <1>4, <1>6, <1>8, RemainingKeeps
<1>10. EmitterInv(d, FALSE)
  BY <1>3, <1>5, <1>7, <1>9, TakenKeeps
<1>11. {received', reconfs'} \subseteq Nat
  BY <1>6, <1>7
<1>12. UNCHANGED <<iop, strategy, plqTerminated, workerVars>>
  BY <1>6
<1> QED
  BY <1>3, <1>6, <1>9, <1>10, <1>11, <1>12, EmitterStep

\* The invariant is kept by the command to remove workers.
LEMMA StepRemoveWorkers ==
    ASSUME StageInv, NEW W \in SUBSET Worker,
           NEW llw \in [Pane -> IF Adaptive THEN sched.activated \ W ELSE LeastLoaded],
           RemoveWorkers(W, Repaired(W, llw)), strategy' = strategy
    PROVE  StageInv'
<1>1. PICK d : d = Repaired(W, llw)
  OBVIOUS
<1>2. /\ ~plqTerminated /\ CanRemove(W) /\ Update(d) /\ reconfs' = reconfs + 1
      /\ UNCHANGED <<iop, kslack, received, plqTerminated, workerVars>>
  BY <1>1 DEF RemoveWorkers
<1>3. /\ EmitterInv(Emitter, FALSE) /\ Slack(kslack)
      /\ received \in Nat /\ reconfs \in Nat /\ (~iop => kslack.buffer = <<>>)
      /\ strategy \in {"PB_RR", "TB_RR", "ADAPTIVE"}
  BY <1>2, EmitterStart
<1>4. \A p \in Pane : Adaptive => llw[p] \in sched.activated \ W
  OBVIOUS
<1>5. EmitterInv(d, FALSE)
  BY <1>1, <1>2, <1>3, <1>4, RepairedKeeps
<1>6. Slack(kslack') /\ (~iop => kslack'.buffer = <<>>)
  BY <1>2, <1>3
<1>7. {received', reconfs'} \subseteq Nat
  BY <1>2, <1>3
<1>8. UNCHANGED <<iop, strategy, plqTerminated, workerVars>>
  BY <1>2
<1> QED
  BY <1>2, <1>5, <1>6, <1>7, <1>8, EmitterStep

\* Workers are added: they are frozen, with nothing on the way.
LEMMA StepAddWorkers ==
    ASSUME StageInv, NEW W \in SUBSET Worker, AddWorkers(W), strategy' = strategy
    PROVE  StageInv'
<1>1. /\ ~plqTerminated /\ W \cap sched.activated = {}
      /\ (\A w \in W : status[w] = "frozen")
      /\ sched' = [sched EXCEPT !.nw_plq = @ + Cardinality(W),
                                !.activated = @ \cup W]
      /\ status' = [w \in Worker |-> IF w \in W THEN "running" ELSE status[w]]
      /\ reconfs' = reconfs + 1
      /\ UNCHANGED <<queue, paneSet, results, iop, kslack, last_P, last_timestamp,
                     received, plqTerminated>>
  BY DEF AddWorkers
<1>2. /\ TypeInv /\ KSlackInv /\ EmitterInv(Emitter, FALSE) /\ plqTerminated = FALSE
  BY <1>1, EmitterStart DEF StageInv
<1>3. /\ Emitter \in EmitterType /\ QueuesInv(Emitter, FALSE) /\ SchedInv(Emitter)
      /\ \A p \in Pane : p >= Emitter.s.next_pane_id => PaneInv(Emitter.s, p)
  BY <1>2 DEF EmitterInv
<1>4. /\ Emitter.s = sched /\ Emitter.q = queue
      /\ Emitter.last_P = last_P /\ Emitter.last_timestamp = last_timestamp
  BY DEF Emitter
<1>5. PICK k : k = Cardinality(W)
  OBVIOUS
<1>6. k \in Int
  <2>1. IsFiniteSet(Worker)
    BY FS_Interval, PLQAssumption DEF Worker
  <2> QED
    BY <1>5, <2>1, FS_Subset, FS_CardinalityType
<1>7. PICK A : A = sched.activated \cup W
  OBVIOUS
<1>8. PICK z : z = sched.nw_plq + k
  OBVIOUS
<1>9. /\ sched \in Sched /\ z \in Int /\ A \in SUBSET Worker /\ A # {}
  <2>1. sched \in Sched
    BY <1>3, <1>4 DEF EmitterType
  <2> QED
    BY <1>3, <1>4, <1>6, <1>7, <1>8, <2>1 DEF Sched, SchedInv
<1>10. sched' = [sched EXCEPT !.nw_plq = z, !.activated = A]
  BY <1>1, <1>5, <1>7, <1>8
<1>11. /\ sched' \in Sched /\ sched'.activated = A
       /\ sched'.next_pane_id = sched.next_pane_id /\ sched'.n_panes = sched.n_panes
       /\ sched'.holders = sched.holders /\ sched'.pane_size = sched.pane_size
       /\ sched'.a_worker = sched.a_worker
  BY <1>9, <1>10 DEF Sched
<1>12. /\ Emitter'.s = sched' /\ Emitter'.q = queue
       /\ Emitter'.last_P = last_P /\ Emitter'.last_timestamp = last_timestamp
  BY <1>1 DEF Emitter
<1>13. Emitter' \in EmitterType
  <2>1. /\ queue \in [Worker -> Seq(Message)]
        /\ last_P \in Timestamp /\ last_timestamp \in Timestamp
    BY <1>3, <1>4 DEF EmitterType
  <2> QED
    BY <1>1, <1>11, <2>1 DEF Emitter, EmitterType
<1>14. TypeInv'
  <2>1. status' \in [Worker -> {"running", "frozen", "ended"}]
    BY <1>1, <1>2 DEF TypeInv
  <2>2. reconfs' \in Nat
    BY <1>1, <1>2 DEF TypeInv
  <2> QED
    BY <1>1, <1>2, <1>13, <2>1, <2>2 DEF TypeInv, Adaptive
<1>15. KSlackInv'
  BY <1>1, <1>2 DEF KSlackInv
<1>16. QueuesInv(Emitter, plqTerminated)'
  <2> SUFFICES ASSUME NEW v \in Worker
               PROVE  /\ (DOMAIN paneSet[v])' \subseteq Pane
                      /\ Phase(status[v], DOMAIN paneSet[v], Emitter.q[v],
                               plqTerminated, v \in Emitter.s.activated)'
                      /\ OnTheWay(DOMAIN paneSet[v], Emitter.q[v],
                                  Emitter.s.next_pane_id,
                                  IF plqTerminated THEN {} ELSE HeldBy(Emitter.s, v))'
    BY DEF QueuesInv
  <2>1. PICK x : x = queue[v]
    OBVIOUS
  <2>2. PICK D : D = DOMAIN paneSet[v]
    OBVIOUS
  <2>3. PICK next : next = sched.next_pane_id
    OBVIOUS
  <2>4. /\ D \subseteq Pane
        /\ Phase(status[v], D, x, FALSE, v \in sched.activated)
        /\ OnTheWay(D, x, next, HeldBy(sched, v))
    BY <1>3, <1>4, <2>1, <2>2, <2>3 DEF QueuesInv
  <2>5. Phase(status'[v], D, x, FALSE, v \in A) /\ OnTheWay(D, x, next, HeldBy(sched', v))
    <3>1. CASE v \in W
      <4>1. (v \in A) = TRUE /\ (v \in sched.activated) = FALSE
        BY <1>1, <1>7, <3>1
      <4>2. status[v] = "frozen" /\ status'[v] = "running"
        BY <1>1, <3>1
      <4>3. D = {} /\ x = <<>>
        BY <2>4, <4>1, <4>2 DEF Phase
      <4>4. Phase("running", {}, <<>>, FALSE, TRUE)
        BY DEF Phase
      <4>5. HeldBy(sched', v) = {}
        <5>1. \A p \in Pane : p >= next => v \notin sched.holders[p]
          BY <1>3, <1>4, <2>3, <4>1 DEF PaneInv
        <5> QED
          BY <1>11, <2>3, <5>1 DEF HeldBy
      <4>6. OnTheWay({}, <<>>, next, {})
        BY LeavesNothing
      <4> QED
        BY <4>1, <4>2, <4>3, <4>4, <4>5, <4>6
    <3>2. CASE v \notin W
      <4>1. (v \in A) = (v \in sched.activated)
        BY <1>7, <3>2
      <4>2. status'[v] = status[v]
        BY <1>1, <3>2
      <4>3. HeldBy(sched', v) = HeldBy(sched, v)
        BY <1>11, <4>1 DEF HeldBy
      <4> QED
        BY <2>4, <4>1, <4>2, <4>3
    <3> QED
      BY <3>1, <3>2
  <2>6. /\ paneSet'[v] = paneSet[v] /\ plqTerminated' = FALSE /\ iop' = iop
    BY <1>1, <1>2
  <2>7. (v \in Emitter'.s.activated) = (v \in A)
    BY <1>11, <1>12
  <2>8. Phase(status[v], DOMAIN paneSet[v], Emitter.q[v],
              plqTerminated, v \in Emitter.s.activated)'
    BY <1>12, <2>1, <2>2, <2>5, <2>6, <2>7
  <2>9. OnTheWay(DOMAIN paneSet[v], Emitter.q[v], Emitter.s.next_pane_id,
                 IF plqTerminated THEN {} ELSE HeldBy(Emitter.s, v))'
    <3>1. (IF plqTerminated THEN {} ELSE HeldBy(Emitter.s, v))' = HeldBy(sched', v)
      BY <1>12, <2>6 DEF HeldBy
    <3> QED
      BY <1>11, <1>12, <2>1, <2>2, <2>3, <2>5, <2>6, <3>1 DEF OnTheWay
  <2> QED
    BY <2>2, <2>4, <2>6, <2>8, <2>9
<1>17. SchedInv(Emitter)'
  BY <1>1, <1>3, <1>4, <1>9, <1>11, <1>12 DEF SchedInv
<1>18. \A p \in Pane : p >= Emitter'.s.next_pane_id => PaneInv(Emitter.s, p)'
  BY <1>3, <1>4, <1>7, <1>11, <1>12 DEF PaneInv, ActiveInv, Adaptive
<1>19. EmitterInv(Emitter, plqTerminated)'
  BY <1>13, <1>16, <1>17, <1>18 DEF EmitterInv
<1> QED
  BY <1>1, <1>2, <1>14, <1>15, <1>19 DEF StageInv

\* The stream ends: all the workers are woken up and told so.
LEMMA StepEndOfStream ==
    ASSUME StageInv, EndOfStream(Taken(kslack.buffer)), strategy' = strategy
    PROVE  StageInv'
<1>1. PICK e : e = Taken(kslack.buffer)
  OBVIOUS
<1>2. PICK qs : qs = [w \in Worker |-> e.q[w] \o <<END, EOS>>]
  OBVIOUS
<1>3. /\ ~plqTerminated
      /\ \A w \in Worker \ sched.activated : status[w] = "frozen"
      /\ plqTerminated' = TRUE
      /\ kslack' = [kslack EXCEPT !.buffer = <<>>]
      /\ status' = [w \in Worker |-> "running"]
      /\ Update([e EXCEPT !.s.activated = Worker, !.q = qs])
      /\ UNCHANGED <<paneSet, results, iop, received, reconfs>>
  BY <1>1, <1>2 DEF EndOfStream
<1>4. /\ EmitterInv(Emitter, FALSE) /\ Slack(kslack)
      /\ (~iop => kslack.buffer = <<>>)
      /\ received \in Nat /\ reconfs \in Nat
      /\ strategy \in {"PB_RR", "TB_RR", "ADAPTIVE"} /\ (Adaptive => ~iop)
  BY <1>3, EmitterStart
<1>5. EmitterInv(e, FALSE) /\ e.s.activated = sched.activated
  <2>1. PICK x : x = kslack.buffer
    OBVIOUS
  <2>2. x \in Seq(Timestamp) /\ (iop \/ x = <<>>)
    BY <1>4, <2>1 DEF Slack, KSlackType
  <2>3. e = Taken(x)
    BY <1>1, <2>1
  <2> QED
    BY <1>4, <2>2, <2>3, TakenKeeps
<1>6. /\ e \in EmitterType /\ QueuesInv(e, FALSE) /\ SchedInv(e)
      /\ \A p \in Pane : p >= e.s.next_pane_id => PaneInv(e.s, p)
  BY <1>5 DEF EmitterInv
<1>7. PICK next : next = e.s.next_pane_id
  OBVIOUS
<1>8. ASSUME NEW v \in Worker
      PROVE  /\ DOMAIN paneSet[v] \subseteq Pane
             /\ qs[v] \in Seq(Message)
             /\ Phase("running", DOMAIN paneSet[v], qs[v], TRUE, TRUE)
             /\ OnTheWay(DOMAIN paneSet[v], qs[v], next, {})
  <2>1. PICK x : x = e.q[v]
    OBVIOUS
  <2>2. PICK D : D = DOMAIN paneSet[v]
    OBVIOUS
  <2>3. PICK held : held = HeldBy(e.s, v)
    OBVIOUS
  <2>4. PICK st : st = status[v]
    OBVIOUS
  <2>5. PICK active \in BOOLEAN : active = (v \in e.s.activated)
    <3>1. CASE v \in e.s.activated
      <4>1. TRUE \in BOOLEAN /\ TRUE = (v \in e.s.activated)
        BY <3>1
      <4> QED
        BY <4>1
    <3>2. CASE v \notin e.s.activated
      <4>1. FALSE \in BOOLEAN /\ FALSE = (v \in e.s.activated)
        BY <3>2
      <4> QED
        BY <4>1
    <3> QED
      BY <3>1, <3>2
  <2>6. x \in Seq(Message) /\ held \in SUBSET Pane /\ next \in Pane
    BY <1>6, <1>7, <2>1, <2>3 DEF EmitterType, Sched, HeldBy
  <2>7. /\ D \in SUBSET Pane
        /\ Phase(st, D, x, FALSE, active)
        /\ OnTheWay(D, x, next, held)
    BY <1>6, <1>7, <2>1, <2>2, <2>3, <2>4, <2>5 DEF QueuesInv
  <2>8. active \/ st = "frozen"
    BY <1>3, <1>5, <2>4, <2>5
  <2>9. PICK y : y = x \o <<END, EOS>>
    OBVIOUS
  <2>10. /\ y \in Seq(Message) /\ Phase("running", D, y, TRUE, TRUE)
         /\ OnTheWay(D, y, next, {})
    BY ONLY <2>6, <2>7, <2>8, <2>9, active \in BOOLEAN, EndKeeps
  <2>11. qs[v] = y
    BY <1>2, <2>1, <2>9
  <2> QED
    BY <2>2, <2>7, <2>10, <2>11
<1>9. qs \in [Worker -> Seq(Message)]
  BY <1>2, <1>8
<1>10. PICK t : t = [e EXCEPT !.s.activated = Worker]
  OBVIOUS
<1>11. /\ t \in EmitterType
       /\ t.last_P = e.last_P /\ t.last_timestamp = e.last_timestamp
       /\ t.s.activated = Worker /\ t.s.next_pane_id = next
       /\ t.s.n_panes = e.s.n_panes /\ t.s.holders = e.s.holders
       /\ t.s.pane_size = e.s.pane_size /\ t.s.a_worker = e.s.a_worker
  BY <1>6, <1>7, <1>10 DEF EmitterType, Sched
<1>12. PICK d : d = [t EXCEPT !.q = qs]
  OBVIOUS
<1>13. /\ d \in EmitterType /\ d.s = t.s /\ d.q = qs
       /\ d.last_P = t.last_P /\ d.last_timestamp = t.last_timestamp
  BY <1>9, <1>11, <1>12 DEF EmitterType
<1>14. Update(d)
  BY <1>3, <1>10, <1>12
<1>15. /\ Emitter'.s = d.s /\ Emitter'.q = d.q
       /\ Emitter'.last_P = d.last_P /\ Emitter'.last_timestamp = d.last_timestamp
  BY <1>14 DEF Update, Emitter
<1>16. Emitter' \in EmitterType
  <2>1. /\ d.s \in Sched /\ d.q \in [Worker -> Seq(Message)]
        /\ d.last_P \in Timestamp /\ d.last_timestamp \in Timestamp
    BY <1>13 DEF EmitterType
  <2> QED
    BY <1>14, <2>1 DEF Update, Emitter, EmitterType
<1>17. Slack(kslack') /\ kslack'.buffer = <<>>
  <2>1. PICK none : none = <<>>
    OBVIOUS
  <2>2. none \in Seq(Timestamp) /\ kslack' = [kslack EXCEPT !.buffer = none]
    BY <1>3, <2>1
  <2> QED
    BY <1>4, <2>1, <2>2 DEF Slack, KSlackType
<1>18. TypeInv'
  <2>1. TypeInv
    BY DEF StageInv
  <2>2. status' \in [Worker -> {"running", "frozen", "ended"}]
    BY <1>3
  <2>3. kslack' \in KSlackType
    BY <1>17 DEF Slack
  <2> QED
    BY <1>3, <1>16, <2>1, <2>2, <2>3 DEF TypeInv, Adaptive
<1>19. KSlackInv'
  BY <1>17 DEF KSlackInv, Slack
<1>20. QueuesInv(Emitter, plqTerminated)'
  <2> SUFFICES ASSUME NEW v \in Worker
               PROVE  /\ (DOMAIN paneSet[v])' \subseteq Pane
                      /\ Phase(status[v], DOMAIN paneSet[v], Emitter.q[v],
                               plqTerminated, v \in Emitter.s.activated)'
                      /\ OnTheWay(DOMAIN paneSet[v], Emitter.q[v],
                                  Emitter.s.next_pane_id,
                                  IF plqTerminated THEN {} ELSE HeldBy(Emitter.s, v))'
    BY DEF QueuesInv
  <2>1. (v \in Emitter'.s.activated) = TRUE
    BY <1>11, <1>13, <1>15
  <2>2. status'[v] = "running" /\ paneSet' = paneSet /\ iop' = iop
    BY <1>3
  <2>3. Emitter'.q[v] = qs[v] /\ Emitter'.s.next_pane_id = next
    BY <1>11, <1>13, <1>15
  <2>4. Phase(status[v], DOMAIN paneSet[v], Emitter.q[v],
              plqTerminated, v \in Emitter.s.activated)'
    BY <1>3, <1>8, <2>1, <2>2, <2>3
  <2>5. OnTheWay(DOMAIN paneSet[v], Emitter.q[v], Emitter.s.next_pane_id,
                 IF plqTerminated THEN {} ELSE HeldBy(Emitter.s, v))'
    <3>1. (IF plqTerminated THEN {} ELSE HeldBy(Emitter.s, v))' = {}
      BY <1>3
    <3>2. OnTheWay(DOMAIN paneSet[v], qs[v], next, {})
      BY <1>8
    <3> QED
      BY <2>2, <2>3, <3>1, <3>2 DEF OnTheWay
  <2> QED
    BY <1>8, <2>2, <2>4, <2>5
<1>21. Worker # {}
  <2>1. NUM_WORKER_THREADS \in Nat \ {0}
    BY WorkersAreNumbers
  <2>2. 0 \in Worker
    BY <2>1 DEF Worker
  <2> QED
    BY <2>2
<1>22. SchedInv(Emitter)'
  BY <1>3, <1>6, <1>7, <1>11, <1>13, <1>15, <1>21 DEF SchedInv
<1>23. ASSUME NEW p \in Pane, p >= Emitter'.s.next_pane_id PROVE PaneInv(Emitter.s, p)'
  <2>1. PaneInv(e.s, p)
    BY <1>6, <1>7, <1>11, <1>13, <1>15, <1>23
  <2>2. e.s.holders[p] \subseteq Worker
    BY <1>6 DEF EmitterType, Sched
  <2> QED
    BY <1>11, <1>13, <1>15, <2>1, <2>2 DEF PaneInv, ActiveInv, Adaptive
<1>24. EmitterInv(Emitter, plqTerminated)'
  BY <1>16, <1>20, <1>22, <1>23 DEF EmitterInv
<1>25. sched'.activated = Worker
  BY <1>11, <1>13, <1>14 DEF Update
<1> QED
  BY <1>18, <1>19, <1>24, <1>25 DEF StageInv

-----------------------------------------------------------------------------
(* The theorems                                                            *)

\* The invariant holds initially.
LEMMA InitKeeps == Init => StageInv
<1> SUFFICES ASSUME Init PROVE StageInv
  OBVIOUS
<1>1. PICK s : s = IF Adaptive THEN AdaptiveInit ELSE SchedInit
  OBVIOUS
<1>2. /\ strategy \in Strategies /\ InitWith(s) /\ (Adaptive => ~iop)
  BY <1>1 DEF Init
<1>3. strategy \in {"PB_RR", "TB_RR", "ADAPTIVE"}
  BY <1>2, StrategyAssumption
<1>4. /\ NUM_WORKER_THREADS \in Nat \ {0} /\ NW_PLQ \in 1..NUM_WORKER_THREADS
      /\ MaxTs \in Nat /\ Builds \subseteq BOOLEAN
  BY PLQAssumption
<1>5. /\ 0..(NW_PLQ - 1) \in SUBSET Worker /\ 0 \in 0..(NW_PLQ - 1) /\ 0 \in Worker
      /\ \A w \in Worker : w < NW_PLQ => w \in 0..(NW_PLQ - 1)
      /\ \A w \in 0..(NW_PLQ - 1) : w < NW_PLQ
  BY <1>4 DEF Worker
<1>6. /\ 0 \in Pane /\ 0 \in Timestamp /\ PaneOf(0) = 0 /\ 0 \in 0..(PaneOf(MaxTs) + 1)
      /\ Pane \subseteq Nat
  <2>1. 0 \in Timestamp
    BY <1>4 DEF Timestamp
  <2>2. PaneOf(0) = 0
    BY PLQAssumption DEF PaneOf
  <2> QED
    BY <2>1, <2>2, PanesInOrder, WorkersAreNumbers
<1>7. SchedInit \in Sched /\ AdaptiveInit = [SchedInit EXCEPT !.warmup = TRUE]
  <2>1. SchedInit \in Sched
    <3>1. NW_PLQ \in Int
      BY <1>4
    <3> QED
      BY <1>5, <1>6, <3>1 DEF SchedInit, Sched
  <2> QED
    BY <2>1 DEF AdaptiveInit
<1>8. /\ s \in Sched /\ s.activated = 0..(NW_PLQ - 1) /\ s.next_pane_id = 0
      /\ s.n_panes = 0
      /\ \A p \in Pane : /\ s.holders[p] = {} /\ s.pane_size[p] = 0
                         /\ s.a_worker[p] = NoWorker
  <2>1. /\ SchedInit.activated = 0..(NW_PLQ - 1) /\ SchedInit.next_pane_id = 0
        /\ SchedInit.n_panes = 0
        /\ \A p \in Pane : /\ SchedInit.holders[p] = {} /\ SchedInit.pane_size[p] = 0
                           /\ SchedInit.a_worker[p] = NoWorker
    BY DEF SchedInit
  <2>2. PICK r : r = SchedInit
    OBVIOUS
  <2>3. s = r \/ s = [r EXCEPT !.warmup = TRUE]
    BY <1>1, <1>7, <2>2
  <2> QED
    BY <1>7, <2>1, <2>2, <2>3 DEF Sched
<1>9. /\ sched = s
      /\ queue = [w \in Worker |-> IF w < NW_PLQ THEN <<>> ELSE <<GO_OUT>>]
      /\ paneSet = [w \in Worker |-> EmptyDeque]
      /\ status = [w \in Worker |-> "running"]
      /\ results = [p \in Pane |-> [parts |-> 0, tuples |-> 0, counts |-> {}]]
      /\ iop \in Builds
      /\ kslack = NewKSlack /\ last_P = 0 /\ last_timestamp = 0
      /\ received = 0 /\ reconfs = 0
      /\ plqTerminated = FALSE
  BY <1>2 DEF InitWith
<1>10. /\ Emitter.s = s /\ Emitter.q = queue
       /\ Emitter.last_P = 0 /\ Emitter.last_timestamp = 0
  BY <1>9 DEF Emitter
<1>11. Emitter \in EmitterType
  <2>1. queue \in [Worker -> Seq(Message)]
    <3>1. <<>> \in Seq(Message) /\ <<GO_OUT>> \in Seq(Message)
      BY MessagesSent
    <3> QED
      BY <1>9, <3>1
  <2> QED
    BY <1>6, <1>8, <1>9, <2>1 DEF Emitter, EmitterType
<1>12. Slack(kslack) /\ kslack.buffer = <<>>
  <2>1. <<>> \in Seq(Timestamp)
    OBVIOUS
  <2> QED
    BY <1>6, <1>9, <2>1 DEF Slack, KSlackType, NewKSlack
<1>13. TypeInv
  <2>1. paneSet \in [Worker -> Deque]
    BY <1>9, EmptyDequeIsDeque
  <2>2. status \in [Worker -> {"running", "frozen", "ended"}]
    BY <1>9
  <2>3. results \in [Pane -> [parts : Nat, tuples : Nat, counts : SUBSET Nat]]
    BY <1>9
  <2>4. {iop, plqTerminated} \subseteq BOOLEAN /\ {received, reconfs} \subseteq Nat
    <3>1. iop \in BOOLEAN /\ plqTerminated \in BOOLEAN
      <4>1. iop \in Builds /\ plqTerminated = FALSE
        BY <1>9
      <4> QED
        BY <1>4, <4>1
    <3>2. received = 0 /\ reconfs = 0
      BY <1>9
    <3> QED
      BY <3>1, <3>2
  <2> QED
    BY <1>2, <1>3, <1>11, <1>12, <2>1, <2>2, <2>3, <2>4 DEF TypeInv, Slack
<1>14. KSlackInv
  BY <1>12 DEF KSlackInv, Slack
<1>15. QueuesInv(Emitter, FALSE)
  <2> SUFFICES ASSUME NEW w \in Worker
               PROVE  /\ DOMAIN paneSet[w] \subseteq Pane
                      /\ Phase(status[w], DOMAIN paneSet[w], Emitter.q[w], FALSE,
                               w \in Emitter.s.activated)
                      /\ OnTheWay(DOMAIN paneSet[w], Emitter.q[w], Emitter.s.next_pane_id,
                                  HeldBy(Emitter.s, w))
    BY DEF QueuesInv
  <2>1. DOMAIN paneSet[w] = {} /\ status[w] = "running"
    BY <1>9, EmptyDequeIsDeque
  <2>2. HeldBy(Emitter.s, w) = {}
    BY <1>8, <1>10 DEF HeldBy
  <2>3. CASE w < NW_PLQ
    <3>1. Emitter.q[w] = <<>> /\ (w \in Emitter.s.activated) = TRUE
      BY <1>5, <1>8, <1>9, <1>10, <2>3
    <3>2. Phase("running", {}, <<>>, FALSE, TRUE)
      BY DEF Phase
    <3>3. OnTheWay({}, <<>>, Emitter.s.next_pane_id, {})
      BY LeavesNothing
    <3> QED
      BY <2>1, <2>2, <3>1, <3>2, <3>3
  <2>4. CASE ~(w < NW_PLQ)
    <3>1. Emitter.q[w] = <<GO_OUT>> /\ (w \in Emitter.s.activated) = FALSE
      <4>1. queue[w] = <<GO_OUT>>
        BY <1>9, <2>4
      <4>2. w \notin 0..(NW_PLQ - 1)
        BY <1>5, <2>4
      <4>3. (w \in 0..(NW_PLQ - 1)) = FALSE
        BY <4>2
      <4> QED
        BY <1>8, <1>10, <4>1, <4>3
    <3>2. Phase("running", {}, <<GO_OUT>>, FALSE, FALSE)
      BY DEF Phase
    <3>3. OnTheWay({}, <<GO_OUT>>, Emitter.s.next_pane_id, {})
      BY LeavesNothing
    <3> QED
      BY <2>1, <2>2, <3>1, <3>2, <3>3
  <2> QED
    BY <2>3, <2>4
<1>16. SchedInv(Emitter)
  <2>1. Emitter.s.activated # {}
    BY <1>5, <1>8, <1>10
  <2> QED
    BY <1>6, <1>8, <1>10, <2>1 DEF SchedInv
<1>17. \A p \in Pane : p >= Emitter.s.next_pane_id => PaneInv(Emitter.s, p)
  BY <1>8, <1>10 DEF PaneInv, ActiveInv
<1>18. EmitterInv(Emitter, plqTerminated)
  BY <1>9, <1>11, <1>15, <1>16, <1>17 DEF EmitterInv
<1> QED
  BY <1>9, <1>13, <1>14, <1>18 DEF StageInv

\* The invariant is kept when nothing changes.
LEMMA StutterKeeps ==
    ASSUME StageInv, UNCHANGED <<vars, strategy>>
    PROVE  StageInv'
<1>1. /\ sched' = sched /\ iop' = iop /\ kslack' = kslack /\ last_P' = last_P
      /\ last_timestamp' = last_timestamp /\ received' = received /\ reconfs' = reconfs
      /\ plqTerminated' = plqTerminated /\ queue' = queue /\ paneSet' = paneSet
      /\ status' = status /\ results' = results /\ strategy' = strategy
  BY DEF vars, emitterVars, workerVars
<1>2. Emitter' = Emitter /\ (Adaptive' <=> Adaptive)
  BY <1>1 DEF Emitter, Adaptive
<1>3. TypeInv' /\ KSlackInv'
  BY <1>1, <1>2 DEF StageInv, TypeInv, KSlackInv
<1>4. QueuesInv(Emitter, plqTerminated)'
  <2>1. QueuesInv(Emitter, plqTerminated)
    BY DEF StageInv, EmitterInv
  <2> QED
    BY <1>1, <1>2, <2>1 DEF QueuesInv, OnTheWay, HeldBy
<1>5. SchedInv(Emitter)' /\ \A p \in Pane : p >= Emitter'.s.next_pane_id => PaneInv(Emitter.s, p)'
  BY <1>1, <1>2 DEF StageInv, EmitterInv, SchedInv, PaneInv, ActiveInv
<1>6. EmitterInv(Emitter, plqTerminated)'
  BY <1>2, <1>4, <1>5 DEF StageInv, EmitterInv
<1> QED
  BY <1>1, <1>3, <1>6 DEF StageInv

\* The invariant is kept by every step.
LEMMA NextKeeps ==
    ASSUME StageInv, [Next]_stageVars
    PROVE  StageInv'
<1>1. CASE UNCHANGED stageVars
  BY <1>1, StutterKeeps DEF stageVars
<1>2. CASE Next
  <2>1. strategy' = strategy
    BY <1>2 DEF Next
  <2>2. CASE StreamOOP
    BY <2>1, <2>2, StepStreamOOP
  <2>3. CASE StreamIOP
    BY <2>1, <2>3, StepStreamIOP
  <2>4. CASE EndOfStream(Taken(kslack.buffer))
    BY <2>1, <2>4, StepEndOfStream
  <2>5. CASE Reconfigure
    <3>1. CASE \E W \in SUBSET Worker : AddWorkers(W)
      BY <2>1, <3>1, StepAddWorkers
    <3>2. CASE \E W \in SUBSET Worker :
                 \E llw \in [Pane -> IF Adaptive THEN sched.activated \ W ELSE LeastLoaded] :
                   RemoveWorkers(W, Repaired(W, llw))
      BY <2>1, <3>2, StepRemoveWorkers
    <3> QED
      BY <2>5, <3>1, <3>2 DEF Reconfigure
  <2>6. CASE \E w \in Worker : WorkerStep(w)
    BY <2>1, <2>6, WorkerKeeps
  <2>7. CASE Done
    BY <2>1, <2>7, StutterKeeps DEF Done
  <2> QED
    BY <1>2, <2>2, <2>3, <2>4, <2>5, <2>6, <2>7 DEF Next, StageNext
<1> QED
  BY <1>1, <1>2

\* The inductive invariant holds at every moment of every execution.
THEOREM StageIsInOrder == Spec => []StageInv
<1>1. Init => StageInv
  BY InitKeeps
<1>2. StageInv /\ [Next]_stageVars => StageInv'
  BY NextKeeps
<1> QED
  BY <1>1, <1>2, PTL DEF Spec

\* What the invariant tells of each worker.
LEMMA OfEachWorker ==
    ASSUME StageInv, NEW w \in Worker
    PROVE  /\ queue[w] \in Seq(Message) /\ paneSet[w] \in Deque
           /\ DOMAIN paneSet[w] \subseteq Pane
           /\ Phase(status[w], DOMAIN paneSet[w], queue[w], plqTerminated,
                    w \in sched.activated)
           /\ OnTheWay(DOMAIN paneSet[w], queue[w], sched.next_pane_id,
                       IF plqTerminated THEN {} ELSE HeldBy(sched, w))
<1>1. Emitter.s = sched /\ Emitter.q = queue
  BY DEF Emitter
<1>2. Emitter \in EmitterType /\ QueuesInv(Emitter, plqTerminated) /\ TypeInv
  BY DEF StageInv, EmitterInv
<1>3. queue[w] \in Seq(Message) /\ paneSet[w] \in Deque
  BY <1>1, <1>2 DEF EmitterType, TypeInv
<1> QED
  BY <1>1, <1>2, <1>3 DEF QueuesInv

\* A worker freezes, or ends, with nothing in its queue and nothing in its deque:
\* no tuple waits in a worker that is removed (the FLUSH before the GO_OUT in
\* removeWorkers, and the EMPTYPANE or the repair after them).
THEOREM FrozenAreEmpty == Spec => []FrozenIsEmpty
<1>1. StageInv => FrozenIsEmpty
  <2> SUFFICES ASSUME StageInv, NEW w \in Worker, status[w] # "running"
               PROVE  queue[w] = <<>> /\ paneSet[w] = EmptyDeque
    BY DEF FrozenIsEmpty
  <2>1. /\ Phase(status[w], DOMAIN paneSet[w], queue[w], plqTerminated,
                 w \in sched.activated)
        /\ paneSet[w] \in Deque
    BY OfEachWorker
  <2>2. DOMAIN paneSet[w] = {} /\ queue[w] = <<>>
    BY <2>1 DEF Phase
  <2>3. PICK d : d = paneSet[w]
    OBVIOUS
  <2>4. d \in [DOMAIN d -> ResultsSet] /\ DOMAIN d = {}
    BY <2>1, <2>2, <2>3 DEF Deque
  <2>5. d = EmptyDeque
    BY <2>4 DEF EmptyDeque
  <2> QED
    BY <2>2, <2>3, <2>5
<1> QED
  BY <1>1, StageIsInOrder, PTL

\* Nothing of a pane follows the punctuation that closes it in the queue of a
\* worker, so that no pane is reopened by the tuples that the emitter accepts
\* (those that are not older than last_P, in processNewTuple).
THEOREM PunctuationsAreLast == Spec => []NothingAfterPunct
<1>1. StageInv => NothingAfterPunct
  <2> SUFFICES ASSUME StageInv, NEW w \in Worker,
                      NEW i \in 1..Len(queue[w]), NEW j \in 1..Len(queue[w]),
                      i < j, queue[w][i].type = "PUNCT",
                      queue[w][j].type \in {"REGULAR", "EMPTYPANE", "NEW_INST"}
               PROVE  queue[w][j].pane_id >= queue[w][i].pane_id
    BY DEF NothingAfterPunct
  <2>1. PICK x : x = queue[w]
    OBVIOUS
  <2>2. /\ x \in Seq(Message)
        /\ OnTheWay(DOMAIN paneSet[w], x, sched.next_pane_id,
                    IF plqTerminated THEN {} ELSE HeldBy(sched, w))
    BY <2>1, OfEachWorker
  <2>3. i \in DOMAIN x /\ j \in DOMAIN x /\ x[i] \in Message /\ x[j] \in Message
    BY <2>1, <2>2
  <2>4. ~iop
    BY <2>1, <2>2, <2>3 DEF OnTheWay, InPaneOrder
  <2>5. PICK p : p = x[j].pane_id
    OBVIOUS
  <2>6. p \in Pane /\ Names(x[j], p) /\ x[i].pane_id \in Pane
    <3>1. x[j].type \in Naming /\ x[i].type = "PUNCT"
      BY <2>1 DEF Naming
    <3> QED
      BY <2>3, <2>5, <3>1, MessageFields DEF Names
  <2>7. Punctuated(DOMAIN paneSet[w], x, sched.next_pane_id)
    BY <2>2, <2>4 DEF OnTheWay
  <2>8. x[i].pane_id <= p
    BY <2>1, <2>3, <2>6, <2>7 DEF Punctuated
  <2>9. PICK q : q = x[i].pane_id
    OBVIOUS
  <2>10. p \in Nat /\ q \in Nat /\ q <= p
    BY <2>6, <2>8, <2>9, WorkersAreNumbers
  <2>11. p >= q
    BY ONLY <2>10
  <2> QED
    BY <2>1, <2>5, <2>9, <2>11
<1> QED
  BY <1>1, StageIsInOrder, PTL

\* Out of order, a results set of a closed pane is never forgotten in a deque:
\* what makes the worker send it, a punctuation, FLUSH or END, is in its queue,
\* whatever panes the worker held when the punctuation was broadcast.
THEOREM ClosedAreSent == Spec => []ClosedIsSent
<1>1. StageInv => ClosedIsSent
  <2> SUFFICES ASSUME StageInv, ~iop, NEW w \in Worker,
                      NEW p \in DOMAIN paneSet[w], p < sched.next_pane_id
               PROVE  \E m \in ToSet(queue[w]) :
                         \/ m.type = "PUNCT" /\ m.pane_id > p
                         \/ m.type \in {"FLUSH", "END"}
    BY DEF ClosedIsSent
  <2>1. OnTheWay(DOMAIN paneSet[w], queue[w], sched.next_pane_id,
                 IF plqTerminated THEN {} ELSE HeldBy(sched, w))
    BY OfEachWorker
  <2>2. PICK j \in DOMAIN queue[w] : Closes(queue[w][j], p)
    BY <2>1 DEF OnTheWay, Punctuated
  <2>3. queue[w][j] \in ToSet(queue[w])
    BY DEF ToSet
  <2> QED
    BY <2>2, <2>3 DEF Closes
<1> QED
  BY <1>1, StageIsInOrder, PTL

\* A worker that takes NEW_INST has a results set of the pane, so that the abort
\* of PLQ_Worker::svc is never reached.
THEOREM NewInstIsForHolders == Spec => []NewInstFindsPane
<1>1. StageInv => NewInstFindsPane
  <2> SUFFICES ASSUME StageInv, NEW w \in Worker, Ready(w, "NEW_INST")
               PROVE  Head(queue[w]).pane_id \in DOMAIN paneSet[w]
    BY DEF NewInstFindsPane
  <2>1. PICK x : x = queue[w]
    OBVIOUS
  <2>2. x # <<>> /\ Head(x).type = "NEW_INST"
    BY <2>1 DEF Ready
  <2>3. /\ x \in Seq(Message)
        /\ OnTheWay(DOMAIN paneSet[w], x, sched.next_pane_id,
                    IF plqTerminated THEN {} ELSE HeldBy(sched, w))
    BY <2>1, OfEachWorker
  <2>4. 1 \in DOMAIN x /\ Head(x) = x[1] /\ x[1] \in Message /\ DOMAIN x = 1..Len(x)
    <3>1. Len(x) \in Nat \ {0} /\ DOMAIN x = 1..Len(x) /\ Head(x) = x[1]
      BY <2>2, <2>3, TailQueue
    <3>2. 1 \in DOMAIN x
      BY <3>1
    <3> QED
      BY <2>3, <3>1, <3>2
  <2>5. PICK p : p = x[1].pane_id
    OBVIOUS
  <2>6. p \in Pane
    <3>1. x[1].type \in Naming
      BY <2>2, <2>4 DEF Naming
    <3> QED
      BY <2>4, <2>5, <3>1, MessageFields
  <2>7. p \in DOMAIN paneSet[w] \/ \E i \in DOMAIN x : i < 1 /\ Makes(x[i], p)
    BY <2>2, <2>3, <2>4, <2>5, <2>6 DEF OnTheWay, Prepared
  <2>8. \A i \in DOMAIN x : ~(i < 1)
    BY <2>4
  <2> QED
    BY <2>1, <2>4, <2>5, <2>7, <2>8
<1> QED
  BY <1>1, StageIsInOrder, PTL

\* With the adaptive strategy the active worker of an open pane is activated and
\* has a partition of the pane: the tuples of sched_to_worker never go to a
\* worker that removeWorkers has told to freeze.
THEOREM ActiveWorkersHold == Spec => []ActiveHolds
<1>1. StageInv => ActiveHolds
  <2> SUFFICES ASSUME StageInv, Adaptive,
                      NEW p \in sched.next_pane_id..(sched.n_panes - 1),
                      sched.a_worker[p] # NoWorker
               PROVE  sched.a_worker[p] \in sched.holders[p] \cap sched.activated
    BY DEF ActiveHolds
  <2>1. /\ Emitter \in EmitterType /\ Emitter.s = sched
        /\ \A q \in Pane : q >= Emitter.s.next_pane_id => PaneInv(Emitter.s, q)
    BY DEF StageInv, EmitterInv, Emitter
  <2>2. PICK l : l = sched.next_pane_id
    OBVIOUS
  <2>3. PICK k : k = sched.n_panes
    OBVIOUS
  <2>4. PICK z : z = PaneOf(MaxTs)
    OBVIOUS
  <2>5. l \in Nat /\ z \in Nat /\ k \in 0..(z + 1) /\ p \in l..(k - 1) /\ Pane = 0..z
    BY <2>1, <2>2, <2>3, <2>4, WorkersAreNumbers DEF EmitterType, Sched, Pane
  <2>6. p \in 0..z /\ p >= l
    BY ONLY <2>5
  <2>7. PaneInv(sched, p)
    BY <2>1, <2>2, <2>5, <2>6
  <2> QED
    BY <2>7 DEF PaneInv, ActiveInv
<1> QED
  BY <1>1, StageIsInOrder, PTL

=============================================================================
