-------------------------------- MODULE PLQ --------------------------------
(***************************************************************************)
(* The pane-level query stage (include/plq.hpp, and class Sched of         *)
(* include/sched_plq.hpp): what is common to the scheduling strategies.    *)
(* The modules PB_RR_Sched, TB_RR_Sched and Adaptive_Sched add a strategy  *)
(* each, and PLQStage the next-state relation.  The stage exists in two    *)
(* builds: for out-of-order streams                                        *)
(* (PLQ_Emitter, PLQ_Worker), where punctuations close the panes, and for  *)
(* streams put in order first (IOP: PLQ_Emitter_IOP, PLQ_Worker_IOP),      *)
(* where the next pane closes the previous ones.                           *)
(*                                                                         *)
(* The emitter turns the stream of tuples into panes.  It sends tuples to  *)
(* workers, each of which keeps a deque of results sets, one per open pane *)
(* of which it holds a partition; a pane may be split into partitions held *)
(* by several workers.  Workers are added and removed at run time.  The    *)
(* delicate part is p_instances, the number of partitions of each pane:    *)
(* it travels in the messages, and the next stage uses the copy found in   *)
(* the results sets to know when it has all the partitions.                *)
(*                                                                         *)
(* A tuple is its timestamp; the content of a results set is the number of *)
(* tuples in it.                                                           *)
(***************************************************************************)
EXTENDS KSlack, FiniteSets, SequencesExt

CONSTANTS
    NUM_WORKER_THREADS, \* number of threads of the worker pool of the stage
    NW_PLQ,             \* number of workers utilized at the start
    PaneLength,         \* timestamps per pane
    Builds,             \* the values of the macro IOP to be explored
    MaxTs,              \* bound: the timestamps are 0..MaxTs
    MaxTuples,          \* bound on the number of tuples of the stream
    MaxReconf           \* bound on the number of commands of the controller

ASSUME PLQAssumption ==
    /\ NUM_WORKER_THREADS \in Nat \ {0}
    /\ NW_PLQ \in 1..NUM_WORKER_THREADS
    /\ PaneLength \in Nat \ {0}
    /\ Builds \subseteq BOOLEAN
    /\ {MaxTs, MaxTuples, MaxReconf} \subseteq Nat

Worker    == 0..(NUM_WORKER_THREADS - 1)
Timestamp == 0..MaxTs
PaneOf(ts) == ts \div PaneLength
Pane      == 0..PaneOf(MaxTs)

Larger(a, b) == IF a > b THEN a ELSE b

\* The messages of tuple_t, with the fields that matter.
Regular(p, n)   == [type |-> "REGULAR",   pane_id |-> p, no_instances |-> n]
EmptyPane(p, n) == [type |-> "EMPTYPANE", pane_id |-> p, no_instances |-> n]
NewInst(p, n)   == [type |-> "NEW_INST",  pane_id |-> p, no_instances |-> n]
Lull(p)         == [type |-> "LULL",      pane_id |-> p, no_instances |-> 1]
Punct(p)        == [type |-> "PUNCT",     pane_id |-> p]
FLUSH(p)        == [type |-> "FLUSH",     pane_id |-> p]
END             == [type |-> "END"]
GO_OUT          == [type |-> "GO_OUT"]
EOS             == [type |-> "EOS"]

VARIABLES
    sched,              \* the scheduler object of the emitter, see SchedInit
    queue,              \* input queue of each worker
    paneSet,            \* deque of each worker: pane |-> results set
    status,             \* thread of each worker: "running", "frozen", "ended"
    results,            \* what the next stage received of each pane
    iop,                \* the build: TRUE if the stream is put in order
    kslack,             \* the K-slack object of the emitter
    last_P,             \* highest punctuation seen (unless IOP)
    last_timestamp,     \* timestamp of the last tuple scheduled (if IOP)
    received,           \* tuples received from the generator
    reconfs,            \* commands received from the controller
    plqTerminated       \* the stream is over

emitterVars == <<sched, iop, kslack, last_P, last_timestamp, received, reconfs,
                 plqTerminated>>
workerVars  == <<paneSet, status, results>>
vars == <<emitterVars, queue, workerVars>>

NoWorker == -1

\* holders[p]: the workers that have an open partition of pane p as far as the
\* strategy knows (panes_ws[p] or p_workers[p]); n_panes: the common size of
\* the vectors indexed by panes.  a_worker and warmup are used by Adaptive_Sched.
SchedInit ==
    [activated     |-> 0..(NW_PLQ - 1),
     nw_plq        |-> NW_PLQ,
     last_w        |-> 0,
     next_pane_id  |-> 0,
     n_panes       |-> 0,
     p_instances   |-> [p \in Pane |-> 0],
     pane_size     |-> [p \in Pane |-> 0],
     holders       |-> [p \in Pane |-> {}],
     a_worker      |-> [p \in Pane |-> NoWorker],
     warmup        |-> FALSE]

EmptyDeque == [p \in {} |-> 0]

\* The initial states with the scheduler s.
InitWith(s) ==
    /\ sched = s
    /\ queue = [w \in Worker |-> IF w < NW_PLQ THEN <<>> ELSE <<GO_OUT>>]
    /\ paneSet = [w \in Worker |-> EmptyDeque]
    /\ status = [w \in Worker |-> "running"]
    /\ results = [p \in Pane |-> [parts |-> 0, tuples |-> 0, counts |-> {}]]
    /\ iop \in Builds
    /\ kslack = NewKSlack /\ last_P = 0 /\ last_timestamp = 0
    /\ received = 0 /\ reconfs = 0
    /\ plqTerminated = FALSE

-----------------------------------------------------------------------------
(* The emitter.  A handler is an operator from an emitter e, a record of   *)
(* the scheduler object s, the queues q, last_P and last_timestamp, to     *)
(* another one.                                                            *)

Emitter == [s |-> sched, q |-> queue, last_P |-> last_P,
            last_timestamp |-> last_timestamp]
Update(e) ==
    /\ sched' = e.s /\ queue' = e.q
    /\ last_P' = e.last_P /\ last_timestamp' = e.last_timestamp

Send(e, w, m) == [e EXCEPT !.q[w] = Append(@, m)]
Multicast(e, W, m) ==
    [e EXCEPT !.q = [w \in Worker |-> IF w \in W THEN Append(e.q[w], m) ELSE e.q[w]]]

\* get_rr_w: the first activated worker from last_w on, wrapping around.
Distance(s, w) == (w - s.last_w) % NUM_WORKER_THREADS
get_rr_w(s) ==
    CHOOSE w \in s.activated :
        \A v \in s.activated : Distance(s, w) <= Distance(s, v)
SendRR(e, m) ==
    LET w == get_rr_w(e.s) IN
    [Send(e, w, m) EXCEPT !.s.last_w = (w + 1) % NUM_WORKER_THREADS]

\* The panes from..to in increasing order.
PanesFrom(from, to) == [i \in 1..(to - from + 1) |-> from + i - 1]

\* A pane is complete and has no tuple: some worker shall produce an empty
\* results set of it.
LullIfEmpty(e, p) ==
    IF e.s.pane_size[p] = 0
    THEN [SendRR(e, Lull(p)) EXCEPT !.s.p_instances[p] = 1]
    ELSE e

\* The panes from..to are complete.
Lulled(e, from, to) == FoldLeft(LullIfEmpty, e, PanesFrom(from, to))

\* All the panes before p_id are complete; if not IOP, the workers are told.
executeStreamProgress(e, p_id) ==
    IF p_id < e.s.next_pane_id THEN e
    ELSE LET resized == [e EXCEPT !.s.n_panes = Larger(@, p_id + 1)]
             lulled  == Lulled(resized, e.s.next_pane_id, p_id - 1)
             closed  == [lulled EXCEPT !.s.next_pane_id = p_id]
         IN IF iop THEN closed ELSE Multicast(closed, e.s.activated, Punct(p_id))

\* The punctuation punct of K-slack is broadcast unless the previous one is too
\* recent (elapsed = FALSE).
Progressed(e, punct, elapsed) ==
    LET known == [e EXCEPT !.last_P = Larger(@, punct)]
    IN IF punct # NoPunct /\ elapsed
       THEN executeStreamProgress(known, PaneOf(punct))
       ELSE known

\* Mutant of Late: no tuple is dropped.
Late_Never(e, ts) == FALSE

\* The tuple is older than a punctuation (out of order) or than a tuple that
\* was scheduled (in order): it is dropped.
Late(e, ts) == IF iop THEN ts < e.last_timestamp ELSE ts < e.last_P

\* In order: the panes before that of the tuple are complete.
Advanced(e, ts) ==
    executeStreamProgress([e EXCEPT !.last_timestamp = ts], PaneOf(ts))

\* processNewTuple: K-slack has seen the tuple and is k now, the emitter has
\* made progress, has dropped some tuples, has applied the strategy of
\* scheduling to others, and is e now.
processNewTuple(k, e) ==
    /\ ~plqTerminated /\ received < MaxTuples
    /\ received' = received + 1
    /\ kslack' = k
    /\ \E next \in {e} : Update(next)
    /\ UNCHANGED <<iop, reconfs, plqTerminated, workerVars>>

\* addWorkers: thaw waits until the thread of the worker is frozen.
AddWorkers(W) ==
    /\ ~plqTerminated /\ reconfs < MaxReconf
    /\ W # {} /\ W \cap sched.activated = {}
    /\ \A w \in W : status[w] = "frozen"
    /\ sched' = [sched EXCEPT !.nw_plq = @ + Cardinality(W),
                              !.activated = @ \cup W]
    /\ status' = [w \in Worker |-> IF w \in W THEN "running" ELSE status[w]]
    /\ reconfs' = reconfs + 1
    /\ UNCHANGED <<queue, paneSet, results, iop, kslack, last_P, last_timestamp,
                   received, plqTerminated>>

\* Mutant of Retire: the order to freeze comes first.
Retire_Swapped(e, W) ==
    Multicast(Multicast(e, W, GO_OUT), W, FLUSH(e.s.next_pane_id))

\* The removed workers flush their deques and freeze.
Retire(e, W) ==
    Multicast(Multicast(e, W, FLUSH(e.s.next_pane_id)), W, GO_OUT)

\* Mutant of OpenPanes: the closed panes are repaired as well.
OpenPanes_All(s) == PanesFrom(0, s.n_panes - 1)

\* The panes that are not closed.
OpenPanes(s) == PanesFrom(s.next_pane_id, s.n_panes - 1)

\* Only activated workers are given up, and never all of them.
CanRemove(W) == W # {} /\ W \subseteq sched.activated /\ W # sched.activated

\* The workers W are not activated any more and are told so.
Removed(W) ==
    Retire([Emitter EXCEPT !.s.nw_plq = @ - Cardinality(W),
                           !.s.activated = @ \ W], W)

\* removeWorkers: after Removed, the strategy has repaired each pane that is
\* not closed: that gives the emitter repaired.
RemoveWorkers(W, repaired) ==
    /\ ~plqTerminated /\ reconfs < MaxReconf
    /\ CanRemove(W)
    /\ \E e \in {repaired} : Update(e)
    /\ reconfs' = reconfs + 1
    /\ UNCHANGED <<iop, kslack, received, plqTerminated, workerVars>>

\* Mutant of EndOfStream: the workers that are not activated are not woken up.
EndOfStream_NoThaw(e) ==
    /\ ~plqTerminated
    /\ plqTerminated' = TRUE
    /\ kslack' = [kslack EXCEPT !.buffer = <<>>]
    /\ Update([e EXCEPT !.s.activated = Worker,
                        !.q = [w \in Worker |-> e.q[w] \o <<END, EOS>>]])
    /\ UNCHANGED <<status, paneSet, results, iop, received, reconfs>>

\* The generator closed the connection.  After the emitter has scheduled the
\* tuples left in the buffer and is e, all the workers are woken up and get END
\* and then the EOS of FastFlow (flushTupleBuffer, broadcast_end_to_w, svc).
EndOfStream(e) ==
    /\ ~plqTerminated
    /\ \A w \in Worker \ sched.activated : status[w] = "frozen"
    /\ plqTerminated' = TRUE
    /\ kslack' = [kslack EXCEPT !.buffer = <<>>]
    /\ status' = [w \in Worker |-> "running"]
    /\ Update([e EXCEPT !.s.activated = Worker,
                        !.q = [w \in Worker |-> e.q[w] \o <<END, EOS>>]])
    /\ UNCHANGED <<paneSet, results, iop, received, reconfs>>

-----------------------------------------------------------------------------
(* The workers.  A results set is [no_instances, tuples].                  *)

Ready(w, type) ==
    /\ status[w] = "running"
    /\ queue[w] # <<>> /\ Head(queue[w]).type = type
Pop(w) == queue' = [queue EXCEPT ![w] = Tail(@)]

\* The results sets rs (pane |-> results set) are sent to the next stage.
Deliver(rs) ==
    results' = [p \in Pane |->
        IF p \in DOMAIN rs
        THEN [parts  |-> results[p].parts + 1,
              tuples |-> results[p].tuples + rs[p].tuples,
              counts |-> results[p].counts \cup ({rs[p].no_instances} \ {0})]
        ELSE results[p]]

\* A punctuation closes the panes before it.
RcvPunct(w) ==
    /\ Ready(w, "PUNCT") /\ Pop(w)
    /\ LET p_id == Head(queue[w]).pane_id
           Closed(p) == p < p_id
       IN /\ Deliver(RestrictDomain(paneSet[w], Closed))
          /\ paneSet' = [paneSet EXCEPT ![w] =
                            Restrict(@, {p \in DOMAIN @ : p >= p_id})]
    /\ UNCHANGED <<emitterVars, status>>

\* The stream is over: all the results sets are sent.
RcvEnd(w) ==
    /\ Ready(w, "END") /\ Pop(w)
    /\ Deliver(paneSet[w])
    /\ paneSet' = [paneSet EXCEPT ![w] = EmptyDeque]
    /\ UNCHANGED <<emitterVars, status>>

\* Mutant of Unspecified: the number of partitions is sent as it is.
Unspecified_Kept(r) == r

\* A results set that does not tell the number of partitions of its pane.
Unspecified(r) == [r EXCEPT !.no_instances = 0]

\* The worker is being removed: all the results sets are sent, without the
\* number of partitions, which may still grow, unless the pane is closed (IOP).
RcvFlush(w) ==
    /\ Ready(w, "FLUSH") /\ Pop(w)
    /\ LET Closed(p) == iop /\ p < Head(queue[w]).pane_id
       IN Deliver([p \in DOMAIN paneSet[w] |->
                      IF Closed(p) THEN paneSet[w][p] ELSE Unspecified(paneSet[w][p])])
    /\ paneSet' = [paneSet EXCEPT ![w] = EmptyDeque]
    /\ UNCHANGED <<emitterVars, status>>

\* The pane has one more partition, held by another worker.  The code aborts
\* if this worker has no results set of the pane.
RcvNewInst(w) ==
    /\ Ready(w, "NEW_INST") /\ Pop(w)
    /\ LET m == Head(queue[w]) IN
          /\ m.pane_id \in DOMAIN paneSet[w]
          /\ paneSet' = [paneSet EXCEPT ![w][m.pane_id].no_instances = m.no_instances]
    /\ UNCHANGED <<emitterVars, status, results>>

\* An empty results set goes directly to the next stage.
RcvLull(w) ==
    /\ Ready(w, "LULL") /\ Pop(w)
    /\ LET m == Head(queue[w])
       IN Deliver([p \in {m.pane_id} |->
                      [no_instances |-> m.no_instances, tuples |-> 0]])
    /\ UNCHANGED <<emitterVars, paneSet, status>>

\* The results set r with the tuple of message m, if any (REGULAR, EMPTYPANE).
Filled(r, m) == IF m.type = "REGULAR" THEN [r EXCEPT !.tuples = @ + 1] ELSE r
Created(m) == [no_instances |-> m.no_instances, tuples |-> 0]

\* A tuple, or the order to hold an empty partition: a missing results set is
\* created with the number of partitions of the message; an existing one keeps
\* its own.
RcvTuple(w) ==
    /\ ~iop /\ (Ready(w, "REGULAR") \/ Ready(w, "EMPTYPANE"))
    /\ Pop(w)
    /\ LET m == Head(queue[w])
           held == DOMAIN paneSet[w]
           old == IF m.pane_id \in held THEN paneSet[w][m.pane_id] ELSE Created(m)
       IN paneSet' = [paneSet EXCEPT ![w] =
                        [p \in held \cup {m.pane_id} |->
                            IF p = m.pane_id THEN Filled(old, m) ELSE @[p]]]
    /\ UNCHANGED <<emitterVars, status, results>>

\* The same in order: the results sets of the panes before are sent.  They leave
\* the deque if a results set is created; if not, the first one that is not
\* before the pane is taken for that of the pane.
RcvInOrder(w) ==
    /\ iop /\ (Ready(w, "REGULAR") \/ Ready(w, "EMPTYPANE"))
    /\ Pop(w)
    /\ LET m == Head(queue[w])
           Before(p) == p < m.pane_id
           rest == {p \in DOMAIN paneSet[w] : ~Before(p)}
       IN /\ Deliver(RestrictDomain(paneSet[w], Before))
          /\ paneSet' = [paneSet EXCEPT ![w] =
                IF rest = {} THEN [p \in {m.pane_id} |-> Filled(Created(m), m)]
                ELSE [paneSet[w] EXCEPT ![Min(rest)] = Filled(@, m)]]
    /\ UNCHANGED <<emitterVars, status>>

\* External: the FastFlow thread of a worker that takes GO_OUT freezes, one
\* that takes EOS ends and sends EOS to the next stage.
Leave(w) ==
    /\ Ready(w, "GO_OUT") \/ Ready(w, "EOS")
    /\ Pop(w)
    /\ status' = [status EXCEPT ![w] =
                    IF Head(queue[w]) = EOS THEN "ended" ELSE "frozen"]
    /\ UNCHANGED <<emitterVars, paneSet, results>>

WorkerStep(w) ==
    \/ RcvPunct(w) \/ RcvEnd(w) \/ RcvFlush(w) \/ RcvNewInst(w)
    \/ RcvLull(w) \/ RcvTuple(w) \/ RcvInOrder(w) \/ Leave(w)

\* The stage has ended.
Done == (\A w \in Worker : status[w] = "ended") /\ UNCHANGED vars

-----------------------------------------------------------------------------
(* Properties *)

\* Messages that make or fill a partition of a pane.
PartitionTypes == {"REGULAR", "EMPTYPANE", "LULL"}

\* Some partition of pane p is still in a queue or in a deque.
InFlight(p) ==
    \E w \in Worker :
        \/ p \in DOMAIN paneSet[w]
        \/ \E m \in ToSet(queue[w]) : m.type \in PartitionTypes /\ m.pane_id = p

\* If pane p is closed and its last partition has left the stage, the next
\* stage has got exactly p_instances partitions and all the tuples that were
\* scheduled, and has been told that number of partitions and no other.
DeliveredWhole(p) ==
    /\ p < sched.next_pane_id \/ (plqTerminated /\ sched.p_instances[p] > 0)
    /\ ~InFlight(p)
    => results[p] = [parts  |-> sched.p_instances[p],
                     tuples |-> sched.pane_size[p],
                     counts |-> {sched.p_instances[p]}]

\* The comment "p_instances[i] is the total number of partitions of the i-th
\* pane": every pane that has tuples is delivered whole, whatever workers were
\* added or removed while it was open.
FilledPaneComplete ==
    \A p \in Pane : sched.pane_size[p] > 0 => DeliveredWhole(p)

\* A worker that takes NEW_INST holds the pane (PLQ_Worker::svc aborts if not).
NewInstFindsPane ==
    \A w \in Worker :
        Ready(w, "NEW_INST") => Head(queue[w]).pane_id \in DOMAIN paneSet[w]

\* Nothing of a pane follows the punctuation that closes it in a queue: the
\* pane would be reopened and delivered a second time.
NothingAfterPunct ==
    \A w \in Worker : \A i, j \in 1..Len(queue[w]) :
        LET a == queue[w][i]  b == queue[w][j] IN
        /\ i < j /\ a.type = "PUNCT"
        /\ b.type \in {"REGULAR", "EMPTYPANE", "NEW_INST"}
        => b.pane_id >= a.pane_id

\* A results set of a closed pane is never forgotten in a deque: a message that
\* makes the worker send it is in its queue.  (In order, it may wait for the
\* next message to the worker.)
ClosedIsSent ==
    ~iop => \A w \in Worker : \A p \in DOMAIN paneSet[w] :
        p < sched.next_pane_id =>
            \E m \in ToSet(queue[w]) :
                \/ m.type = "PUNCT" /\ m.pane_id > p
                \/ m.type \in {"FLUSH", "END"}

\* A worker freezes with an empty queue and an empty deque: no tuple waits in
\* a worker that is not running.
FrozenIsEmpty ==
    \A w \in Worker :
        status[w] # "running" => queue[w] = <<>> /\ paneSet[w] = EmptyDeque

\* Once the generator stops, the stage ends with every pane delivered.
EventuallyDelivered ==
    plqTerminated ~> (\A w \in Worker : status[w] = "ended")

=============================================================================
