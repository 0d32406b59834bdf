-------------------------------- MODULE WLQ --------------------------------
(***************************************************************************)
(* The window-level query stage (include/wlq.hpp): the WLQ emitter, the    *)
(* WLQ workers and the collector, and the elastic reconfigurations of the  *)
(* workers.                                                                *)
(*                                                                         *)
(* The emitter is one thread that serves four sources: the results sets of *)
(* pane partitions coming from the PLQ workers, the EOS of those workers,  *)
(* the feedback of its own workers and the commands of the controller.  It *)
(* keeps for each open window a descriptor with a queue of results sets    *)
(* still to be merged, and hands out tasks: WIN_UPDATE adds one results    *)
(* set to the window, MERGE joins two of them.  When the task it hands out *)
(* is the last one of the window, the worker sends the window to the       *)
(* collector.                                                              *)
(*                                                                         *)
(* A results set is the set of the partitions merged into it; a partition  *)
(* is <<pane, i>>.  The PLQ stage is abstracted to its contract (module    *)
(* PanePartitions): the partitions of the panes arrive in any order, each  *)
(* one with the final number of partitions of its pane or with 0 when it   *)
(* was flushed before that number was known, and at least one partition of *)
(* a pane carries the number.                                              *)
(***************************************************************************)
EXTENDS WLQCollector, FiniteSets, SequencesExt

CONSTANTS
    NUM_WORKER_THREADS, \* number of threads of the worker pool of the stage
    NW_WLQ,             \* number of workers utilized at the start
    wp,                 \* panes in a window
    sp,                 \* panes in a slide
    MaxPane,            \* bound: the panes are 0..MaxPane
    MaxParts,           \* bound on the number of partitions of a pane
    Totals,             \* the numbers of partitions the panes may have
    MaxReconf,          \* bound on the number of commands of the controller
    SizeT               \* the modulus of size_t

ASSUME WLQAssumption ==
    /\ NUM_WORKER_THREADS \in Nat \ {0}
    /\ NW_WLQ \in 1..NUM_WORKER_THREADS
    /\ sp \in Nat \ {0}
    /\ wp \in Nat \ {0}
    /\ sp <= wp         \* sliding windows: every pane lies in a window
    /\ MaxPane \in Nat
    /\ MaxParts \in Nat \ {0}
    /\ Totals \subseteq [0..MaxPane -> 1..MaxParts]
    /\ MaxReconf \in Nat
    /\ SizeT \in Nat \ {0}
    /\ MaxWindow = MaxPane \div sp

Worker    == 0..(NUM_WORKER_THREADS - 1)
Pane      == 0..MaxPane
Partition == Pane \X (1..MaxParts)
LocalPane == 0..(wp - 1)
UNKNOWN   == -1         \* cnt_ins of a pane whose partitions are not counted

\* The windows a pane belongs to (WLQ_Emitter::svc).
FirstWin(p) == IF p < wp THEN 0 ELSE (p + sp - wp) \div sp
LastWin(p)  == (p + sp) \div sp - 1
WindowsOf(p) == FirstWin(p)..LastWin(p)

\* Mutant of countWindows: every pane is taken to be in one window.
countWindows_One(p) == 1 % SizeT

\* countWindows: the initial reference counter of a results set, computed
\* from identifiers that start from 1 and in size_t.
countWindows(p) ==
    LET first == FirstWin(p) + 1
        last  == LastWin(p) + 1
    IN (first - last + 1) % SizeT

UpdateTask(k, r, last) ==
    [type |-> "WIN_UPDATE", win_id |-> k, p1 |-> {}, p2 |-> r, finalize |-> last]
MergeTask(k, r1, r2) ==
    [type |-> "MERGE", win_id |-> k, p1 |-> r1, p2 |-> r2, finalize |-> FALSE]
GO_OUT == [type |-> "GO_OUT"]
EOS    == [type |-> "EOS"]

VARIABLES
    \* the PLQ stage, as the emitter sees it
    total,              \* final number of partitions of each pane
    toArrive,           \* partitions not delivered yet
    announced,          \* panes whose number of partitions was delivered
    eos_received,       \* EOS received from the PLQ workers
    \* the emitter: the deque of window descriptors
    first_win_id,       \* window of the first slot of descrSet
    end_win,            \* first_win_id + descrSet.size()
    open,               \* windows whose slot of descrSet is not null
    cnt_ins, cnt_tasks_com, pendingQueue, isBusy,
    \* the emitter: the workers
    n_pendingtasks, workerReady, n_readyWorkers, activatedWorker, nw_wlq,
    last_w, wlqTerminated,
    reconfs,            \* commands received so far
    \* the workers
    in_q,               \* input queue of each worker
    status,             \* "running", "frozen" or "ended"
    feedback,           \* feedback channel of each worker
    to_coll,            \* channel of each worker to the collector
    results,            \* results set of each window
    refCounter, freed   \* of the results sets of the partitions

plqVars  == <<total, toArrive, announced, eos_received>>
descVars == <<first_win_id, end_win, open, cnt_ins, cnt_tasks_com,
              pendingQueue, isBusy>>
poolVars == <<n_pendingtasks, workerReady, n_readyWorkers, activatedWorker,
              nw_wlq, last_w, wlqTerminated, reconfs>>
dataVars == <<results, refCounter, freed>>
workVars == <<in_q, status, feedback, to_coll, dataVars>>
vars == <<plqVars, descVars, poolVars, workVars, collectorVars>>

Init ==
    /\ total \in Totals
    /\ toArrive = {x \in Partition : x[2] <= total[x[1]]}
    /\ announced = {}
    /\ eos_received = 0
    /\ first_win_id = 0 /\ end_win = 0 /\ open = {}
    /\ cnt_ins = [k \in Window |-> [i \in LocalPane |-> UNKNOWN]]
    /\ cnt_tasks_com = [k \in Window |-> 0]
    /\ pendingQueue = [k \in Window |-> <<>>]
    /\ isBusy = [k \in Window |-> FALSE]
    /\ n_pendingtasks = 0
    /\ workerReady = Worker
    /\ n_readyWorkers = NUM_WORKER_THREADS
    /\ activatedWorker = (NUM_WORKER_THREADS - NW_WLQ)..(NUM_WORKER_THREADS - 1)
    /\ nw_wlq = NW_WLQ
    /\ last_w = 0
    /\ wlqTerminated = FALSE
    /\ reconfs = 0
    /\ in_q = [w \in Worker |-> IF w \in activatedWorker THEN <<>> ELSE <<GO_OUT>>]
    /\ status = [w \in Worker |-> "running"]
    /\ feedback = [w \in Worker |-> <<>>]
    /\ to_coll = [w \in Worker |-> <<>>]
    /\ results = [k \in Window |-> {}]
    /\ refCounter = [x \in Partition |-> countWindows(x[1])]
    /\ freed = {}
    /\ CollectorInit

-----------------------------------------------------------------------------
(* The scheduling of tasks to idle workers                                 *)

Rank(x, S)  == Cardinality({y \in S : y < x})

\* Mutant of First: one task too many is looked for.
First_OffByOne(n, S) == {x \in S : Rank(x, S) <= n}

\* The first n elements.
First(n, S) == {x \in S : Rank(x, S) < n}

\* Mutant of ToFinalize: a pane that did not come counts for nothing.
ToFinalize_Early(ins, com) ==
    SumFunction([i \in LocalPane |-> IF ins[i] = UNKNOWN THEN 0 ELSE ins[i]]) = com + 1

\* Mutant of ToFinalize: all the tasks of the window are completed.
ToFinalize_Late(ins, com) ==
    /\ \A i \in LocalPane : ins[i] # UNKNOWN
    /\ SumFunction(ins) = com

\* Win_Descr_t::toFinalize: one task of the window is left.
ToFinalize(ins, com) ==
    /\ \A i \in LocalPane : ins[i] # UNKNOWN
    /\ SumFunction(ins) = com + 1

\* The j-th idle worker that selectIdleWorker returns, for j = 0, 1, ...: the
\* search starts after last_w and wraps around.
Distance(w) == (w - last_w - 1) % NUM_WORKER_THREADS
Turn(w, idle) == Cardinality({v \in idle : Distance(v) < Distance(w)})

\* Mutant of Updatable: isBusy is ignored.
Updatable_Busy(e) == {k \in e.open : e.pending[k] # <<>>}

\* The windows of which a WIN_UPDATE task can be made.
Updatable(e) == {k \in e.open : ~e.busy[k] /\ e.pending[k] # <<>>}

\* Mutant of Assigned: one worker too many is taken.
Assigned_OffByOne(num, idle) == {w \in idle : Turn(w, idle) <= num}

\* The idle workers that get the num tasks found.
Assigned(num, idle) == {w \in idle : Turn(w, idle) < num}

\* The windows of which a MERGE task can be made when the queues are pending.
Mergeable(e, pending) == {k \in e.open : Len(pending[k]) > 1}

\* The task for worker w, if any: the idle workers get the WIN_UPDATE tasks of
\* the windows upd, then the MERGE tasks of the windows mrg, in their order;
\* pending: the queues after the updates were taken.
Sent(e, upd, mrg, pending, idle, w) ==
    LET updFor == {k \in upd : Turn(w, idle) = Rank(k, upd)}
        mrgFor == {k \in mrg : Turn(w, idle) = Cardinality(upd) + Rank(k, mrg)}
    IN CASE w \in idle /\ updFor # {} ->
              LET k == CHOOSE k \in updFor : TRUE
              IN <<UpdateTask(k, Last(e.pending[k]), ToFinalize(e.ins[k], e.com[k]))>>
         [] w \in idle /\ updFor = {} /\ mrgFor # {} ->
              LET k == CHOOSE k \in mrgFor : TRUE
              IN <<MergeTask(k, Last(pending[k]), Last(Front(pending[k])))>>
         [] OTHER -> <<>>

\* getWTasksToSchedule and the loop that sends the tasks found: at most one
\* task for each idle worker, first the WIN_UPDATE tasks of the windows that
\* are not busy, then MERGE tasks, in the order of the windows.  e holds the
\* fields of the emitter when the search begins.
Schedule(e, idle) ==
    LET n   == Cardinality(idle)
        upd == First(n, Updatable(e))
        pq  == [k \in Window |->
                   IF k \in upd THEN Front(e.pending[k]) ELSE e.pending[k]]
        mrg == First(n - Cardinality(upd), Mergeable(e, pq))
        num == Cardinality(upd) + Cardinality(mrg)
        assigned == Assigned(num, idle)
    IN [e EXCEPT
          !.pending = [k \in Window |->
                         IF k \in mrg THEN Front(Front(pq[k])) ELSE pq[k]],
          !.busy  = [k \in Window |-> e.busy[k] \/ k \in upd],
          !.open  = {k \in e.open : k \in upd => ~ToFinalize(e.ins[k], e.com[k])},
          !.npend = e.npend - num,
          !.ready = e.ready \ assigned,
          !.nready = e.nready - num,
          !.q     = [w \in Worker |-> in_q[w] \o Sent(e, upd, mrg, pq, idle, w)],
          !.last  = IF num = 0 THEN last_w
                    ELSE CHOOSE w \in assigned :
                            \A v \in assigned : Turn(v, idle) <= Turn(w, idle)]

Emitter ==
    [open |-> open, ins |-> cnt_ins, com |-> cnt_tasks_com,
     pending |-> pendingQueue, busy |-> isBusy, npend |-> n_pendingtasks,
     ready |-> workerReady, nready |-> n_readyWorkers, q |-> in_q,
     last |-> last_w]

Update(e) ==
    /\ open' = e.open
    /\ cnt_ins' = e.ins
    /\ cnt_tasks_com' = e.com
    /\ pendingQueue' = e.pending
    /\ isBusy' = e.busy
    /\ n_pendingtasks' = e.npend
    /\ workerReady' = e.ready
    /\ n_readyWorkers' = e.nready

-----------------------------------------------------------------------------
(* The handlers of the emitter                                             *)

\* Mutant of NewDescriptors: only the last window of the pane gets one.
NewDescriptors_Last(p) == IF LastWin(p) < end_win THEN {} ELSE {LastWin(p)}

\* The windows whose descriptors are created when pane p arrives.
NewDescriptors(p) == {k \in Window : end_win <= k /\ k <= LastWin(p)}

\* The descriptors after the results set of partition x joined the queues of
\* all the windows of its pane, new descriptors being created as needed.
Enqueue(x, inst) ==
    LET wins == WindowsOf(x[1])
        Local(k) == x[1] - sp * k
    IN [Emitter EXCEPT
          !.open = open \cup NewDescriptors(x[1]),
          !.ins = [k \in Window |->
              IF k \in wins /\ inst > 0 /\ cnt_ins[k][Local(k)] = UNKNOWN
              THEN [cnt_ins[k] EXCEPT ![Local(k)] = inst]
              ELSE cnt_ins[k]],
          !.pending = [k \in Window |->
              IF k \in wins THEN Append(pendingQueue[k], {x}) ELSE pendingQueue[k]],
          !.npend = n_pendingtasks + Cardinality(wins)]

\* A results set of pane x[1] arrives from the PLQ stage; inst is its number
\* of partitions, 0 if unspecified.
RcvResultsSet(x, inst) ==
    /\ x \in toArrive
    /\ inst \in {0, total[x[1]]}
    /\ inst = 0 => \/ x[1] \in announced
                   \/ \E y \in toArrive : y # x /\ y[1] = x[1]
    /\ toArrive' = toArrive \ {x}
    /\ announced' = IF inst = 0 THEN announced ELSE announced \cup {x[1]}
    /\ end_win' = IF LastWin(x[1]) + 1 > end_win THEN LastWin(x[1]) + 1 ELSE end_win
    /\ \E s \in {Schedule(Enqueue(x, inst), activatedWorker \cap workerReady)} :
          /\ Update(s)
          /\ in_q' = s.q
          /\ last_w' = s.last
          /\ first_win_id' = CHOOSE k \in first_win_id..end_win' :
                                /\ k \in s.open \/ k = end_win'
                                /\ first_win_id..(k - 1) \cap s.open = {}
    /\ UNCHANGED <<total, eos_received, activatedWorker, nw_wlq, wlqTerminated,
                   reconfs, status, feedback, to_coll, dataVars, collectorVars>>

\* Mutant of CheckTermination: the workers may still have tasks.
CheckTermination_Working(eos, npend, nready) ==
    eos = NUM_WORKER_THREADS /\ npend = 0

\* checkTermination: all the EOS came, nothing is queued, all workers ready.
CheckTermination(eos, npend, nready) ==
    /\ eos = NUM_WORKER_THREADS
    /\ npend = 0
    /\ nready = NUM_WORKER_THREADS

\* Ends the stage if it can end: the emitter thaws the workers that are not
\* activated (waiting until each of them is frozen) and broadcasts the EOS.
Terminate(e) ==
    IF CheckTermination(eos_received', e.npend, e.nready)
    THEN /\ \A w \in Worker \ activatedWorker : status[w] = "frozen"
         /\ activatedWorker' = Worker
         /\ status' = [w \in Worker |-> "running"]
         /\ wlqTerminated' = TRUE
         /\ in_q' = [w \in Worker |-> Append(e.q[w], EOS)]
    ELSE /\ in_q' = e.q
         /\ UNCHANGED <<activatedWorker, status, wlqTerminated>>

\* The EOS of a PLQ worker: the last one follows all the results sets.
EosNotify ==
    /\ eos_received < NUM_WORKER_THREADS
    /\ eos_received = NUM_WORKER_THREADS - 1 => toArrive = {}
    /\ eos_received' = eos_received + 1
    /\ Terminate(Emitter)
    /\ UNCHANGED <<total, toArrive, announced, descVars, n_pendingtasks,
                   workerReady, n_readyWorkers, nw_wlq, last_w, reconfs,
                   feedback, to_coll, dataVars, collectorVars>>

\* Mutant of Completed: a merged results set counts as a new piece of work.
Completed_Counted(w, fb) ==
    LET updated == fb.type = "WIN_UPDATE" /\ ~fb.finalize
        merged  == fb.type = "MERGE"
    IN [Emitter EXCEPT
          !.busy[fb.win_id] = IF updated THEN FALSE ELSE @,
          !.com[fb.win_id]  = IF updated \/ merged THEN @ + 1 ELSE @,
          !.pending[fb.win_id] = IF merged THEN Append(@, fb.p1) ELSE @,
          !.npend = IF merged THEN @ + 1 ELSE @,
          !.ready = workerReady \cup {w},
          !.nready = n_readyWorkers + 1]

\* The descriptors after the task fb of worker w was completed.
Completed(w, fb) ==
    LET updated == fb.type = "WIN_UPDATE" /\ ~fb.finalize
        merged  == fb.type = "MERGE"
    IN [Emitter EXCEPT
          !.busy[fb.win_id] = IF updated THEN FALSE ELSE @,
          !.com[fb.win_id]  = IF updated \/ merged THEN @ + 1 ELSE @,
          !.pending[fb.win_id] = IF merged THEN Append(@, fb.p1) ELSE @,
          !.ready = workerReady \cup {w},
          !.nready = n_readyWorkers + 1]

\* Mutant of CanServe: the worker is given a task although it was removed.
CanServe_Always(w) == TRUE

\* Only an activated worker is given another task.
CanServe(w) == w \in activatedWorker

\* The feedback of worker w: its window is no longer busy, or gets back the
\* merged results set; the worker is ready and, if activated, is given a task.
RcvFeedback(w) ==
    /\ feedback[w] # <<>>
    /\ feedback' = [feedback EXCEPT ![w] = Tail(@)]
    /\ UNCHANGED eos_received
    /\ \E e \in {Completed(w, Head(feedback[w]))} :
       \E s \in {IF CanServe(w) THEN Schedule(e, {w}) ELSE e} :
          Update(s) /\ Terminate(s)
    /\ UNCHANGED <<total, toArrive, announced, first_win_id, end_win, nw_wlq,
                   last_w, reconfs, to_coll, dataVars, collectorVars>>

\* The controller utilizes more workers.  thaw waits until the worker froze.
AddWorkers(W) ==
    /\ ~wlqTerminated /\ reconfs < MaxReconf
    /\ W # {} /\ W \cap activatedWorker = {}
    /\ \A w \in W : status[w] = "frozen"
    /\ nw_wlq' = nw_wlq + Cardinality(W)
    /\ activatedWorker' = activatedWorker \cup W
    /\ status' = [w \in Worker |-> IF w \in W THEN "running" ELSE status[w]]
    /\ reconfs' = reconfs + 1
    /\ UNCHANGED <<plqVars, descVars, n_pendingtasks, workerReady,
                   n_readyWorkers, last_w, wlqTerminated, in_q, feedback,
                   to_coll, dataVars, collectorVars>>

\* Only activated workers are given up, and never all of them.
CanRemove(W) == W # {} /\ W \subseteq activatedWorker /\ W # activatedWorker

\* The controller gives up some workers.
RemoveWorkers(W) ==
    /\ ~wlqTerminated /\ reconfs < MaxReconf
    /\ CanRemove(W)
    /\ nw_wlq' = nw_wlq - Cardinality(W)
    /\ activatedWorker' = activatedWorker \ W
    /\ in_q' = [w \in Worker |->
                   IF w \in W THEN Append(in_q[w], GO_OUT) ELSE in_q[w]]
    /\ reconfs' = reconfs + 1
    /\ UNCHANGED <<plqVars, descVars, n_pendingtasks, workerReady,
                   n_readyWorkers, last_w, wlqTerminated, status, feedback,
                   to_coll, dataVars, collectorVars>>

-----------------------------------------------------------------------------
(* The workers and the collector                                           *)

\* decreaseRefCounter of the original results sets among rs; one whose counter
\* was 1 is deallocated.  The sets that a MERGE created are used only once.
Release(rs) ==
    LET originals == {x \in Partition : {x} \in rs} IN
    /\ refCounter' = [x \in Partition |->
            IF x \in originals THEN (refCounter[x] - 1) % SizeT ELSE refCounter[x]]
    /\ freed' = freed \cup {x \in originals : refCounter[x] = 1}

\* WLQ_Worker::svc.
Execute(w) ==
    LET t == Head(in_q[w]) IN
    /\ status[w] = "running" /\ in_q[w] # <<>>
    /\ in_q' = [in_q EXCEPT ![w] = Tail(@)]
    /\ \/ /\ t.type = "WIN_UPDATE"
          /\ results' = [results EXCEPT ![t.win_id] = @ \cup t.p2]
          /\ Release({t.p2})
          /\ feedback' = [feedback EXCEPT ![w] = Append(@, [t EXCEPT !.p2 = {}])]
          /\ to_coll' = IF t.finalize
                        THEN [to_coll EXCEPT ![w] = Append(@, t.win_id)]
                        ELSE to_coll
       \/ /\ t.type = "MERGE"
          /\ Release({t.p1, t.p2})
          /\ feedback' = [feedback EXCEPT ![w] =
                            Append(@, [t EXCEPT !.p1 = t.p1 \cup t.p2, !.p2 = {}])]
          /\ UNCHANGED <<results, to_coll>>
    /\ UNCHANGED <<plqVars, descVars, poolVars, status, collectorVars>>

\* External: the FastFlow thread of a worker that takes GO_OUT freezes, one
\* that takes EOS ends.
Leave(w) ==
    /\ status[w] = "running" /\ in_q[w] # <<>>
    /\ Head(in_q[w]) \in {GO_OUT, EOS}
    /\ in_q' = [in_q EXCEPT ![w] = Tail(@)]
    /\ status' = [status EXCEPT ![w] =
                    IF Head(in_q[w]) = EOS THEN "ended" ELSE "frozen"]
    /\ UNCHANGED <<plqVars, descVars, poolVars, feedback, to_coll, dataVars,
                   collectorVars>>

\* WLQ_Collector::svc, for a window sent by worker w.
CollectFrom(w) ==
    /\ to_coll[w] # <<>>
    /\ Collect(Head(to_coll[w]))
    /\ to_coll' = [to_coll EXCEPT ![w] = Tail(@)]
    /\ UNCHANGED <<plqVars, descVars, poolVars, in_q, status, feedback, dataVars>>

\* The stage has ended.
Done ==
    /\ \A w \in Worker : status[w] = "ended" /\ to_coll[w] = <<>>
    /\ UNCHANGED vars

EmitterStep ==
    \/ \E x \in toArrive : \E inst \in {0, total[x[1]]} : RcvResultsSet(x, inst)
    \/ EosNotify
    \/ \E w \in Worker : RcvFeedback(w)

Reconfigure ==
    \/ \E W \in SUBSET Worker : AddWorkers(W)
    \/ \E W \in SUBSET Worker : RemoveWorkers(W)

WorkerStep(w) == Execute(w) \/ Leave(w)

Next ==
    \/ EmitterStep
    \/ Reconfigure
    \/ \E w \in Worker : WorkerStep(w)
    \/ \E w \in Worker : CollectFrom(w)
    \/ Done

Spec == Init /\ [][Next]_vars

\* Every thread keeps running and the PLQ stage delivers all it owes; nothing
\* forces the controller to give a command.
FairSpec ==
    /\ Spec
    /\ WF_vars(EmitterStep)
    /\ \A w \in Worker : WF_vars(WorkerStep(w)) /\ WF_vars(CollectFrom(w))

-----------------------------------------------------------------------------
(* Properties *)

IsTask(m) == m.type \in {"WIN_UPDATE", "MERGE"}
\* The tasks of worker w that the emitter waits for.
Outstanding(w) == {m \in ToSet(in_q[w]) \cup ToSet(feedback[w]) : IsTask(m)}

\* Two workers never update the results set of the same window at the same
\* time: isBusy protects the unsynchronized addComputeSet of WLQ_Worker::svc.
ExclusiveUpdate ==
    \A v, w \in Worker : \A s \in ToSet(in_q[v]), t \in ToSet(in_q[w]) :
        /\ s.type = "WIN_UPDATE" /\ t.type = "WIN_UPDATE"
        /\ s.win_id = t.win_id
        => v = w

\* A worker has at most one task, and is ready exactly when it has none; the
\* counter that checkTermination reads is the number of ready workers.
ReadyWorkers ==
    /\ \A w \in Worker :
          Cardinality({i \in 1..Len(in_q[w]) : IsTask(in_q[w][i])}) + Len(feedback[w])
            = IF w \in workerReady THEN 0 ELSE 1
    /\ n_readyWorkers = Cardinality(workerReady)

\* n_pendingtasks counts the queued results sets plus those that running MERGE
\* tasks will give back, although a MERGE takes two and decrements once.
PendingTasks ==
    n_pendingtasks =
        SumFunction([k \in Window |-> Len(pendingQueue[k])])
        + Cardinality({w \in Worker :
              \E t \in Outstanding(w) : t.type = "MERGE"})

\* The windows an arriving partition belongs to have their descriptors: svc
\* does not abort on a null slot and no index of the deque wraps around.
DescriptorsExist ==
    \A x \in toArrive : \A k \in WindowsOf(x[1]) :
        /\ k >= first_win_id
        /\ k < end_win => k \in open

\* The partitions of the window that have arrived so far.
Arrived(k) ==
    {x \in Partition : x[2] <= total[x[1]] /\ x \notin toArrive
                       /\ k \in WindowsOf(x[1])}

\* Where the partitions of window k are: in the window, in one of the results
\* sets of its queue or in one of the results sets of the task of a worker.
Places(k) == {<<"window", 0>>} \cup ({"queue"} \X DOMAIN pendingQueue[k])
             \cup ({"p1", "p2"} \X Worker)
In(k, place) ==
    CASE place[1] = "window" -> results[k]
      [] place[1] = "queue"  -> pendingQueue[k][place[2]]
      [] OTHER -> UNION {t[place[1]] :
                     t \in {t \in Outstanding(place[2]) : t.win_id = k}}

\* No partition of an open window is lost or merged twice, whatever the mix of
\* updates, merges and removals: each one that arrived is in exactly one place,
\* the window itself, its queue or a task.
PartitionsOnce ==
    \A k \in open :
        /\ Arrived(k) = UNION {In(k, place) : place \in Places(k)}
        /\ \A p, q \in Places(k) : p # q => In(k, p) \cap In(k, q) = {}

\* A window reaches the collector with all the partitions of all its panes,
\* once: the task that ToFinalize marked really was the last one.
FinalizedComplete ==
    \A w \in Worker : \A i \in 1..Len(to_coll[w]) :
        LET k == to_coll[w][i] IN
        /\ results[k] = {x \in Partition : x[2] <= total[x[1]]
                                           /\ k \in WindowsOf(x[1])}
        /\ sp * k + wp - 1 <= MaxPane
        /\ k \notin ToSet(out) \cup (ToSet(winSet) \ {NULL})

\* The EOS goes out only when nothing is left to do: every partition came and
\* is merged, and every window whose panes all came is finalized.
EOSIsLast ==
    wlqTerminated =>
        /\ toArrive = {}
        /\ \A k \in Window : pendingQueue[k] = <<>>
        /\ \A k \in open : sp * k + wp - 1 > MaxPane /\ results[k] = Arrived(k)
        /\ \A w \in Worker : Outstanding(w) = {}

\* A task is never queued behind a GO_OUT, where the worker would freeze with
\* it; a frozen worker has nothing to do.
FrozenHasNoTask ==
    \A w \in Worker :
        /\ status[w] # "running" => in_q[w] = <<>>
        /\ \A i, j \in 1..Len(in_q[w]) :
              in_q[w][i] = GO_OUT /\ IsTask(in_q[w][j]) => j < i

\* A deallocated results set of a partition is used by no queue and no task.
NoUseAfterFree ==
    /\ \A k \in open : \A x \in freed : {x} \notin ToSet(pendingQueue[k])
    /\ \A w \in Worker : \A t \in ToSet(in_q[w]) :
          IsTask(t) => \A x \in freed : {x} \notin {t.p1, t.p2}

\* The comment "deallocate p2 if it is not needed by any other WLQ task": when
\* the stage has ended, the partitions merged into all their windows are freed.
MergedAreFreed ==
    (\A w \in Worker : status[w] = "ended") =>
        {x \in Partition : x[2] <= total[x[1]]} \subseteq freed

Ordered == INSTANCE OrderedWindows

\* Seen from the client, the stage transmits the windows in order, without a
\* gap and without a repetition (the check of Client in src/pf_query.cpp).
RefinesOrdered == Ordered!Spec

\* The stage ends, and the client got every window whose panes all came.
EventuallyEnds ==
    <>(/\ \A w \in Worker : status[w] = "ended"
       /\ out = [i \in 1..Cardinality({k \in Window : sp * k + wp - 1 <= MaxPane})
                   |-> i - 1])

=============================================================================
