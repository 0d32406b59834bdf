------------------------------ MODULE PLQStage ------------------------------
(***************************************************************************)
(* The pane-level stage with the scheduling strategy that svc_init of its  *)
(* emitter creates: by panes, by tuples, or adaptive (include/plq.hpp).    *)
(***************************************************************************)
EXTENDS PB_RR_Sched, TB_RR_Sched, Adaptive_Sched

CONSTANT Strategies     \* the strategies to be explored

ASSUME StrategyAssumption == Strategies \subseteq {"PB_RR", "TB_RR", "ADAPTIVE"}

VARIABLES
    strategy,
    openedEmpty     \* history: the panes opened before their first tuple

stageVars == <<vars, strategy, openedEmpty>>

Adaptive == strategy = "ADAPTIVE"

\* svc_init.  The adaptive strategy is for streams out of order.
Init ==
    /\ strategy \in Strategies
    /\ InitWith(IF Adaptive THEN AdaptiveInit ELSE SchedInit)
    /\ Adaptive => ~iop
    /\ openedEmpty = {}

\* The least loaded worker is only asked for by the adaptive strategy.
LeastLoaded == IF Adaptive THEN sched.activated ELSE {NoWorker}
Sizes == IF Adaptive THEN BOOLEAN ELSE {FALSE}

sched_to_worker(e, p, large, llw) ==
    CASE strategy = "PB_RR" -> PB_sched_to_worker(e, p)
      [] strategy = "TB_RR" -> TB_sched_to_worker(e, p)
      [] Adaptive           -> AD_sched_to_worker(e, p, large, llw)

\* removeWorkers takes care of pane p, which had a partition at the workers W.
Repair(e, W, p, llw) ==
    CASE strategy = "PB_RR" -> PB_Repair(e, W, p)
      [] strategy = "TB_RR" -> TB_Repair(e, W, p)
      [] Adaptive           -> AD_Repair(e, p, llw)

\* Out of order: K-slack gives a punctuation when the stream makes progress.
StreamOOP ==
    \E ts \in Timestamp, elapsed \in BOOLEAN, large \in Sizes, llw \in LeastLoaded :
    \E punct \in Progress(kslack, ts) :
        LET progressed == Progressed(Emitter, punct, elapsed)
            e == IF Adaptive THEN AdaptiveProgressed(progressed, punct, elapsed)
                 ELSE progressed
        IN /\ ~iop /\ (punct = NoPunct => ~elapsed)
           /\ processNewTuple(Seen(kslack, ts),
                  IF Late(e, ts) THEN e
                  ELSE sched_to_worker(e, PaneOf(ts), large, llw))

\* In order: a tuple extracted from the buffer of K-slack.
Take(e, ts) ==
    IF Late(e, ts) THEN e
    ELSE sched_to_worker(Advanced(e, ts), PaneOf(ts), FALSE, NoWorker)

Taken(tuples) == FoldLeft(Take, Emitter, tuples)

\* In order: the tuples that the slack does not hold back any more are taken.
StreamIOP ==
    \E ts \in Timestamp : \E limit \in Progress(kslack, ts) :
        LET k == Inserted(kslack, ts)
        IN /\ iop
           /\ processNewTuple(Remaining(k, limit), Taken(Extracted(k, limit)))

\* removeWorkers, with the least loaded worker at each pane.
Repaired(W, llw) ==
    LET RepairPane(e, p) == Repair(e, W, p, llw[p])
    IN FoldLeft(RepairPane, Removed(W), OpenPanes(sched))

Reconfigure ==
    \/ \E W \in SUBSET Worker : AddWorkers(W)
    \/ \E W \in SUBSET Worker :
          \E llw \in [Pane -> IF Adaptive THEN sched.activated \ W ELSE LeastLoaded] :
            RemoveWorkers(W, Repaired(W, llw))

StageNext ==
    \/ StreamOOP
    \/ StreamIOP
    \/ EndOfStream(Taken(kslack.buffer))
    \/ Reconfigure
    \/ \E w \in Worker : WorkerStep(w)
    \/ Done

\* A step and what the history remembers of it.
Next ==
    /\ StageNext
    /\ strategy' = strategy
    /\ openedEmpty' = openedEmpty \cup
          {p \in Pane : sched'.holders[p] # {} /\ sched'.pane_size[p] = 0}

Spec == Init /\ [][Next]_stageVars

\* The threads of the workers keep running.
FairSpec == Spec /\ \A w \in Worker : WF_vars(WorkerStep(w))

-----------------------------------------------------------------------------
(* Properties *)

\* What each strategy achieves: the tuple-based one may deliver an empty pane
\* twice, the adaptive one may announce too few partitions of a pane that was
\* opened before its first tuple.
Promised(p) ==
    \/ strategy = "PB_RR"
    \/ sched.pane_size[p] > 0 /\ (Adaptive => p \notin openedEmpty)

\* The comment "p_instances[i] is the total number of partitions of the i-th
\* pane": every pane is delivered whole, whatever splits, removals and additions
\* of workers it went through while it was open.
PaneComplete == \A p \in Pane : Promised(p) => DeliveredWhole(p)

\* The active worker of an open pane is activated and has a partition of the
\* pane: the next tuple does not go to a worker that is about to freeze.
ActiveHolds ==
    Adaptive =>
        \A p \in sched.next_pane_id..(sched.n_panes - 1) :
            sched.a_worker[p] # NoWorker =>
                sched.a_worker[p] \in sched.holders[p] \cap sched.activated

Partitions == INSTANCE PanePartitions WITH
    delivered <- [p \in Pane |-> IF strategy = "PB_RR" THEN results[p].parts ELSE 0],
    announced <- [p \in Pane |-> IF strategy = "PB_RR" THEN results[p].counts ELSE {}]

\* With the pane-based strategy the stage keeps the promise on which the
\* window-level stage relies.
RefinesPartitions == Partitions!Spec

=============================================================================
