--------------------------- MODULE Adaptive_Sched ---------------------------
(***************************************************************************)
(* The pane-level stage with the adaptive strategy (class Adaptive_Sched   *)
(* of include/sched_plq.hpp): the tuples of a pane go to its active        *)
(* partition; when that is large with respect to the partitions of the     *)
(* complete panes, the least loaded worker gets the active partition.      *)
(*                                                                         *)
(* The mean and the deviation of the sizes of the partitions are           *)
(* abstracted, with the counters they are made of: a partition is large or *)
(* not at each tuple.  So are the lengths of the queues, which the emitter *)
(* reads while the workers run: any activated worker may be the least      *)
(* loaded.  The same control serves Adaptive_Sched_PID, where a PID        *)
(* changes the threshold.  Only the build for out-of-order streams is      *)
(* modelled.                                                               *)
(***************************************************************************)
EXTENDS PLQ

CONSTANT WarmupPanes    \* the warmup ends with a punctuation past this pane

ASSUME WarmupAssumption == WarmupPanes \in Nat

\* The scheduler has a descriptor of each pane (pane_des_t, whose w_ids is
\* holders[p] and a_worker the worker of the active partition) and the flag of
\* the initial warmup.
AdaptiveInit == [SchedInit EXCEPT !.warmup = TRUE]

\* get_llw_w chose worker w, whose partition of pane p becomes active.
Activate(e, p, w) ==
    [e EXCEPT !.s.last_w = (w + 1) % NUM_WORKER_THREADS,
              !.s.a_worker[p] = w]

\* Worker w gets a new partition of pane p, opened by a message of the given
\* type; the workers that have a partition are told of it.
Split(e, p, w, type) ==
    LET n == e.s.p_instances[p] + 1
        told == Multicast(e, e.s.holders[p], NewInst(p, n))
        m == IF type = "REGULAR" THEN Regular(p, n) ELSE EmptyPane(p, n)
    IN [Send(told, w, m) EXCEPT !.s.p_instances[p] = n,
                                !.s.holders[p] = @ \cup {w}]

\* The next tuple belongs to pane p; large: the active partition is over the
\* threshold; w: the least loaded worker.
AD_sched_to_worker(e, p, large, w) ==
    LET counted == [e EXCEPT !.s.n_panes = Larger(@, p + 1),
                             !.s.pane_size[p] = @ + 1]
        active == Activate(counted, p, w)
        n == e.s.p_instances[p]
    IN \* Case 1: the first tuple of the pane.
       IF e.s.pane_size[p] = 0
       THEN [Send(active, w, Regular(p, 1)) EXCEPT
                !.s.p_instances[p] = 1,
                !.s.holders[p] = @ \cup {w}]
       \* Case 2: the active partition takes it, or that of the worker w, or a
       \* new one.
       ELSE IF ~large \/ e.s.warmup
       THEN Send(counted, e.s.a_worker[p], Regular(p, n))
       ELSE IF w \in e.s.holders[p]
       THEN Send(active, w, Regular(p, n))
       ELSE Split(active, p, w, "REGULAR")

\* The end of the warmup comes with the progress of the stream, which has left
\* the emitter e.
AdaptiveProgressed(e, punct, elapsed) ==
    [e EXCEPT !.s.warmup =
        @ /\ ~(punct # NoPunct /\ elapsed /\ PaneOf(punct) > WarmupPanes)]

\* The holders of pane p that are still activated.
Live(e, p) == e.s.holders[p] \cap e.s.activated

\* Mutant of ActiveLost: another holder is enough.
ActiveLost_Holder(e, p) == Live(e, p) = {}

\* Pane p needs another active partition.
ActiveLost(e, p) == Live(e, p) = {} \/ e.s.a_worker[p] \notin e.s.activated

\* Workers are being removed: if the active partition of pane p is lost, that of
\* the least loaded worker w, or a new one, becomes active.
AD_Repair(e, p, w) ==
    LET kept == [e EXCEPT !.s.holders[p] = Live(e, p)]
    IN IF ~ActiveLost(e, p) THEN kept
       ELSE IF w \in Live(e, p) THEN Activate(kept, p, w)
       ELSE Split(Activate(kept, p, w), p, w, "EMPTYPANE")

=============================================================================
