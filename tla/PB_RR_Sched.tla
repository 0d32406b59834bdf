---------------------------- MODULE PB_RR_Sched ----------------------------
(***************************************************************************)
(* The pane-level stage with the pane-based round-robin strategy (class    *)
(* PB_RR_Sched of include/sched_plq.hpp): a pane is given to the next      *)
(* worker when its first tuple comes and stays there until that worker is  *)
(* removed.                                                                *)
(***************************************************************************)
EXTENDS PLQ

\* The next tuple belongs to pane p.
PB_sched_to_worker(e, p) ==
    LET counted == [e EXCEPT !.s.n_panes = Larger(@, p + 1),
                             !.s.pane_size[p] = @ + 1]
        w == get_rr_w(e.s)
    IN IF e.s.holders[p] = {}
       THEN [SendRR(counted, Regular(p, 1)) EXCEPT
                !.s.holders[p] = {w},
                !.s.p_instances[p] = 1]
       ELSE Send(counted, CHOOSE h \in e.s.holders[p] : TRUE,
                 Regular(p, e.s.p_instances[p]))

\* Pane p was held by a worker of W, which are being removed: another worker
\* opens a new partition of it.
PB_Repair(e, W, p) ==
    LET n == e.s.p_instances[p] + 1
        w == get_rr_w(e.s)
    IN IF e.s.holders[p] \cap W = {} THEN e
       ELSE [SendRR(e, EmptyPane(p, n)) EXCEPT
                !.s.holders[p] = {w},
                !.s.p_instances[p] = n]

=============================================================================
