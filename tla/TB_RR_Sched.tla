---------------------------- MODULE TB_RR_Sched ----------------------------
(***************************************************************************)
(* The pane-level stage with the tuple-based round-robin strategy (class   *)
(* TB_RR_Sched of include/sched_plq.hpp): each tuple goes to the next      *)
(* worker, which opens a partition of the pane if it has none.             *)
(***************************************************************************)
EXTENDS PLQ

\* Mutant of TB_sched_to_worker: all activated workers are told of a partition.
TB_sched_to_worker_AllTold(e, p) ==
    LET w == get_rr_w(e.s)
        counted == [e EXCEPT !.s.n_panes = Larger(@, p + 1),
                             !.s.pane_size[p] = @ + 1]
        n == e.s.p_instances[p] + 1
        split == [Multicast(counted, e.s.activated, NewInst(p, n)) EXCEPT
                     !.s.p_instances[p] = n,
                     !.s.holders[p] = @ \cup {w}]
    IN IF w \in e.s.holders[p]
       THEN SendRR(counted, Regular(p, e.s.p_instances[p]))
       ELSE SendRR(split, Regular(p, n))

\* The next tuple belongs to pane p.
TB_sched_to_worker(e, p) ==
    LET w == get_rr_w(e.s)
        counted == [e EXCEPT !.s.n_panes = Larger(@, p + 1),
                             !.s.pane_size[p] = @ + 1]
        n == e.s.p_instances[p] + 1
        split == [Multicast(counted, e.s.holders[p], NewInst(p, n)) EXCEPT
                     !.s.p_instances[p] = n,
                     !.s.holders[p] = @ \cup {w}]
    IN IF w \in e.s.holders[p]
       THEN SendRR(counted, Regular(p, e.s.p_instances[p]))
       ELSE SendRR(split, Regular(p, n))

\* The workers W are being removed: if no activated worker has a partition of
\* pane p, another worker opens one.
TB_Repair(e, W, p) ==
    LET live == e.s.holders[p] \cap e.s.activated
        n == e.s.p_instances[p] + 1
        w == get_rr_w(e.s)
    IN IF live # {} THEN [e EXCEPT !.s.holders[p] = live]
       ELSE [SendRR(e, EmptyPane(p, n)) EXCEPT
                !.s.holders[p] = {w},
                !.s.p_instances[p] = n]

=============================================================================
