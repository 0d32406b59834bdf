--------------------------- MODULE PanePartitions ---------------------------
(***************************************************************************)
(* What the pane-level query stage promises the window-level one, which    *)
(* relies on it to decide that a window is complete                        *)
(* (Win_Descr_t::updateCount and toFinalize of include/wlq.hpp): a pane is *)
(* delivered as one or more partitions; each partition either announces a  *)
(* number of partitions of its pane or leaves it unspecified; every number *)
(* that is announced is the same, and no more partitions than that come.   *)
(***************************************************************************)
EXTENDS Integers, FiniteSets

CONSTANT Pane           \* the identifiers of the panes

VARIABLES
    delivered,          \* number of partitions of each pane delivered so far
    announced           \* the numbers of partitions announced so far

vars == <<delivered, announced>>

Init ==
    /\ delivered = [p \in Pane |-> 0]
    /\ announced = [p \in Pane |-> {}]

\* A worker delivers a partition of some panes; a partition announces at most
\* one number, which agrees with what was and will be delivered.
Deliver(p) ==
    /\ delivered'[p] = delivered[p] + 1
    /\ announced[p] \subseteq announced'[p]
    /\ Cardinality(announced'[p]) <= 1
    /\ \A n \in announced'[p] : delivered'[p] <= n

Keep(p) ==
    /\ delivered'[p] = delivered[p]
    /\ announced'[p] = announced[p]

Next == \A p \in Pane : Deliver(p) \/ Keep(p)

Spec == Init /\ [][Next]_vars

=============================================================================
