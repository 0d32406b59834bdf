------------------------------- MODULE MCWLQ -------------------------------
(***************************************************************************)
(* Values of the constants of WLQ for model checking.                      *)
(***************************************************************************)
EXTENDS WLQ

\* Any pane may be split into any number of partitions.
AnyTotals == [Pane -> 1..MaxParts]

\* One pane is split into MaxParts partitions, the others are whole.
OneSplit == {[p \in Pane |-> IF p = q THEN MaxParts ELSE 1] : q \in Pane}

=============================================================================
