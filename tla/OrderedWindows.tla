--------------------------- MODULE OrderedWindows ---------------------------
(***************************************************************************)
(* What the window-level query stage promises its client (the check of the *)
(* Client in src/pf_query.cpp): the results of the windows come one after  *)
(* the other, in the order of their identifiers, without a gap and without *)
(* a repetition.  Several results may leave in one step.                   *)
(***************************************************************************)
EXTENDS Integers, Sequences

CONSTANT MaxWindow      \* bound: the windows of an execution are 0..MaxWindow

VARIABLE out            \* the identifiers of the windows transmitted so far

Init == out = <<>>

\* The next n windows leave.
Emit(n) ==
    /\ Len(out) + n <= MaxWindow + 1
    /\ out' = out \o [i \in 1..n |-> Len(out) + i - 1]

Next == \E n \in 1..(MaxWindow + 1) : Emit(n)

Spec == Init /\ [][Next]_out

\* All the windows leave in the end.
FairSpec == Spec /\ WF_out(Next)

=============================================================================
