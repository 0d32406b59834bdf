---------------------------- MODULE WLQCollector ----------------------------
(***************************************************************************)
(* The collector of the window-level query stage (class WLQ_Collector of   *)
(* include/wlq.hpp).  The WLQ workers finish windows in any order; the     *)
(* collector holds back a window until every window with a smaller         *)
(* identifier was sent, so that the client sees 0, 1, 2, ...  A window is  *)
(* represented by its identifier.                                          *)
(***************************************************************************)
EXTENDS Integers, Sequences

CONSTANT MaxWindow      \* bound: the windows of an execution are 0..MaxWindow

ASSUME MaxWindowAssumption == MaxWindow \in Nat

Window == 0..MaxWindow
NULL   == -1            \* a free slot of the deque

VARIABLES
    next_win_id,        \* identifier of the next window to transmit
    winSet,             \* the deque: slot i holds window next_win_id + i - 1
    out                 \* the windows transmitted to the client, in order

collectorVars == <<next_win_id, winSet, out>>

CollectorInit ==
    /\ next_win_id = 0
    /\ winSet = <<>>
    /\ out = <<>>

\* Mutant of IsNext: any window that is not late is taken for the next one.
IsNext_Later(id) == id >= next_win_id

\* The window is the next one to transmit.
IsNext(id) == id = next_win_id

\* Mutant of Slot: the slot of the predecessor.
Slot_OffByOne(id) == id - next_win_id

\* The slot of the deque that belongs to a window.
Slot(id) == id - next_win_id + 1

\* Mutant of FirstFree: the loop does not stop at a free slot.
FirstFree_End(s) == Len(s) + 1

\* Mutant of FirstFree: only the slot of the next window is erased.
FirstFree_First(s) == 2

\* The iterator "it" after the loop that follows the transmission of the next
\* window: the first free slot after the first one, or the end of the deque.
FirstFree(s) ==
    CHOOSE i \in 2..(Len(s) + 1) :
        /\ i \in 1..Len(s) => s[i] = NULL
        /\ \A j \in 2..(i - 1) : s[j] # NULL

\* The window is the next one: it leaves at once, followed by the buffered
\* windows that directly follow it.
Transmit(id) ==
    /\ IsNext(id)
    /\ IF winSet = <<>>
       THEN /\ next_win_id' = next_win_id + 1
            /\ out' = Append(out, id)
            /\ winSet' = winSet
       ELSE LET it == FirstFree(winSet) IN
            /\ next_win_id' = next_win_id + it - 1
            /\ out' = Append(out, id) \o SubSeq(winSet, 2, it - 1)
            /\ winSet' = SubSeq(winSet, it, Len(winSet))

\* A window that is not the next one is buffered at its offset; the deque
\* grows to reach that offset.
Buffer(id) ==
    /\ ~IsNext(id) /\ id > next_win_id
    /\ LET size == IF Slot(id) > Len(winSet) THEN Slot(id) ELSE Len(winSet)
       IN winSet' = [i \in 1..size |->
                        IF i = Slot(id) THEN id
                        ELSE IF i <= Len(winSet) THEN winSet[i] ELSE NULL]
    /\ UNCHANGED <<next_win_id, out>>

Collect(id) == Transmit(id) \/ Buffer(id)

=============================================================================
