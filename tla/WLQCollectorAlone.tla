------------------------- MODULE WLQCollectorAlone -------------------------
(***************************************************************************)
(* The collector with the most general workers: each window is received    *)
(* once, and the order in which they come is arbitrary.                    *)
(***************************************************************************)
EXTENDS WLQCollector, FiniteSets

VARIABLE toArrive       \* the windows the workers have not sent yet

vars == <<next_win_id, winSet, out, toArrive>>

Init == CollectorInit /\ toArrive = Window

Receive(id) ==
    /\ id \in toArrive
    /\ toArrive' = toArrive \ {id}
    /\ Collect(id)

\* Every window was received: the stream is over.
Finished == toArrive = {} /\ UNCHANGED vars

Next == (\E id \in Window : Receive(id)) \/ Finished

Spec == Init /\ [][Next]_vars

\* The workers send all the windows and the collector's thread keeps running.
FairSpec == Spec /\ WF_vars(Next)

-----------------------------------------------------------------------------
(* Properties *)

TypeOK ==
    /\ next_win_id \in Nat
    /\ winSet \in Seq(Window \cup {NULL})
    /\ out \in Seq(Window)
    /\ toArrive \in SUBSET Window

\* The client sees window 0 first and then each window right after its
\* predecessor, whatever the order of arrival (WLQ_Collector::svc).
InOrder == out = [i \in 1..next_win_id |-> i - 1]

\* A window that was received is transmitted or sits in the slot of the deque
\* that belongs to it, and no slot holds anything else: the offsets survive
\* the erase that follows a transmission.
Buffered ==
    \A id \in Window :
        id \notin toArrive <=>
            \/ id < next_win_id
            \/ /\ id - next_win_id + 1 \in 1..Len(winSet)
               /\ winSet[id - next_win_id + 1] = id

\* A window is held back only while one of its predecessors is missing.
NothingHeldBack ==
    \A i \in 1..Len(winSet) : winSet[i] # NULL => next_win_id \in toArrive

Ordered == INSTANCE OrderedWindows

\* The collector implements the promise made to the client.
RefinesOrdered == Ordered!Spec

\* Once all the windows were received, all of them are transmitted.
AllTransmitted == <>(out = [i \in 1..(MaxWindow + 1) |-> i - 1])

=============================================================================
