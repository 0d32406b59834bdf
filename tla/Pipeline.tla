------------------------------ MODULE Pipeline ------------------------------
(***************************************************************************)
(* The program from the start of its threads to the end (src/pf_query.cpp  *)
(* and include/pane_farming.hpp): the two emitters, the controller and the *)
(* client start together at a barrier, run their svc until their part of   *)
(* the stream is over, and then print their statistics in turn, with three *)
(* barriers to keep the order.  What they do in svc is that of Controller; *)
(* the workers and the collector take no part in the barriers.             *)
(***************************************************************************)
EXTENDS Controller

Thread == {"PLQ", "WLQ", "controller", "client"}
Barrier == {"sampleBarr", "printBarr", "precBarr1", "precBarr2", "precBarr3"}

VARIABLES
    todo,               \* what each thread has still to do
    waiting,            \* the threads that wait at a barrier
    printed             \* the threads whose statistics were printed, in order

pipelineVars == <<todo, waiting, printed>>
allVars == <<vars, pipelineVars>>

-----------------------------------------------------------------------------
(* The threads: svc_init, svc and svc_end.                                 *)

Prologue == <<"sampleBarr", "svc", "printBarr">>

PLQEmitterEnd ==
    IF plq_only THEN <<"print", "precBarr1", "precBarr2">>
    ELSE <<"print", "precBarr1", "precBarr2", "precBarr3">>

WLQEmitterEnd == <<"precBarr1", "print", "precBarr2", "precBarr3">>

\* Mutant of ControllerEnd: with both stages it prints after the first barrier.
ControllerEnd_Early ==
    IF plq_only THEN <<"precBarr1", "print", "precBarr2">>
    ELSE <<"precBarr1", "print", "precBarr2", "precBarr3">>

ControllerEnd ==
    IF plq_only THEN <<"precBarr1", "print", "precBarr2">>
    ELSE <<"precBarr1", "precBarr2", "print", "precBarr3">>

\* Client, or Client_PLQ.
ClientEnd ==
    IF plq_only THEN <<"precBarr1", "precBarr2", "print">>
    ELSE <<"precBarr1", "precBarr2", "precBarr3", "print">>

ThreadProgram(t) ==
    CASE t = "PLQ"        -> Prologue \o PLQEmitterEnd
      [] t = "WLQ"        -> IF plq_only THEN <<>> ELSE Prologue \o WLQEmitterEnd
      [] t = "controller" -> Prologue \o ControllerEnd
      [] t = "client"     -> Prologue \o ClientEnd

\* The number of threads that each barrier is initialized with.
Parties == IF plq_only THEN 3 ELSE 4

Init ==
    /\ ControllerInit
    /\ todo = [t \in Thread |-> ThreadProgram(t)]
    /\ waiting = {}
    /\ printed = <<>>

At(t, step) == todo[t] # <<>> /\ Head(todo[t]) = step

Advance(T) == todo' = [t \in Thread |-> IF t \in T THEN Tail(todo[t]) ELSE todo[t]]

\* External: pthread_barrier_wait.  The last thread to arrive lets all go.
Arrive(t) ==
    /\ t \notin waiting
    /\ \E b \in Barrier :
          LET there == {u \in waiting : At(u, b)} \cup {t} IN
          /\ At(t, b)
          /\ IF Cardinality(there) < Parties
             THEN waiting' = waiting \cup {t} /\ UNCHANGED todo
             ELSE waiting' = waiting \ there /\ Advance(there)
    /\ UNCHANGED <<vars, printed>>

PrintStatistics(t) ==
    /\ At(t, "print")
    /\ printed' = Append(printed, t)
    /\ Advance({t})
    /\ UNCHANGED <<vars, waiting>>

\* The thread has got the end of its stream, or its loop is over.
StreamEnded(t) ==
    CASE t \in Stage       -> t \in terminated
      [] t = "controller" -> phase = "ended"
      [] t = "client"     -> LastStage \in terminated

LeaveSvc(t) ==
    /\ At(t, "svc") /\ StreamEnded(t)
    /\ Advance({t})
    /\ UNCHANGED <<vars, waiting, printed>>

-----------------------------------------------------------------------------
(* The whole.                                                              *)

ControllerSvc ==
    At("controller", "svc") /\ (Test \/ ControlStep) /\ UNCHANGED pipelineVars

\* The emitter takes a command, or ends the stage.
Obey(st) == At(st, "svc") /\ Reconfigure(st) /\ UNCHANGED pipelineVars
EndStage(st) == At(st, "svc") /\ Terminate(st) /\ UNCHANGED pipelineVars

WorkerFreezes(st, w) == Freeze(st, w) /\ UNCHANGED pipelineVars

\* pipe.wait returns.
Done == (\A t \in Thread : todo[t] = <<>>) /\ UNCHANGED allVars

Next ==
    \/ ControllerSvc
    \/ \E st \in Stage : Obey(st) \/ EndStage(st)
    \/ \E st \in Stage, w \in Worker : WorkerFreezes(st, w)
    \/ \E t \in Thread : Arrive(t) \/ LeaveSvc(t) \/ PrintStatistics(t)
    \/ Done

Spec == Init /\ [][Next]_allVars

\* The threads keep running, the workers freeze when told to and the emitters
\* take the commands; the stream may go on forever.
FairSpec ==
    /\ Spec
    /\ WF_allVars(ControllerSvc)
    /\ \A st \in Stage : WF_allVars(Obey(st))
    /\ \A st \in Stage, w \in Worker : WF_allVars(WorkerFreezes(st, w))
    /\ \A t \in Thread : WF_allVars(Arrive(t) \/ LeaveSvc(t) \/ PrintStatistics(t))

-----------------------------------------------------------------------------
(* Properties *)

\* When the PLQ stage has ended, its resources go back to the pool, unless the
\* controller ends first.
ResourcesReturned ==
    "PLQ" \in terminated ~> Owned(owner, "PLQ") = {} \/ phase = "ended"

\* The comments "entering the precedence barrier 1", 2, 3: once the last stage
\* has ended no thread waits forever at a barrier, and the statistics come out
\* in the order of the pipeline, those of the client last.
StatisticsInOrder ==
    LastStage \in terminated ~>
        printed = IF plq_only THEN <<"PLQ", "controller", "client">>
                  ELSE <<"PLQ", "WLQ", "controller", "client">>

=============================================================================
