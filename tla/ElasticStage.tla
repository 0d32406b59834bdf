---------------------------- MODULE ElasticStage ----------------------------
(***************************************************************************)
(* The reconfigurations that the models of the stages (PLQ and WLQ) expect *)
(* from the controller: workers are added that are not activated, some but *)
(* never all of the activated ones are removed, and at its end the stage   *)
(* activates all of them.  The emitters abort otherwise, or are left       *)
(* without a worker.                                                       *)
(***************************************************************************)
CONSTANT Worker

VARIABLES
    activated,          \* the activated workers of the stage
    terminated          \* the stage has ended

vars == <<activated, terminated>>

Init ==
    /\ activated \in (SUBSET Worker) \ {{}}
    /\ terminated = FALSE

Add(W) ==
    /\ W \cap activated = {}
    /\ activated' = activated \cup W
    /\ UNCHANGED terminated

Remove(W) ==
    /\ W \subseteq activated /\ W # activated
    /\ activated' = activated \ W
    /\ UNCHANGED terminated

End ==
    /\ terminated' = TRUE
    /\ activated' = Worker

Next ==
    /\ ~terminated
    /\ \/ \E W \in SUBSET Worker : Add(W) \/ Remove(W)
       \/ End

Spec == Init /\ [][Next]_vars

=============================================================================
