----------------------------- MODULE Controller -----------------------------
(***************************************************************************)
(* The elastic controller (class Controller and its ResourcePool,          *)
(* include/controller.hpp) with what the emitters of the two stages do of  *)
(* its commands.  Resource j is an SMT context; worker j of the PLQ and    *)
(* worker j of the WLQ are both pinned to it, so that the owner of the     *)
(* resource says which of them should be activated.                        *)
(*                                                                         *)
(* The controller changes its view (owner and nw) when it decides, the     *)
(* emitters change theirs (activated) when they take the command from      *)
(* their channel, and the stages end when they like.  The monitored data   *)
(* are abstracted to any factors the rules may give, the lengths of the    *)
(* queues to any choice of the resources to release.  The module Pipeline  *)
(* puts the threads together.                                              *)
(***************************************************************************)
EXTENDS FuzzyStrategy, Sequences, FiniteSets, FiniteSetsExt, SequencesExt

CONSTANTS
    NUM_WORKER_CORES,   \* number of cores, each with one or more SMT contexts
    NW_PLQ, NW_WLQ,     \* initial parallelism degrees
    Builds,             \* the values of the macro PLQ_ONLY to be explored
    Variation,          \* the factors that the rules may give, in thousandths
    MaxPending          \* bound on the commands waiting in a channel

ASSUME ControllerAssumption ==
    /\ {NUM_WORKER_CORES, NW_PLQ, NW_WLQ, MaxPending} \subseteq Nat \ {0}
    /\ NW_PLQ + NW_WLQ <= NUM_WORKER_THREADS
    /\ NUM_WORKER_CORES <= NUM_WORKER_THREADS
    /\ Builds \subseteq BOOLEAN
    /\ Variation \subseteq 500..1500

Stage  == {"PLQ", "WLQ"}
Worker == 0..(NUM_WORKER_THREADS - 1)   \* and the resources

VARIABLES
    plq_only,           \* the build: TRUE if there is no window-level stage
    owner,              \* owner of each resource, a stage or "NONE"
    nw,                 \* parallelism degree of each stage
    phase,              \* of the controller: "test", "sleep" or "ended"
    channel,            \* commands to each stage
    activated,          \* activated workers of each stage
    frozen,             \* workers of each stage whose thread is frozen
    terminated          \* the stages that have ended

controllerVars == <<plq_only, owner, nw, phase>>
stageVars == <<activated, frozen, terminated>>
vars == <<controllerVars, channel, stageVars>>

\* The stages of the build, and the one whose end the controller waits for:
\* with PLQ_ONLY, PF gives it the emitter of the PLQ in the place of the other.
Built(st) == st = "PLQ" \/ ~plq_only
LastStage == IF plq_only THEN "PLQ" ELSE "WLQ"

\* The constructor of ResourcePool; NUM_WORKER_CORES - nw_wlq is unsigned.
InitialOwner(j) ==
    IF j < NW_PLQ THEN "PLQ"
    ELSE IF ~plq_only /\ NW_WLQ <= NUM_WORKER_CORES /\ j >= NUM_WORKER_CORES - NW_WLQ THEN "WLQ"
    ELSE "NONE"

ControllerInit ==
    /\ plq_only \in Builds
    /\ owner = [j \in Worker |-> InitialOwner(j)]
    /\ nw = [st \in Stage |->
                IF st = "PLQ" THEN NW_PLQ ELSE IF plq_only THEN 0 ELSE NW_WLQ]
    /\ phase = "test"
    /\ channel = [st \in Stage |-> <<>>]
    /\ activated = [st \in Stage |->
                       IF st = "PLQ" THEN 0..(NW_PLQ - 1)
                       ELSE IF plq_only THEN {}
                       ELSE (NUM_WORKER_THREADS - NW_WLQ)..(NUM_WORKER_THREADS - 1)]
    /\ frozen = [st \in Stage |-> {}]
    /\ terminated = {}

-----------------------------------------------------------------------------
(* The resource pool: pool gives the owner of each resource.               *)

Owned(pool, st) == {j \in Worker : pool[j] = st}

\* Mutant of Give: the resources stay with their owner.
Give_Nothing(pool, W, st) == pool

Give(pool, W, st) == [j \in Worker |-> IF j \in W THEN st ELSE pool[j]]

Available(pool) == {j \in Worker : pool[j] = "NONE"}

\* The first n available resources, or as many as there are.
Acquired(pool, n) ==
    {j \in Available(pool) : Cardinality({i \in Available(pool) : i < j}) < n}

\* The commands, with the pool after it, that bring stage st to n workers.
\* releaseResources takes the least loaded of the stage's resources.
Reconfs(pool, st, n) ==
    IF n = nw[st] THEN {[type |-> "NORECONF", w_ids |-> {}, pool |-> pool]}
    ELSE IF n < nw[st]
    THEN {[type |-> "REMOVE", w_ids |-> W, pool |-> Give(pool, W, "NONE")] :
             W \in kSubset(nw[st] - n, Owned(pool, st))}
    ELSE LET W == Acquired(pool, n - nw[st])
         IN {[type |-> IF W = {} THEN "NORECONF" ELSE "ADD", w_ids |-> W,
              pool |-> Give(pool, W, st)]}

-----------------------------------------------------------------------------
(* The controller: svc.                                                    *)

\* The test of the loop.
Test ==
    /\ phase = "test"
    /\ phase' = IF LastStage \in terminated THEN "ended" ELSE "sleep"
    /\ UNCHANGED <<plq_only, owner, nw, channel, stageVars>>

\* Mutant of Target: the end of the PLQ stage is not noticed.
Target_Running(degrees) ==
    [st \in Stage |-> IF Built(st) THEN degrees[st] ELSE 0]

\* The PLQ stage gives up all its workers when it has ended; the WLQ stage has
\* none if it does not exist.
Target(degrees) ==
    [st \in Stage |->
        IF (st = "PLQ" /\ st \in terminated) \/ ~Built(st) THEN 0 ELSE degrees[st]]

\* Mutant of NewDegree: as many workers were added as were asked for.
NewDegree_Asked(n, cmd, asked) == asked

\* The degree n after the command cmd; asked is what the strategy wanted.
NewDegree(n, cmd, asked) ==
    IF cmd.type = "ADD" THEN n + Cardinality(cmd.w_ids)
    ELSE n - Cardinality(cmd.w_ids)

\* Nobody reads the channel of a stage that has ended: it is left empty.
Sent(st, cmd) ==
    IF cmd.type = "NORECONF" \/ st \in terminated THEN channel[st]
    ELSE Append(channel[st], [type |-> cmd.type, w_ids |-> cmd.w_ids])

\* A control step: get_reconfs_from_strategy and the two commands.
ControlStep ==
    /\ phase = "sleep"
    /\ \A st \in Stage : Len(channel[st]) < MaxPending
    /\ \E v \in [Stage -> Variation], up \in [Stage -> BOOLEAN] :
          LET n == Target(evaluate(nw, v, up)) IN
          \E plq \in Reconfs(owner, "PLQ", n["PLQ"]) :
          \E wlq \in Reconfs(plq.pool, "WLQ", n["WLQ"]) :
             LET cmd == [st \in Stage |-> IF st = "PLQ" THEN plq ELSE wlq] IN
             /\ owner' = wlq.pool
             /\ nw' = [st \in Stage |-> NewDegree(nw[st], cmd[st], n[st])]
             /\ channel' = [st \in Stage |-> Sent(st, cmd[st])]
    /\ phase' = "test"
    /\ UNCHANGED <<plq_only, stageVars>>

-----------------------------------------------------------------------------
(* The stages.                                                             *)

\* The emitter takes a command; to add workers it waits until they froze, and
\* it aborts unless the workers to add are not activated and those to remove
\* are.
Reconfigure(st) ==
    /\ st \notin terminated /\ channel[st] # <<>>
    /\ channel' = [channel EXCEPT ![st] = Tail(@)]
    /\ LET cmd == Head(channel[st]) IN
       \/ /\ cmd.type = "ADD"
          /\ cmd.w_ids \cap activated[st] = {} /\ cmd.w_ids \subseteq frozen[st]
          /\ activated' = [activated EXCEPT ![st] = @ \cup cmd.w_ids]
          /\ frozen' = [frozen EXCEPT ![st] = @ \ cmd.w_ids]
       \/ /\ cmd.type = "REMOVE" /\ cmd.w_ids \subseteq activated[st]
          /\ activated' = [activated EXCEPT ![st] = @ \ cmd.w_ids]
          /\ UNCHANGED frozen
    /\ UNCHANGED <<controllerVars, terminated>>

\* External: the thread of a worker that was removed takes GO_OUT and freezes.
Freeze(st, w) ==
    /\ Built(st) /\ st \notin terminated
    /\ w \notin activated[st] \cup frozen[st]
    /\ frozen' = [frozen EXCEPT ![st] = @ \cup {w}]
    /\ UNCHANGED <<controllerVars, channel, activated, terminated>>

\* The stage ends, the WLQ after the PLQ: all its workers are woken up.
Terminate(st) ==
    /\ Built(st) /\ st \notin terminated
    /\ st = "WLQ" => "PLQ" \in terminated
    /\ Worker \ activated[st] \subseteq frozen[st]
    /\ terminated' = terminated \cup {st}
    /\ activated' = [activated EXCEPT ![st] = Worker]
    /\ frozen' = [frozen EXCEPT ![st] = {}]
    /\ channel' = [channel EXCEPT ![st] = <<>>]
    /\ UNCHANGED controllerVars

-----------------------------------------------------------------------------
(* Properties *)

\* The asserts of addWorkers and removeWorkers hold: "must be previously
\* de-activated", "must be previously activated".
Applicable ==
    \A st \in Stage \ terminated :
        channel[st] # <<>> =>
            LET cmd == Head(channel[st]) IN
            IF cmd.type = "ADD" THEN cmd.w_ids \cap activated[st] = {}
            ELSE cmd.w_ids \subseteq activated[st]

\* The commands on the way to stage st that concern worker w.
Concerning(st, w) == {i \in DOMAIN channel[st] : w \in channel[st][i].w_ids}

\* The two views agree: a worker is activated, or will be when the last of the
\* commands on the way that concern it is executed, exactly if the pool says that
\* the stage owns its resource, and the controller counts those resources right.
ViewsAgree ==
    \A st \in Stage :
        /\ nw[st] = Cardinality(Owned(owner, st))
        /\ st \notin terminated =>
              \A w \in Worker :
                  /\ Concerning(st, w) = {} =>
                        (w \in activated[st] <=> owner[w] = st)
                  /\ \A i \in Concerning(st, w) :
                        (\A j \in Concerning(st, w) : j <= i) =>
                            (channel[st][i].type = "ADD" <=> owner[w] = st)

PLQStage == INSTANCE ElasticStage WITH
    activated <- activated["PLQ"], terminated <- "PLQ" \in terminated
WLQStage == INSTANCE ElasticStage WITH
    activated <- IF plq_only THEN Worker ELSE activated["WLQ"],
    terminated <- "WLQ" \in terminated

\* The controller never takes away all its workers from a stage, and each stage
\* executes only the commands that its model expects.
StagesAreElastic == PLQStage!Spec /\ WLQStage!Spec

=============================================================================
