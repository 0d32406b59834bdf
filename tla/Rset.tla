-------------------------------- MODULE Rset --------------------------------
(***************************************************************************)
(* The results sets of the preference queries (include/Rset.hpp and        *)
(* include/queries.hpp) as the stages use them: the pane-level workers     *)
(* fill the results sets of the partitions with tuples (addComputeTuple),  *)
(* the window-level workers gather those in other results sets, of windows *)
(* and of merges, in any order (addComputeSet).  A results set is either a *)
(* SkySet or a TopdSet throughout the program (type Rset_t).               *)
(*                                                                         *)
(* The times of a results set are left out; its reference counter is in    *)
(* module WLQ, its identifier and number of instances in PLQ.  toVector is *)
(* not called by the program.                                              *)
(***************************************************************************)
EXTENDS Integers, Sequences, FiniteSetsExt

CONSTANTS
    DIM,            \* number of dimensions of a tuple
    Coordinate,     \* values of a coordinate
    Partitions,     \* the results sets that the pane-level workers fill
    Gathered,       \* the results sets of the windows and of the merges
    MaxTuples,      \* bound on the number of tuples
    Queries         \* the types that Rset_t may stand for

ASSUME RsetAssumption ==
    /\ DIM \in Nat \ {0, 1}
    /\ Coordinate \subseteq Int
    /\ Partitions \cap Gathered = {}
    /\ MaxTuples \in Nat
    /\ Queries \subseteq {"skyline", "topd"}

Sky  == INSTANCE SkySet
Topd == INSTANCE TopdSet

VARIABLES
    query,          \* the type of the results sets
    rset,           \* content of each results set; domFactors of a TopdSet
    inputs          \* history: the tuples that each one stands for

vars == <<query, rset, inputs>>

AllSets == Partitions \cup Gathered
Tuple   == [d : [1..DIM -> Coordinate], app_ts : 1..MaxTuples]
Empty   == [s |-> <<>>, domFactors |-> <<>>]

Init ==
    /\ query \in Queries
    /\ rset = [r \in AllSets |-> Empty]
    /\ inputs = [r \in AllSets |-> {}]

\* A pane-level worker adds the next tuple to the partition r.  The partitions
\* are complete when they are gathered; those complete earlier are not disturbed
\* by the others, so that all are filled first.
addComputeTuple(r, coordinates) ==
    LET n == Cardinality(UNION {inputs[q] : q \in Partitions}) + 1
        t == [d |-> coordinates, app_ts |-> n]
    IN /\ n <= MaxTuples
       /\ \A g \in Gathered : inputs[g] = {}
       /\ rset' = IF query = "skyline"
                  THEN [rset EXCEPT ![r].s = Sky!addComputeTuple(@, t)]
                  ELSE [rset EXCEPT ![r] = Topd!addComputeTuple(@, t)]
       /\ inputs' = [inputs EXCEPT ![r] = @ \cup {t}]
       /\ UNCHANGED query

\* A window-level worker adds the results set B to r, which gathers nothing
\* twice.  B is not changed.
addComputeSet(r, B) ==
    /\ inputs[r] \cap inputs[B] = {}
    /\ rset' = IF query = "skyline"
               THEN [rset EXCEPT ![r].s = Sky!addComputeSet(@, rset[B].s)]
               ELSE [rset EXCEPT ![r] = Topd!addComputeSet(@, rset[B])]
    /\ inputs' = [inputs EXCEPT ![r] = @ \cup inputs[B]]
    /\ UNCHANGED query

Next ==
    \/ \E r \in Partitions, coordinates \in [1..DIM -> Coordinate] :
          addComputeTuple(r, coordinates)
    \/ \E r \in Gathered, B \in AllSets : r # B /\ addComputeSet(r, B)

Spec == Init /\ [][Next]_vars

-----------------------------------------------------------------------------
(* The queries, as the comments of queries.hpp define them                 *)

\* t k-dominates u: it is equal or better in k dimensions, better in one.
Dominates(t, u, k) ==
    /\ Cardinality({i \in 1..DIM : t.d[i] <= u.d[i]}) >= k
    /\ \E i \in 1..DIM : t.d[i] < u.d[i]

\* The dominance factor of u among the tuples of T.
Factor(u, T) == Max({0} \cup {k \in 1..DIM : \E t \in T : Dominates(t, u, k)})

Skyline(T) == {u \in T : Factor(u, T) < DIM}

-----------------------------------------------------------------------------
(* Properties *)

\* The tuples stored in the results set r.
Stored(r) == {rset[r].s[i] : i \in DOMAIN rset[r].s}

\* A SkySet holds the skyline of all the tuples it stands for, each once,
\* however they were split in partitions and in whatever order the results sets
\* were merged (queries.hpp, addComputeTuple and addComputeSet).
SkylineExact ==
    query = "skyline" =>
        \A r \in AllSets : /\ Stored(r) = Skyline(inputs[r])
                           /\ Len(rset[r].s) = Cardinality(Stored(r))

\* A TopdSet never loses a tuple of the skyline, nor gives a tuple a greater
\* factor than it has.
FactorsBounded ==
    query = "topd" =>
        \A r \in AllSets :
            LET c == rset[r] IN
            /\ Skyline(inputs[r]) \subseteq Stored(r)
            /\ Len(c.s) = Cardinality(Stored(r))
            /\ Len(c.domFactors) = Len(c.s)
            /\ \A i \in DOMAIN c.s : c.domFactors[i] <= Factor(c.s[i], inputs[r])

\* The comment of updateTopd, "This method also updates the dominance factor of
\* all the tuples in the container": each stored tuple has its factor, and only
\* the skyline is stored.
FactorsExact ==
    query = "topd" =>
        \A r \in AllSets :
            LET c == rset[r] IN
            /\ Stored(r) = Skyline(inputs[r])
            /\ \A i \in DOMAIN c.s : c.domFactors[i] = Factor(c.s[i], inputs[r])

=============================================================================
