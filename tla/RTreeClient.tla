----------------------------- MODULE RTreeClient -----------------------------
(***************************************************************************)
(* The R-tree with its clients: the programs of test/rtree, which load     *)
(* data, delete it again, close the index and open it, and the skyline     *)
(* checker, which keeps the skyline of what it receives in the tree.       *)
(*                                                                         *)
(* A client of the index fills it with MaxData data, then deletes          *)
(* MaxDeleted of them, the oldest or the newest, and inserts again.        *)
(***************************************************************************)
EXTENDS BulkLoader, SkylineChecker, IndexClient

CONSTANTS
    Variants,       \* the tree variants of the clients of the index
    MaxData, MaxDeleted, MaxInserted,
    Streams,        \* the seeds of the streams of the skyline checker
    Diagonal,       \* positions on a diagonal of a stream
    MaxReceived,    \* tuples of a stream
    size_block      \* tuples of a block

VARIABLES
    client,         \* "index", "checker"
    panes           \* SkySet of each block of the checker

vars == <<client, seed, tree, inserted, deleted, stored, loaded, panes>>

\* The tuples of a stream come closer and closer to the origin, but for every fifth
\* one; those that come together are scattered over a diagonal, where few dominate
\* others.  Two tuples of an even stream are generated at a time.
Tuple(s, k) ==
    LET x == (2 * s * k * k + 3 * k) % Diagonal
        far == (MaxReceived - k) \div 8 + (IF k % 5 = 0 THEN 2 ELSE 0)
    IN [d |-> [d \in Dims |-> far + (IF d = 1 THEN x ELSE Diagonal - 1 - x)],
        app_ts |-> k,
        gen_ts |-> IF s % 2 = 0 THEN (k + 1) \div 2 ELSE k]

Input(s, n) == [k \in 1..n |-> Datum(s, k)]

-----------------------------------------------------------------------------
(* Clients of the index                                                    *)

\* A bulk loaded tree is closed by the program that has loaded it.
IndexInit ==
    /\ client = "index"
    /\ seed \in Seeds
    /\ \E variant \in Variants :
          \/ /\ tree = createNewRTree(variant)
             /\ inserted = 0 /\ stored = {} /\ loaded = FALSE
          \/ /\ tree = loadRTree(createAndBulkLoadNewRTree(variant,
                                                          Input(seed, MaxData)))
             /\ inserted = MaxData /\ loaded = TRUE
             /\ stored = ToSet(Input(seed, MaxData))
    /\ deleted = 0 /\ panes = <<>>

InsertData ==
    LET e == Datum(seed, inserted + 1)
    IN /\ client = "index"
       /\ deleted \in {0, MaxDeleted}
       /\ inserted < IF deleted = 0 THEN MaxData ELSE MaxInserted
       /\ tree' = insertDatum(tree, e)
       /\ inserted' = inserted + 1
       /\ stored' = stored \cup {e}
       /\ UNCHANGED <<client, seed, deleted, loaded, panes>>

DeleteData ==
    /\ client = "index"
    /\ inserted = MaxData /\ deleted < MaxDeleted
    /\ \E e \in stored :
          /\ \/ \A f \in stored : e.id <= f.id
             \/ \A f \in stored : e.id >= f.id
          /\ tree' = deleteDatum(tree, e)
          /\ stored' = stored \ {e}
    /\ deleted' = deleted + 1
    /\ UNCHANGED <<client, seed, inserted, loaded, panes>>

CloseAndLoad ==
    /\ client = "index"
    /\ ~ loaded /\ inserted = MaxData
    /\ tree' = loadRTree(tree)
    /\ loaded' = TRUE
    /\ UNCHANGED <<client, seed, inserted, stored, deleted, panes>>

-----------------------------------------------------------------------------
(* The skyline checker                                                     *)

CheckerInit ==
    /\ client = "checker"
    /\ seed \in Streams
    /\ tree = createNewRTree("RV_RSTAR")
    /\ inserted = 0 /\ stored = {} /\ deleted = 0 /\ loaded = FALSE
    /\ panes = <<>>

\* The tree db after it has received the tuple t, which dominates removed_list.
Received(db, t, removed_list) ==
    IF removed_list # <<>> \/ isSkyline(db, t.d)
    THEN insertDatum(FoldLeft(deleteDatum, db, removed_list), SkyPoint(t))
    ELSE db

\* The loop of main has received a tuple: it joins its block, and the tree if no
\* point there dominates it; those that it dominates leave the tree.
ReceiveTuple ==
    LET t == Tuple(seed, inserted + 1)
        id_block == (inserted \div size_block) + 1
        block == IF id_block \in DOMAIN panes THEN panes[id_block] ELSE <<>>
    IN /\ client = "checker"
       /\ inserted < MaxReceived
       /\ panes' = SubSeq(panes, 1, id_block - 1)
                   \o <<Sky!addComputeTuple(block, t)>>
       /\ tree' = Received(tree, t, getDominatedPoints(tree, t.d))
       /\ stored' = stored \cup {SkyPoint(t)}
       /\ inserted' = inserted + 1
       /\ UNCHANGED <<client, seed, deleted, loaded>>

-----------------------------------------------------------------------------

Init == IndexInit \/ CheckerInit

Next ==
    \/ InsertData
    \/ DeleteData
    \/ CloseAndLoad
    \/ ReceiveTuple

Spec == Init /\ [][Next]_vars

-----------------------------------------------------------------------------
(* Properties                                                              *)

Nodes == Subtree(tree, tree.root, Root(tree).mbr)

\* The data in the leaves, as a sequence.
Content == visitSubTree(tree, Root(tree))

\* The points that no received one dominates.
Skyline == {e \in stored : \A f \in stored : ~ dominance(f.mbr.lo, e.mbr.lo)}

\* The regions of all nodes are tight and the statistics exact (isIndexValid),
\* after any insertion, split, reinsertion, condensation, loading and reopening.
IndexValid == isIndexValid(tree) /\ ~ tree.failed

\* The tree holds each datum it should hold, once, and counts them.
ContentExact ==
    LET due == IF client = "checker" THEN Skyline ELSE stored
    IN /\ ToSet(Content) = due
       /\ Len(Content) = Cardinality(due)
       /\ tree.data = Len(Content)

\* Every page in use is that of one node of the tree, or of the header: splits,
\* condensations and the elimination of the root neither leak pages nor give
\* one out twice.
PagesInUse ==
    LET pages == DOMAIN tree.storage.buffer
    IN /\ {e.n.id : e \in Nodes} \cup {tree.header} = pages
       /\ Cardinality(Nodes) + 1 = Cardinality(pages)

\* Of the data of the tree, those that a query should report.
Matching(type, query) ==
    {e \in ToSet(Content) : IF type = "ContainmentQuery"
                            THEN containsRegion(query, e.mbr)
                            ELSE intersectsRegion(query, e.mbr)}

\* The data no farther than the k-th nearest one.
Nearest(k, query) ==
    LET dist(e) == getMinimumDistance(query, e.mbr)
    IN {e \in ToSet(Content) :
           Cardinality({f \in ToSet(Content) : dist(f) < dist(e)}) < k}

\* A query reports each of its answers once.
Reports(out, answers) == IsInjective(out) /\ ToSet(out) = answers

\* Each query reports what an examination of all the data would, although it
\* reads only some subtrees and some of them without tests, and the regions
\* handed down by the self join shrink (test/rtree/Exhaustive.cc).
QueriesExact ==
    \A query \in Queries :
       /\ Reports(intersectsWithQuery(tree, query),
                  Matching("IntersectionQuery", query))
       /\ Reports(pointLocationQuery(tree, query.lo),
                  Matching("IntersectionQuery", getMBR(query.lo)))
       /\ Reports(containsWhatQuery(tree, query),
                  Matching("ContainmentQuery", query))
       /\ \A k \in {1, 3} : Reports(nearestNeighborQuery(tree, k, query),
                                   Nearest(k, query))
       /\ Reports(selfJoinQuery(tree, query),
                  {<<e, f>> \in Matching("IntersectionQuery", query) \X
                                Matching("IntersectionQuery", query) :
                       e.id # f.id /\ intersectsRegion(e.mbr, f.mbr)})

received == [k \in 1..inserted |-> Tuple(seed, k)]

\* The skyline checker prints True for certain, of the results sets of the blocks,
\* merged, and of the tree, if the tuples of the skyline that differ were generated
\* at different times; if not, the order in which the sorts leave two of them may
\* make it print False.
PrintsTrue ==
    client = "checker" =>
        (areEqual(tree, panes, received)
         <=> \A e, f \in Skyline : PointTuple(received, e).gen_ts
                                  = PointTuple(received, f).gen_ts
                                 => e.mbr = f.mbr)

=============================================================================
