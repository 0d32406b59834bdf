---------------------------- MODULE TPRTreeClient ----------------------------
(***************************************************************************)
(* The TPR-tree with the programs of test/tprtree: their data is boxes on  *)
(* the move, and their queries are of the near future.                     *)
(***************************************************************************)
EXTENDS TPRTree, IndexClient

CONSTANT Tick       \* the data changes at multiples of Tick

vars == <<seed, tree, inserted, deleted, stored, loaded>>

\* Boxes do not shrink.
Trajectory(s, k) ==
    LET lo == Position(s, k)
        hi == Datum(s, k).mbr.hi
        v  == [d \in Dims |-> ((s * k + k * k + d * k) % 4) - 2]
    IN [lo |-> [d \in Dims |-> Tick * lo[d]], hi |-> [d \in Dims |-> Tick * hi[d]],
        vlo |-> v, vhi |-> [d \in Dims |-> v[d] + (IF k % 3 = 0 THEN 1 ELSE 0)],
        start |-> Tick * Now, end |-> Infinity]

Init ==
    /\ tree = createNewTPRTree
    /\ ChurnInit

InsertData ==
    LET e == [id |-> inserted + 1, mbr |-> Trajectory(seed, inserted + 1)]
    IN /\ MayInsert(stored)
       /\ tree' = insertDatum(tree, e)
       /\ inserted' = inserted + 1
       /\ stored' = stored \cup {e}
       /\ UNCHANGED <<seed, deleted, loaded>>

\* The region given to deleteData must have lasted.
DeleteData ==
    LET old == {e \in stored : e.mbr.start < Tick * Now}
    IN /\ MayDelete(stored) /\ old # {}
       /\ tree' = deleteDatum(tree, Drawn(old), Tick * Now)
       /\ deleted' = deleted + 1
       /\ stored' = stored \ {Drawn(old)}
       /\ UNCHANGED <<seed, inserted, loaded>>

CloseAndLoad ==
    /\ MayReopen
    /\ tree' = loadTPRTree(tree)
    /\ loaded' = TRUE
    /\ UNCHANGED <<seed, inserted, deleted, stored>>

Next == InsertData \/ DeleteData \/ CloseAndLoad

Spec == Init /\ [][Next]_vars

-----------------------------------------------------------------------------
(* Properties *)

\* The region of each node is the tight one of the time when it was last computed,
\* its parent keeps the same, and the statistics are exact (isIndexValid).
IndexValid == isIndexValid(tree) /\ ~ tree.failed

\* The tree holds the data inserted and not deleted, each once, as it was inserted.
ContentExact ==
    LET content == DataBelow(tree, Root(tree))
    IN /\ {<<e.id, e.mbr>> : e \in ToSet(content)} = {<<e.id, e.mbr>> : e \in stored}
       /\ Len(content) = Cardinality(stored)
       /\ tree.data = Len(content)

\* Every page in use is that of one node of the tree, or of the header.
PagesInUse ==
    LET pages == DOMAIN tree.storage.buffer
    IN /\ {x.n.id : x \in Nodes(tree)} \cup {tree.header} = pages
       /\ Cardinality(Nodes(tree)) + 1 = Cardinality(pages)

Overlap(a, b, t) ==
    \A d \in Dims : /\ getExtrapolatedLow(a, d, t) <= getExtrapolatedHigh(b, d, t)
                    /\ getExtrapolatedLow(b, d, t) <= getExtrapolatedHigh(a, d, t)

\* A query, of a box at rest or on the move, within the horizon of now, reports the
\* data that it meets in its time (test/tprtree/Exhaustive.cc), although the regions
\* of the nodes were computed at earlier times.  A datum that it meets for no more
\* than an instant may be reported or not.
QueriesExact ==
    \A query \in Queries : \A v \in {0, 1} : \A ahead \in {0, 2 * Tick} :
       LET from == tree.currentTime + ahead
           to == from + 2 * Tick - 1
           q == [lo |-> [d \in Dims |-> Tick * query.lo[d]],
                 hi |-> [d \in Dims |-> Tick * query.hi[d]],
                 vlo |-> [d \in Dims |-> v], vhi |-> [d \in Dims |-> v],
                 start |-> from, end |-> to]
           met(length) == {e.id : e \in {e \in stored :
               \E t \in from..(to - length) :
                  Overlap(q, e.mbr, t) /\ Overlap(q, e.mbr, t + length)}}
           reported == rangeQuery(tree, "IntersectionQuery", q)
       IN /\ InHorizon(tree, q)
          /\ met(1) \subseteq reported
          /\ reported \subseteq met(0)

=============================================================================
