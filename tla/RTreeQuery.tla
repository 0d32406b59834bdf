----------------------------- MODULE RTreeQuery -----------------------------
(***************************************************************************)
(* The queries of the R-tree (RTree.cc): each operator gives the sequence  *)
(* of the entries that the visitor is given, in some order of the code's   *)
(* stack; a query shape is a region.                                       *)
(***************************************************************************)
EXTENDS RTree

\* The concatenation of Of[i] for the children i of n that are selected.
Below(n, selected, Of) ==
    FoldLeft(LAMBDA out, i : IF selected[i] THEN out \o Of[i] ELSE out,
             <<>>, [i \in DOMAIN n.ch |-> i])

All(n) == [i \in DOMAIN n.ch |-> TRUE]

-----------------------------------------------------------------------------
(* Ranges *)

RECURSIVE rangeBelow(_, _, _, _)
rangeBelow(t, n, type, query) ==
    IF n.level = 0
    THEN SelectSeq(n.ch, LAMBDA e : IF type = "ContainmentQuery"
                                    THEN containsRegion(query, e.mbr)
                                    ELSE intersectsRegion(query, e.mbr))
    ELSE Below(n, [i \in DOMAIN n.ch |-> intersectsRegion(query, n.ch[i].mbr)],
               [i \in DOMAIN n.ch |->
                    rangeBelow(t, readNode(t, n.ch[i].id), type, query)])

rangeQuery(t, type, query) ==
    IF Root(t).ch # <<>> /\ intersectsRegion(query, Root(t).mbr)
    THEN rangeBelow(t, Root(t), type, query) ELSE <<>>

intersectsWithQuery(t, query) == rangeQuery(t, "IntersectionQuery", query)

pointLocationQuery(t, p) == rangeQuery(t, "IntersectionQuery", getMBR(p))

RECURSIVE visitSubTree(_, _)
visitSubTree(t, n) ==
    IF n.level = 0 THEN n.ch
    ELSE Below(n, All(n),
               [i \in DOMAIN n.ch |-> visitSubTree(t, readNode(t, n.ch[i].id))])

\* An index inside the query is visited without further tests.
RECURSIVE containsBelow(_, _, _)
containsBelow(t, n, query) ==
    IF n.level = 0
    THEN SelectSeq(n.ch, LAMBDA e : containsRegion(query, e.mbr))
    ELSE IF containsRegion(query, n.mbr) THEN visitSubTree(t, n)
    ELSE IF intersectsRegion(query, n.mbr)
    THEN Below(n, All(n), [i \in DOMAIN n.ch |->
                             containsBelow(t, readNode(t, n.ch[i].id), query)])
    ELSE <<>>

containsWhatQuery(t, query) == containsBelow(t, Root(t), query)

-----------------------------------------------------------------------------
(* Nearest neighbours *)

\* The queue has nodes and data with their distances to the query; the entry in
\* front is one of those with the least distance.  k or more data are reported,
\* those as far as the last one included.
RECURSIVE nearestBelow(_, _, _, _, _, _)
nearestBelow(t, query, k, queue, out, knearest) ==
    LET first == CHOOSE q \in queue : \A r \in queue : q.dist <= r.dist
        n == readNode(t, first.e.id)
        Entry(e) == [e |-> e, datum |-> n.level = 0,
                     dist |-> getMinimumDistance(query, e.mbr)]
    IN IF queue = {} THEN out
       ELSE IF Len(out) >= k /\ first.dist > knearest THEN out
       ELSE IF first.datum
       THEN nearestBelow(t, query, k, queue \ {first}, Append(out, first.e),
                         first.dist)
       ELSE nearestBelow(t, query, k,
                         (queue \ {first}) \cup {Entry(n.ch[i]) : i \in DOMAIN n.ch},
                         out, knearest)

nearestNeighborQuery(t, k, query) ==
    nearestBelow(t, query, k,
                 {[e |-> [mbr |-> Root(t).mbr, id |-> t.root], datum |-> FALSE,
                   dist |-> 0]}, <<>>, 0)

-----------------------------------------------------------------------------
(* Self join: the pairs of data that meet each other and the query.  The   *)
(* region handed down shrinks to what the two nodes share.                 *)

RECURSIVE joinBelow(_, _, _, _)
joinBelow(t, n1, n2, r) ==
    LET Meet(i, j) ==
            /\ intersectsRegion(r, n1.ch[i].mbr)
            /\ intersectsRegion(r, n2.ch[j].mbr)
            /\ intersectsRegion(n1.ch[i].mbr, n2.ch[j].mbr)
        Pair(i, j) ==
            IF ~ Meet(i, j) THEN <<>>
            ELSE IF n1.level = 0
            THEN IF n1.ch[i].id # n2.ch[j].id THEN << <<n1.ch[i], n2.ch[j]>> >>
                 ELSE <<>>
            ELSE joinBelow(t, readNode(t, n1.ch[i].id), readNode(t, n2.ch[j].id),
                           getIntersectingRegion(r,
                               getIntersectingRegion(n1.ch[i].mbr, n2.ch[j].mbr)))
    IN Below(n1, All(n1), [i \in DOMAIN n1.ch |->
            Below(n2, All(n2), [j \in DOMAIN n2.ch |-> Pair(i, j)])])

selfJoinQuery(t, query) == joinBelow(t, Root(t), Root(t), query)

=============================================================================
