--------------------------- MODULE SkylineChecker ---------------------------
(***************************************************************************)
(* The queries of src/skyline_checker.cpp over its R-tree (class SkyRTree) *)
(* and the verdict on the results sets.  A tuple has its coordinates d,    *)
(* the time gen_ts at which it was generated and its app_ts, here its      *)
(* number in the stream; a SkyPoint is the entry of its tuple in the tree. *)
(* The coordinates are integers, as the note at the head of the file       *)
(* demands: dominance truncates others.                                    *)
(***************************************************************************)
EXTENDS RTreeQuery

Sky == INSTANCE SkySet WITH DIM <- Dimension

SkyPoint(t) == [mbr |-> getMBR(t.d), id |-> t.app_ts]

\* The tuple t of the SkyPoint e, of those received.
PointTuple(received, e) == received[e.id]

\* SkyPoint::dominance of the point p over q.
dominance(p, q) ==
    /\ \A d \in Dims : p[d] <= q[d]
    /\ \E d \in Dims : p[d] < q[d]

\* Mutant of Selected: the nearest corner is compared, where the farthest must be.
Selected_Min(q, e) ==
    IF q.mode = "DOMINATES" THEN dominance(q.pt, e.mbr.lo)
    ELSE dominance(e.mbr.lo, q.pt)

\* handleIndex: there may be an answer of the query q below the child e.
Selected(q, e) ==
    IF q.mode = "DOMINATES" THEN dominance(q.pt, e.mbr.hi)
    ELSE dominance(e.mbr.lo, q.pt)

\* queryStrategy: the pages are read in the order of the queue ids.  The query q
\* has a mode and a point pt; out collects the points of a DominanceQuery, and
\* stop ends a SkylineQuery.
RECURSIVE queryStrategy(_, _, _, _)
queryStrategy(t, q, ids, out) ==
    LET n == readNode(t, Head(ids))
        MaySelect(e) == Selected(q, e)
        Answer(e) ==        \* handleLeaf
            IF q.mode = "DOMINATES" THEN dominance(q.pt, e.mbr.lo)
            ELSE dominance(e.mbr.lo, q.pt)
        \* handleIndex: all below the child dominates the point
        stop == /\ q.mode = "ISDOMINATED"
                /\ \E i \in DOMAIN n.ch : IF n.level = 0 THEN Answer(n.ch[i])
                                          ELSE dominance(n.ch[i].mbr.hi, q.pt)
        next == Tail(ids) \o (IF n.level = 0 THEN <<>>
                              ELSE [i \in DOMAIN SelectSeq(n.ch, MaySelect) |->
                                       SelectSeq(n.ch, MaySelect)[i].id])
        found == out \o (IF n.level = 0 THEN SelectSeq(n.ch, Answer) ELSE <<>>)
    IN IF stop THEN [stopped |-> TRUE, pts |-> found]
       ELSE IF next = <<>> THEN [stopped |-> FALSE, pts |-> found]
       ELSE queryStrategy(t, q, next, found)

getDominatedPoints(db, pt) ==
    queryStrategy(db, [mode |-> "DOMINATES", pt |-> pt], <<db.root>>, <<>>).pts

isSkyline(db, pt) ==
    ~ queryStrategy(db, [mode |-> "ISDOMINATED", pt |-> pt], <<db.root>>,
                    <<>>).stopped

\* point_min dominates every point: the whole tree is returned.
point_min == [d \in Dims |-> -Infinity]

\* The tuples of s that std::sort may leave in position i: it compares them with
\* the operator< of tuple_t, by gen_ts alone (the operator< of the program takes
\* constant tuples and is never chosen), and leaves equal ones in any order.
SortedAt(s, i) ==
    {t \in ToSet(s) :
        /\ Cardinality({j \in DOMAIN s : s[j].gen_ts < t.gen_ts}) < i
        /\ i <= Cardinality({j \in DOMAIN s : s[j].gen_ts <= t.gen_ts})}

\* The verdict, whatever the sorts do: the results sets of the blocks, merged, and
\* the tuples of the tree are as many, and the two in each position have the same
\* coordinates, which are all that the operator != compares.
areEqual(db, panes, received) ==
    LET result1 == FoldLeft(Sky!addComputeSet, <<>>, panes)
        removed == getDominatedPoints(db, point_min)
        result2 == [i \in DOMAIN removed |-> PointTuple(received, removed[i])]
    IN /\ Len(result1) = Len(removed)
       /\ \A i \in DOMAIN result1 :
             \A t \in SortedAt(result1, i), u \in SortedAt(result2, i) : t.d = u.d

=============================================================================
