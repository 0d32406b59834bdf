------------------------------- MODULE TPRTree -------------------------------
(***************************************************************************)
(* The TPR-tree of the vendored spatial index (src/tprtree): an R-tree     *)
(* over moving boxes, for queries of the near future.  The region of a     *)
(* node is a moving box as well, tight at the time of the node's last      *)
(* change and large enough at any later time.  Costs are integrals over    *)
(* the time from now to the horizon.                                       *)
(*                                                                         *)
(* Nodes and trees are records, as in RTree; a tree also has the time of   *)
(* its last change.  The forced reinsertion of insertData is left out: its *)
(* condition starts with false.                                            *)
(***************************************************************************)
EXTENDS MovingRegion, MemoryStorageManager

CONSTANTS
    IndexCapacity, LeafCapacity, FillFactor, SplitDistributionFactor,
    ReinsertFactor, NearMinimumOverlapFactor, TightMBRs, Outside,
    Horizon

RT == INSTANCE RTree

RECURSIVE insertData(_, _, _, _), adjustTree(_, _, _, _)

-----------------------------------------------------------------------------
(* Nodes *)

NewNode(id, level) ==
    [id |-> id, level |-> level, mbr |-> makeInfiniteMoving, ch |-> <<>>]

\* The smallest region that contains the entries ch from the time on.
Bounded(ch, time) ==
    LET lows(d)  == {getExtrapolatedLow(c.mbr, d, time) : c \in ToSet(ch)}
        highs(d) == {getExtrapolatedHigh(c.mbr, d, time) : c \in ToSet(ch)}
    IN IF ch = <<>> THEN [makeInfiniteMoving EXCEPT !.start = time]
       ELSE [lo |-> [d \in Dims |-> Min(lows(d))],
             hi |-> [d \in Dims |-> Max(highs(d))],
             vlo |-> [d \in Dims |-> Min({c.mbr.vlo[d] : c \in ToSet(ch)})],
             vhi |-> [d \in Dims |-> Max({c.mbr.vhi[d] : c \in ToSet(ch)})],
             start |-> time, end |-> Infinity]

\* A region of an earlier time is computed anew.
insertEntry(n, e, now) ==
    [n EXCEPT !.ch = Append(@, e),
              !.mbr = IF @.start # now THEN Bounded(Append(n.ch, e), now)
                      ELSE IF containsRegionAfterTime(@, now, e.mbr) THEN @
                      ELSE combineRegionAfterTime(@, e.mbr, now)]

\* The last entry takes the place of the i-th.
deleteEntry(n, i, now) ==
    LET ch == Front([n.ch EXCEPT ![i] = Last(n.ch)])
    IN [n EXCEPT !.ch = ch,
                 !.mbr = IF ch = <<>> THEN makeInfiniteMoving ELSE Bounded(ch, now)]

writeNode(t, n)   == RT!writeNode(t, n)
readNode(t, page) == RT!readNode(t, page)
deleteNode(t, n)  == RT!deleteNode(t, n)

Root(t) == readNode(t, t.root)

\* The time in which costs are measured.
ivT(t) == Interval(t.currentTime, t.currentTime + Horizon)

-----------------------------------------------------------------------------
(* Choice of the subtree for a region r *)

AreaOf(t, n, i) == getAreaInTime(n.ch[i].mbr, ivT(t))

Combined(t, n, i, r) == combineRegionAfterTime(n.ch[i].mbr, r, t.currentTime)

Enlargement(t, n, i, r) ==
    getAreaInTime(Combined(t, n, i, r), ivT(t)) - AreaOf(t, n, i)

findLeastEnlargement(t, n, r) ==
    RT!FirstLeast(DOMAIN n.ch, [i \in DOMAIN n.ch |->
                                  <<Enlargement(t, n, i, r), AreaOf(t, n, i)>>])

OverlapEnlargement(t, n, i, r) ==
    LET Of(j) ==
            LET f == getIntersectingAreaInTime(Combined(t, n, i, r), ivT(t), n.ch[j].mbr)
            IN IF f = 0 THEN 0
               ELSE f - getIntersectingAreaInTime(n.ch[i].mbr, ivT(t), n.ch[j].mbr)
    IN SumTo([j \in DOMAIN n.ch |-> IF j = i THEN 0 ELSE Of(j)], Len(n.ch))

\* As in the R-tree.
findLeastOverlap(t, n, r) ==
    LET least == findLeastEnlargement(t, n, r)
        enlargement == [i \in DOMAIN n.ch |-> Enlargement(t, n, i, r)]
        examined == RT!Examined(enlargement)
    IN IF enlargement[least] = 0 THEN least
       ELSE RT!LeastOverlap(examined,
               [i \in ToSet(examined) |-> OverlapEnlargement(t, n, i, r)],
               enlargement, [i \in DOMAIN n.ch |-> AreaOf(t, n, i)])

RECURSIVE chooseSubtree(_, _, _, _, _)
chooseSubtree(t, n, r, level, path) ==
    LET child == IF n.level = 1 THEN findLeastOverlap(t, n, r)
                 ELSE findLeastEnlargement(t, n, r)
    IN IF n.level = 0 \/ n.level = level
       THEN [n |-> n, path |-> path, failed |-> FALSE]
       ELSE IF n.ch = <<>> THEN [n |-> n, path |-> path, failed |-> TRUE]
       ELSE chooseSubtree(t, readNode(t, n.ch[child].id), r, level,
                          Append(path, n.id))

-----------------------------------------------------------------------------
(* Split of the entries all: as in the R*-tree, but entries are sorted by  *)
(* their velocities, too                                                   *)

Kinds == {"lo", "hi", "vlo", "vhi"}

compare(all, kind, d) == [i \in DOMAIN all |-> all[i].mbr[kind][d]]

\* Sorted in each dimension up to d what the sort in the previous one has left.
RECURSIVE SortedBy(_, _, _)
SortedBy(all, kind, d) ==
    IF d = 0 THEN [i \in DOMAIN all |-> i]
    ELSE RT!StableSort(SortedBy(all, kind, d - 1), compare(all, kind, d))

\* The region around the entries at order[from..to].
Around(t, all, order, from, to) ==
    FoldLeft(LAMBDA r, i : combineRegionAfterTime(r, all[i].mbr, t.currentTime),
             all[order[from]].mbr, SubSeq(order, from + 1, to))

MarginSum(t, all, order) ==
    LET margin(from, to) ==
            getProjectedSurfaceAreaInTime(Around(t, all, order, from, to), ivT(t))
    IN SumTo([l \in 1..(Len(all) - 1) |->
                IF l \in RT!Distributions(all)
                THEN margin(1, l) + margin(l + 1, Len(all)) ELSE 0],
             Len(all) - 1)

\* The order of a dimension is that of the kind whose margin is less than those of
\* the others; if there is none, that of the dimension before.
SortOrder(margins, previous) ==
    LET strict == {k \in Kinds : \A l \in Kinds \ {k} : margins[k] < margins[l]}
    IN IF strict = {} THEN previous ELSE strict

\* The axis with the least margin, and its kinds of order.
SplitAxis(marginOf) ==
    LET least == [d \in Dims |-> Min({marginOf[d][k] : k \in Kinds})]
        Chosen(s, d) ==
            IF s.axis = 0 \/ least[d] < least[s.axis]
            THEN [axis |-> d, sortOrder |-> SortOrder(marginOf[d], s.sortOrder)]
            ELSE s
    IN FoldLeft(Chosen, [axis |-> 0, sortOrder |-> {}], [d \in Dims |-> d])

SplitOrder(all, split) ==
    LET low == SortedBy(all, "lo", Dimension)
    IN IF split.sortOrder = {} THEN low
       ELSE RT!StableSort(low, compare(all, CHOOSE k \in split.sortOrder : TRUE,
                                       split.axis))

SplitPoint(t, all, order) ==
    LET groups == [l \in RT!Distributions(all) |->
                     <<Around(t, all, order, 1, l),
                       Around(t, all, order, l + 1, Len(all))>>]
    IN RT!FirstLeast(RT!Distributions(all),
                     [l \in RT!Distributions(all) |->
                        <<getIntersectingAreaInTime(groups[l][1], ivT(t), groups[l][2]),
                          getAreaInTime(groups[l][1], ivT(t))
                          + getAreaInTime(groups[l][2], ivT(t))>>])

rstarSplit(t, all) ==
    LET marginOf == [d \in Dims |->
            [k \in Kinds |-> MarginSum(t, all, SortedBy(all, k, d))]]
        order == SplitOrder(all, SplitAxis(marginOf))
    IN RT!CutAt(order, SplitPoint(t, all, order))

split(t, n, e) ==
    LET all == Append(n.ch, e)
        groups == rstarSplit(t, all)
        Node(g) == FoldLeft(LAMBDA m, i : insertEntry(m, all[i], t.currentTime),
                            NewNode(RT!NewPage, n.level), g)
    IN [k \in 1..2 |-> Node(groups[k])]

-----------------------------------------------------------------------------
(* Insertion of the entry e in the node n below the pages path.  The nodes *)
(* above are adjusted up to the root, which makes them tighter.            *)

Entry(m) == [mbr |-> m.mbr, id |-> m.id]

WithChild(t, p, n) ==
    LET q == [p EXCEPT !.ch[RT!EntryOf(p, n)].mbr = n.mbr]
    IN [q EXCEPT !.mbr = Bounded(q.ch, t.currentTime)]

adjustTree(t, p, n, path) ==
    LET w == writeNode(t, WithChild(t, p, n))
    IN IF path = <<>> THEN w.t
       ELSE adjustTree(w.t, readNode(w.t, Last(path)), w.n, Front(path))

InsertWithRoom(t, n, e, path) ==
    LET w == writeNode(t, insertEntry(n, e, t.currentTime))
    IN IF path = <<>> THEN w.t
       ELSE adjustTree(w.t, readNode(w.t, Last(path)), w.n, Front(path))

SplitRoot(t, n, nodes) ==
    LET w1 == writeNode(t, nodes[1])
        w2 == writeNode(w1.t, nodes[2])
        one == insertEntry(NewNode(t.root, n.level + 1), Entry(w1.n), t.currentTime)
        t1 == writeNode(w2.t, insertEntry(one, Entry(w2.n), t.currentTime)).t
    IN [t1 EXCEPT !.nodesInLevel = Append([@ EXCEPT ![n.level + 1] = 2], 1),
                  !.height = n.level + 2]

\* The node keeps its page for one half; the other is a new entry of its parent.
SplitBelowRoot(t, n, nodes, path) ==
    LET w1 == writeNode(t, [nodes[1] EXCEPT !.id = n.id])
        w2 == writeNode(w1.t, nodes[2])
        parent == readNode(w2.t, Last(path))
    IN insertData(w2.t, WithChild(t, parent, w1.n), Entry(w2.n), Front(path))

insertData(t, n, e, path) ==
    IF Len(n.ch) < RT!Capacity(n) THEN InsertWithRoom(t, n, e, path)
    ELSE IF path = <<>> THEN SplitRoot(t, n, split(t, n, e))
    ELSE SplitBelowRoot(t, n, split(t, n, e), path)

InsertInto(t, e, chosen) ==
    IF t.failed \/ chosen.failed THEN [t EXCEPT !.failed = TRUE]
    ELSE insertData(t, chosen.n, e, chosen.path)

\* insertData_impl with a level.
insertAtLevel(t, e, level) ==
    InsertInto(t, e, chooseSubtree(t, Root(t), e.mbr, level, <<>>))

Counted(t, k) == [t EXCEPT !.data = @ + k]

\* insertData: the datum e moves from now on.
insertDatum(t, e) ==
    Counted(insertAtLevel([t EXCEPT !.currentTime = e.mbr.start], e, 0), 1)

-----------------------------------------------------------------------------
(* Deletion *)

\* The leaf with the identifier and the pages above it, by regions that contain the
\* datum from now on.
RECURSIVE findLeaf(_, _, _, _)
findLeaf(t, n, e, path) ==
    LET Below(c) == IF containsRegionAfterTime(c.mbr, t.currentTime, e.mbr)
                    THEN findLeaf(t, readNode(t, c.id), e, Append(path, n.id))
                    ELSE <<>>
        found == SelectSeq([i \in DOMAIN n.ch |-> Below(n.ch[i])],
                           LAMBDA f : f # <<>>)
    IN IF n.level = 0
       THEN IF \E c \in ToSet(n.ch) : c.id = e.id
            THEN <<[n |-> n, path |-> path]>> ELSE <<>>
       ELSE IF found = <<>> THEN <<>> ELSE Head(found)

EliminateRoot(t, n) == RT!EliminateRoot(t, n)

\* From n up: a node with too few entries leaves its parent, to be reinserted.
RECURSIVE condenseTree(_, _, _, _)
condenseTree(t, n, path, toReinsert) ==
    LET parent == readNode(t, Last(path))
        tooFew == Len(n.ch) < RT!minimumLoad(n)
        p == IF tooFew THEN deleteEntry(parent, RT!EntryOf(parent, n), t.currentTime)
             ELSE WithChild(t, parent, n)
    IN IF path = <<>>
       THEN [t |-> IF n.level # 0 /\ Len(n.ch) = 1 THEN EliminateRoot(t, n) ELSE t,
             toReinsert |-> toReinsert]
       ELSE condenseTree(writeNode(t, p).t, p, Front(path),
                         IF tooFew THEN <<n>> \o toReinsert ELSE toReinsert)

\* Mutant of ReinsertNode: the first entry is forgotten.
ReinsertNode_Tail(t, n) ==
    FoldLeft(LAMBDA tt, e : insertAtLevel(tt, e, n.level), deleteNode(t, n),
             SubSeq(n.ch, 2, Len(n.ch)))

ReinsertNode(t, n) ==
    FoldLeft(LAMBDA tt, e : insertAtLevel(tt, e, n.level), deleteNode(t, n), n.ch)

deleteFromLeaf(t, leaf, id, path) ==
    LET n == deleteEntry(leaf, SelectInSeq(leaf.ch, LAMBDA x : x.id = id),
                         t.currentTime)
        c == condenseTree(writeNode(t, n).t, n, path, <<>>)
    IN FoldLeft(ReinsertNode, c.t, c.toReinsert)

\* deleteData: the datum e leaves at the time now.
deleteDatum(t, e, now) ==
    LET t1 == [t EXCEPT !.currentTime = now]
        found == findLeaf(t1, Root(t1), e, <<>>)
    IN IF found = <<>> THEN t1
       ELSE Counted(deleteFromLeaf(t1, found[1].n, e.id, found[1].path), -1)

-----------------------------------------------------------------------------
(* Queries.  A region is met in its own time, which never ends.            *)

OwnTime(r) == Interval(r.start, r.end)

Meets(query, r) == intersectsRegionInTime(query, OwnTime(r), r)

RECURSIVE rangeBelow(_, _, _, _)
rangeBelow(t, type, n, query) ==
    LET Reported(e) == IF type = "ContainmentQuery"
                       THEN containsRegionInTime(query, OwnTime(e.mbr), e.mbr)
                       ELSE Meets(query, e.mbr)
    IN IF n.level = 0 THEN {e.id : e \in {e \in ToSet(n.ch) : Reported(e)}}
       ELSE UNION {rangeBelow(t, type, readNode(t, e.id), query) :
                      e \in {e \in ToSet(n.ch) : Meets(query, e.mbr)}}

\* A query outside the horizon is refused.
InHorizon(t, query) ==
    query.start >= t.currentTime /\ query.end < t.currentTime + Horizon

rangeQuery(t, type, query) ==
    IF Root(t).ch # <<>> /\ Meets(query, Root(t).mbr)
    THEN rangeBelow(t, type, Root(t), query) ELSE {}

-----------------------------------------------------------------------------
(* Creation, closing and opening, isIndexValid                             *)

HeaderOf(t) == [root |-> t.root, nodes |-> t.nodes, data |-> t.data,
                currentTime |-> t.currentTime, height |-> t.height,
                nodesInLevel |-> SubSeq(t.nodesInLevel, 1, t.height)]

storeHeader(t) ==
    IF t.header = RT!NewPage
    THEN [t EXCEPT !.storage = storeNewPage(@, HeaderOf(t)),
                   !.header = NewPageOf(t.storage)]
    ELSE [t EXCEPT !.storage = storeByteArray(@, t.header, HeaderOf(t))]

createNewTPRTree ==
    LET t == [storage |-> NoStorage, root |-> RT!NewPage, header |-> RT!NewPage,
              nodes |-> 0, data |-> 0, currentTime |-> 0, height |-> 1,
              nodesInLevel |-> <<0>>, failed |-> FALSE]
        w == writeNode(t, NewNode(RT!NewPage, 0))
    IN storeHeader([w.t EXCEPT !.root = w.n.id])

\* The tree is destroyed, which stores the header, and loaded again.
loadTPRTree(t) ==
    LET closed == storeHeader(t)
        h == loadByteArray(closed.storage, closed.header)
    IN [x \in DOMAIN t |-> IF x \in DOMAIN h THEN h[x] ELSE closed[x]]

Nodes(t) == RT!Subtree(t, t.root, Root(t).mbr)

isIndexValid(t) ==
    LET AtLevel(l) == Cardinality({x \in Nodes(t) : x.n.level = l})
    IN /\ Root(t).level = t.height - 1
       /\ \A x \in Nodes(t) :
             /\ x.n.mbr = Bounded(x.n.ch, x.parentMBR.start)
             /\ x.parentMBR = x.n.mbr
       /\ \A l \in 0..(t.height - 1) : AtLevel(l) = t.nodesInLevel[l + 1]
       /\ t.nodes = SumTo(t.nodesInLevel, t.height)

\* The data below the node n.
RECURSIVE DataBelow(_, _)
DataBelow(t, n) ==
    IF n.level = 0 THEN n.ch
    ELSE FlattenSeq([i \in DOMAIN n.ch |-> DataBelow(t, readNode(t, n.ch[i].id))])

=============================================================================
