------------------------------- MODULE RTree --------------------------------
(***************************************************************************)
(* The R-tree of the vendored spatial index (src/rtree), with which the    *)
(* skyline checker verifies the results of the program: insertion in the   *)
(* three variants (linear, quadratic, R* with forced reinsertion) and      *)
(* deletion with condensation.                                             *)
(*                                                                         *)
(* A tree t is a record: its storage, its root, header, variant and        *)
(* statistics.  A node in the storage has its level, MBR and children, an  *)
(* entry of which is a region and an identifier (of a node, or of a datum  *)
(* in a leaf); a node in memory has its page id too, NewPage until it is   *)
(* written.  As in the code, a node in memory is a copy that may be older  *)
(* than its page.  The operators take a tree and return the next one.      *)
(*                                                                         *)
(* The contents of the data, the statistics of reads, writes and splits,   *)
(* the commands of addCommand and the pools of objects are left out.       *)
(* qsort leaves equal entries in their order, as that of glibc does.       *)
(***************************************************************************)
EXTENDS Region, MemoryStorageManager

CONSTANTS
    IndexCapacity, LeafCapacity,    \* entries of a node
    FillFactor,                     \* percentages
    SplitDistributionFactor,
    ReinsertFactor,
    NearMinimumOverlapFactor,
    TightMBRs,                      \* EnsureTightMBRs
    Outside                         \* the byte behind the overflow table

\* What the constructor and initNew check, and what keeps rstarSplit within its
\* arrays.
ASSUME RTreeAssumption ==
    /\ Dimension \in Nat \ {0, 1}
    /\ \A c \in {IndexCapacity, LeafCapacity} :
          /\ c \in Nat /\ c >= 4
          /\ (c + 1) * SplitDistributionFactor >= 200
    /\ {FillFactor, SplitDistributionFactor, ReinsertFactor} \subseteq 1..99
    /\ NearMinimumOverlapFactor \in Nat \ {0}
    /\ TightMBRs \in BOOLEAN
    /\ Outside \in {0, 1}

NewPage == -1

RECURSIVE insertData(_, _, _, _), adjustTree(_, _, _, _),
          adjustForSplit(_, _, _, _, _), insertAtLevel(_, _, _)

-----------------------------------------------------------------------------
(* Nodes *)

NewNode(id, level) ==
    [id |-> id, level |-> level, mbr |-> makeInfinite, ch |-> <<>>]

Capacity(n) == IF n.level = 0 THEN LeafCapacity ELSE IndexCapacity

minimumLoad(n) == (Capacity(n) * FillFactor) \div 100

\* The smallest box around the entries ch.
RECURSIVE MBR(_)
MBR(ch) == IF ch = <<>> THEN makeInfinite
           ELSE getCombinedRegion(Head(ch).mbr, MBR(Tail(ch)))

Tight(n) == [n EXCEPT !.mbr = MBR(n.ch)]

insertEntry(n, e) ==
    [n EXCEPT !.ch = Append(@, e), !.mbr = getCombinedRegion(@, e.mbr)]

\* The last entry takes the place of the i-th.
deleteEntry(n, i) ==
    LET ch == Front([n.ch EXCEPT ![i] = Last(n.ch)])
    IN [n EXCEPT !.ch = ch,
                 !.mbr = IF ch = <<>> THEN makeInfinite
                         ELSE IF TightMBRs /\ touchesRegion(@, n.ch[i].mbr)
                         THEN MBR(ch) ELSE @]

\* The position of the entry of the node n in its parent p.
EntryOf(p, n) == SelectInSeq(p.ch, LAMBDA e : e.id = n.id)

\* The node as storeToByteArray writes it.
Stored(n) == [level |-> n.level, mbr |-> n.mbr, ch |-> n.ch]

\* The node n is written; it gets a page if it has none.
writeNode(t, n) ==
    IF n.id = NewPage
    THEN [t |-> [t EXCEPT !.storage = storeNewPage(@, Stored(n)),
                          !.nodes = @ + 1,
                          !.nodesInLevel[n.level + 1] = @ + 1],
          n |-> [n EXCEPT !.id = NewPageOf(t.storage)]]
    ELSE [t |-> [t EXCEPT !.storage = storeByteArray(@, n.id, Stored(n))],
          n |-> n]

readNode(t, page) ==
    LET stored == loadByteArray(t.storage, page)
    IN [id |-> page, level |-> stored.level, mbr |-> stored.mbr,
        ch |-> stored.ch]

deleteNode(t, n) ==
    [t EXCEPT !.storage = deleteByteArray(@, n.id),
              !.nodes = @ - 1,
              !.nodesInLevel[n.level + 1] = @ - 1]

Root(t) == readNode(t, t.root)

-----------------------------------------------------------------------------
(* Choice of the subtree *)

Enlargement(a, r) == getArea(getCombinedRegion(a, r)) - getArea(a)

\* The first position of S at which the pair rank[i] is smallest.
FirstLeast(S, rank) ==
    CHOOSE i \in S : \A j \in S :
        \/ rank[i][1] < rank[j][1]
        \/ rank[i][1] = rank[j][1] /\ rank[i][2] < rank[j][2]
        \/ rank[i] = rank[j] /\ i <= j

\* The least enlargement, then the least area.
findLeastEnlargement(n, r) ==
    FirstLeast(DOMAIN n.ch,
               [i \in DOMAIN n.ch |-> <<Enlargement(n.ch[i].mbr, r),
                                        getArea(n.ch[i].mbr)>>])

\* How much more an entry overlaps the others when it takes r in.
OverlapEnlargement(n, i, r) ==
    LET original == n.ch[i].mbr
        combined == getCombinedRegion(original, r)
        Of(j) == LET f == getIntersectingArea(combined, n.ch[j].mbr)
                 IN IF f # 0 THEN f - getIntersectingArea(original, n.ch[j].mbr)
                    ELSE 0
    IN SumTo([j \in DOMAIN n.ch |-> IF j = i THEN 0 ELSE Of(j)], Len(n.ch))

\* The stable sort of the positions s by key.
StableSort(s, key) ==
    LET ranked == SortSeq([i \in DOMAIN s |-> <<key[s[i]], i, s[i]>>],
                          LAMBDA a, b : \/ a[1] < b[1]
                                        \/ a[1] = b[1] /\ a[2] < b[2])
    IN [i \in DOMAIN s |-> ranked[i][3]]

\* The positions that findLeastOverlap examines: those of the least enlargement.
Examined(enlargement) ==
    LET positions == [i \in DOMAIN enlargement |-> i]
    IN IF Len(enlargement) > NearMinimumOverlapFactor
       THEN SubSeq(StableSort(positions, enlargement), 1, NearMinimumOverlapFactor)
       ELSE positions

\* Of those with the least enlargement of their overlap, the first one with the
\* least enlargement, then area.
LeastOverlap(examined, overlap, enlargement, area) ==
    LET Better(i, best) ==
            \/ overlap[i] < overlap[best]
            \/ /\ overlap[i] = overlap[best]
               /\ \/ enlargement[i] < enlargement[best]
                  \/ enlargement[i] = enlargement[best] /\ area[i] < area[best]
        Best(best, i) == IF Better(i, best) THEN i ELSE best
    IN FoldLeft(Best, Head(examined), Tail(examined))

\* An entry that needs no enlargement is taken without a look at the overlaps.
findLeastOverlap(n, r) ==
    LET least == findLeastEnlargement(n, r)
        enlargement == [i \in DOMAIN n.ch |-> Enlargement(n.ch[i].mbr, r)]
    IN IF enlargement[least] = 0 THEN least
       ELSE LeastOverlap(Examined(enlargement),
                         [i \in DOMAIN n.ch |-> OverlapEnlargement(n, i, r)],
                         enlargement, [i \in DOMAIN n.ch |-> getArea(n.ch[i].mbr)])

\* From n down to a node of the given level: the node and the pages above it.
\* An index without children has no subtree to choose.
RECURSIVE chooseSubtree(_, _, _, _, _)
chooseSubtree(t, n, r, level, path) ==
    IF n.level = 0 \/ n.level = level
    THEN [n |-> n, path |-> path, failed |-> FALSE]
    ELSE IF n.ch = <<>> THEN [n |-> n, path |-> path, failed |-> TRUE]
    ELSE LET child == IF t.variant = "RV_RSTAR" /\ n.level = 1
                      THEN findLeastOverlap(n, r)
                      ELSE findLeastEnlargement(n, r)
         IN chooseSubtree(t, readNode(t, n.ch[child].id), r, level,
                          Append(path, n.id))

-----------------------------------------------------------------------------
(* Split of the entries all, one more than a node holds: the positions of  *)
(* the entries of the two groups                                           *)

\* The box around the entries at the positions order[from..to].
Around(all, order, from, to) ==
    MBR([i \in 1..(to - from + 1) |-> all[order[from + i - 1]]])

\* rstarSplit sorts in each dimension, by the lower or the upper coordinates,
\* what the sort in the previous dimension has left.
RECURSIVE SortedLow(_, _), SortedHigh(_, _)
SortedLow(all, d) ==
    IF d = 0 THEN [i \in DOMAIN all |-> i]
    ELSE StableSort(SortedLow(all, d - 1), [i \in DOMAIN all |-> all[i].mbr.lo[d]])
SortedHigh(all, d) ==
    IF d = 0 THEN [i \in DOMAIN all |-> i]
    ELSE StableSort(SortedHigh(all, d - 1), [i \in DOMAIN all |-> all[i].mbr.hi[d]])

nodeSPF(all) == (Len(all) * SplitDistributionFactor) \div 100

\* The sizes of the first group that rstarSplit tries.
Distributions(all) == nodeSPF(all)..(Len(all) - nodeSPF(all) + 1)

\* The sum of the margins of the two groups over the distributions.
MarginSum(all, order) ==
    LET margin == [l \in 1..(Len(all) - 1) |->
            IF l \in Distributions(all)
            THEN getMargin(Around(all, order, 1, l))
                 + getMargin(Around(all, order, l + 1, Len(all)))
            ELSE 0]
    IN SumTo(margin, Len(all) - 1)

\* The order along the split axis, whose margins are the least.
SplitOrder(all, marginl, marginh) ==
    LET splitAxis == FirstLeast(Dims,
                        [d \in Dims |-> <<smaller(marginl[d], marginh[d]), 0>>])
    IN StableSort(SortedLow(all, Dimension),
                  [i \in DOMAIN all |->
                      IF marginl[splitAxis] < marginh[splitAxis]
                      THEN all[i].mbr.lo[splitAxis] ELSE all[i].mbr.hi[splitAxis]])

\* The size of the first group: the groups overlap least, then have the least area.
SplitPoint(all, order) ==
    LET groups == [l \in Distributions(all) |->
                     <<Around(all, order, 1, l), Around(all, order, l + 1, Len(all))>>]
    IN FirstLeast(Distributions(all),
                  [l \in Distributions(all) |->
                      <<getIntersectingArea(groups[l][1], groups[l][2]),
                        getArea(groups[l][1]) + getArea(groups[l][2])>>])

CutAt(order, splitPoint) ==
    <<SubSeq(order, 1, splitPoint), SubSeq(order, splitPoint + 1, Len(order))>>

rstarSplit(all) ==
    LET order == SplitOrder(all, [d \in Dims |-> MarginSum(all, SortedLow(all, d))],
                            [d \in Dims |-> MarginSum(all, SortedHigh(all, d))])
    IN CutAt(order, SplitPoint(all, order))

\* Linear: the pair with the greatest separation relative to the width.
LinearSeeds(all) ==
    LET lower == [d \in Dims |-> CHOOSE i \in DOMAIN all : \A j \in DOMAIN all :
                     \/ all[j].mbr.lo[d] < all[i].mbr.lo[d]
                     \/ all[j].mbr.lo[d] = all[i].mbr.lo[d] /\ i <= j]
        upper == [d \in Dims |-> CHOOSE i \in DOMAIN all : \A j \in DOMAIN all :
                     \/ all[j].mbr.hi[d] > all[i].mbr.hi[d]
                     \/ all[j].mbr.hi[d] = all[i].mbr.hi[d] /\ i <= j]
        width == [d \in Dims |-> larger(1, Width(MBR(all))[d])]
        gap == [d \in Dims |-> all[lower[d]].mbr.lo[d] - all[upper[d]].mbr.hi[d]]
        axis == CHOOSE d \in Dims : \A e \in Dims :
                   \/ gap[d] * width[e] > gap[e] * width[d]
                   \/ gap[d] * width[e] = gap[e] * width[d] /\ d <= e
        Pair(up, low) == IF up # low THEN <<up, low>>
                         ELSE IF low = 1 THEN <<1, 2>> ELSE <<up, low - 1>>
    IN Pair(upper[axis], lower[axis])

\* Quadratic: the pair that wastes the most area.
QuadraticSeeds(all) ==
    LET waste(p) == getArea(getCombinedRegion(all[p[1]].mbr, all[p[2]].mbr))
                    - getArea(all[p[1]].mbr) - getArea(all[p[2]].mbr)
        pairs == {p \in (DOMAIN all) \X (DOMAIN all) : p[1] < p[2]}
    IN CHOOSE p \in pairs : \A q \in pairs :
          \/ waste(q) < waste(p)
          \/ waste(q) = waste(p) /\ (p[1] < q[1] \/ (p[1] = q[1] /\ p[2] <= q[2]))

pickSeeds(t, all) ==
    IF t.variant = "RV_QUADRATIC" THEN QuadraticSeeds(all) ELSE LinearSeeds(all)

\* By how much the group g is enlarged when it takes the i-th entry.
Grown(all, g, i) == Enlargement(MBR([k \in DOMAIN g |-> all[g[k]]]), all[i].mbr)

\* The entry to be assigned next: in the quadratic split, the one whose
\* enlargements of the two groups differ most.
PickNext(t, all, g1, g2, rest) ==
    LET difference == [i \in DOMAIN all |-> 
            larger(Grown(all, g1, i), Grown(all, g2, i))
            - smaller(Grown(all, g1, i), Grown(all, g2, i))]
    IN IF t.variant = "RV_LINEAR" THEN Head(rest)
       ELSE FirstLeast(ToSet(rest), [i \in DOMAIN all |-> <<- difference[i], 0>>])

ToFirst(all, g1, g2, i) ==
    LET area(g) == getArea(MBR([k \in DOMAIN g |-> all[g[k]]]))
    IN \/ Grown(all, g1, i) < Grown(all, g2, i)
       \/ /\ Grown(all, g1, i) = Grown(all, g2, i)
          /\ \/ area(g1) < area(g2)
             \/ area(g1) = area(g2) /\ Len(g1) <= Len(g2)

\* One entry after the other goes to the group that it enlarges less, those left
\* over to a group that needs them all.
RECURSIVE Distribute(_, _, _, _, _)
Distribute(t, all, load, g1, g2) ==
    LET rest == SelectSeq([i \in DOMAIN all |-> i],
                          LAMBDA i : ~ Contains(g1, i) /\ ~ Contains(g2, i))
        sel == PickNext(t, all, g1, g2, rest)
    IN IF rest = <<>> THEN <<g1, g2>>
       ELSE IF load - Len(g1) = Len(rest) THEN <<g1 \o rest, g2>>
       ELSE IF load - Len(g2) = Len(rest) THEN <<g1, g2 \o rest>>
       ELSE IF ToFirst(all, g1, g2, sel)
       THEN Distribute(t, all, load, Append(g1, sel), g2)
       ELSE Distribute(t, all, load, g1, Append(g2, sel))

\* The groups start with one seed each.
rtreeSplit(t, n, all) ==
    LET Started(seeds) ==
            Distribute(t, all, minimumLoad(n), <<seeds[1]>>, <<seeds[2]>>)
    IN Started(pickSeeds(t, all))

\* The node of the given level with the entries of the group g.
GroupNode(all, g, level) ==
    FoldLeft(LAMBDA m, i : insertEntry(m, all[i]), NewNode(NewPage, level), g)

\* The two nodes into which n is split to take e.
split(t, n, e) ==
    LET all == Append(n.ch, e)
        groups == IF t.variant = "RV_RSTAR" THEN rstarSplit(all)
                  ELSE rtreeSplit(t, n, all)
    IN [k \in 1..2 |-> GroupNode(all, groups[k], n.level)]

-----------------------------------------------------------------------------
(* Insertion of the entry e in the node n, below the pages path.  The      *)
(* result has the tree, the node in memory and whether the nodes above are *)
(* adjusted.                                                               *)

\* The entry has room.
InsertWithRoom(t, n, e, path) ==
    LET w == writeNode(t, insertEntry(n, e))
        adjusted == ~ containsRegion(n.mbr, e.mbr) /\ path # <<>>
    IN [t |-> IF adjusted
              THEN adjustTree(w.t, readNode(w.t, Last(path)), w.n, Front(path))
              ELSE w.t,
        n |-> w.n, adjusted |-> adjusted]

\* The first overflow of a level below the root.  The table has the levels below
\* the root at the time of the call: if the root has grown since, the level may
\* lie behind it.
InTable(t, level) == level < Len(t.overflowTable)

FirstOverflow(t, level) ==
    IF InTable(t, level) THEN t.overflowTable[level + 1] = 0 ELSE Outside = 0

\* The entries in the order of their distance to the centre of the node.
reinsertData(n, e) ==
    LET all == Append(n.ch, e)
        distance == [i \in DOMAIN all |->
            SumTo([d \in Dims |-> (getCenter(n.mbr)[d] - getCenter(all[i].mbr)[d]) ^ 2],
                  Dimension)]
        order == StableSort([i \in DOMAIN all |-> i], distance)
    IN [i \in DOMAIN all |-> all[order[i]]]

\* The entries closest to the centre leave the node; they are inserted again
\* when the nodes above are adjusted.
ForcedReinsert(t, n, e, path) ==
    LET sorted == reinsertData(n, e)
        cReinsert == ((Capacity(n) + 1) * ReinsertFactor) \div 100
        kept == Tight([n EXCEPT !.ch = SubSeq(sorted, cReinsert + 1, Len(sorted))])
        t1 == IF InTable(t, n.level)
              THEN [t EXCEPT !.overflowTable[n.level + 1] = 1] ELSE t
        t2 == writeNode(t1, kept).t
        t3 == adjustTree(t2, readNode(t2, Last(path)), kept, Front(path))
    IN [t |-> FoldLeft(LAMBDA tt, x : insertAtLevel(tt, x, n.level), t3,
                       SubSeq(sorted, 1, cReinsert)),
        n |-> kept, adjusted |-> TRUE]

\* The root is split into the nodes: its page gets a new root, one level above.
SplitRoot(t, n, nodes) ==
    LET w1 == writeNode(t, nodes[1])
        w2 == writeNode(w1.t, nodes[2])
        Entry(m) == [mbr |-> m.mbr, id |-> m.id]
        root == insertEntry(insertEntry(NewNode(t.root, n.level + 1), Entry(w1.n)),
                            Entry(w2.n))
        t1 == writeNode(w2.t, root).t
    IN [t |-> [t1 EXCEPT !.nodesInLevel = Append([@ EXCEPT ![n.level + 1] = 2], 1),
                         !.height = n.level + 2],
        n |-> n, adjusted |-> TRUE]

SplitBelowRoot(t, n, nodes, path) ==
    LET w1 == writeNode(t, [nodes[1] EXCEPT !.id = n.id])
        w2 == writeNode(w1.t, nodes[2])
    IN [t |-> adjustForSplit(w2.t, readNode(w2.t, Last(path)), w1.n, w2.n,
                             Front(path)),
        n |-> n, adjusted |-> TRUE]

insertData(t, n, e, path) ==
    LET consults == t.variant = "RV_RSTAR" /\ path # <<>>
        u == [t EXCEPT !.outOfBounds = @ \/ (consults /\ ~ InTable(t, n.level))]
    IN IF Len(n.ch) < Capacity(n) THEN InsertWithRoom(t, n, e, path)
       ELSE IF consults /\ FirstOverflow(t, n.level)
       THEN ForcedReinsert(u, n, e, path)
       ELSE IF path = <<>> THEN SplitRoot(u, n, split(u, n, e))
       ELSE SplitBelowRoot(u, n, split(u, n, e), path)

-----------------------------------------------------------------------------
(* Adjustment of the node p to its child n                                 *)

Recompute(p, n) ==
    \/ ~ containsRegion(p.mbr, n.mbr)
    \/ TightMBRs /\ touchesRegion(p.mbr, p.ch[EntryOf(p, n)].mbr)

\* The node p with the MBR of its child n.
WithChild(p, n) ==
    LET q == [p EXCEPT !.ch[EntryOf(p, n)].mbr = n.mbr]
    IN IF Recompute(p, n) THEN Tight(q) ELSE q

adjustTree(t, p, n, path) ==
    LET w == writeNode(t, WithChild(p, n))
    IN IF Recompute(p, n) /\ path # <<>>
       THEN adjustTree(w.t, readNode(w.t, Last(path)), w.n, Front(path))
       ELSE w.t

\* The child n1 was split and n2 is new.
adjustForSplit(t, p, n1, n2, path) ==
    LET r == insertData(t, WithChild(p, n1), [mbr |-> n2.mbr, id |-> n2.id], path)
    IN IF ~ r.adjusted /\ Recompute(p, n1) /\ path # <<>>
       THEN adjustTree(r.t, readNode(r.t, Last(path)), r.n, Front(path))
       ELSE r.t

InsertInto(t, e, chosen) ==
    IF t.failed \/ chosen.failed THEN [t EXCEPT !.failed = TRUE]
    ELSE insertData(t, chosen.n, e, chosen.path).t

\* insertData_impl with a level: the entry e goes to a node of that level.
insertAtLevel(t, e, level) ==
    InsertInto(t, e, chooseSubtree(t, Root(t), e.mbr, level, <<>>))

\* The end of an operation that leaves k data more.
Counted(t, k) == [t EXCEPT !.data = @ + k, !.overflowTable = <<>>]

NoOverflows(levels) == [l \in 1..levels |-> 0]

\* insertData_impl without a level: the datum e goes to a leaf.
insertDatum(t, e) ==
    LET t1 == [t EXCEPT !.overflowTable = NoOverflows(Root(t).level)]
    IN Counted(insertAtLevel(t1, e, 0), 1)

-----------------------------------------------------------------------------
(* Deletion *)

\* The leaf with the datum and the pages above it: the first on the way down.
RECURSIVE findLeaf(_, _, _, _)
findLeaf(t, n, e, path) ==
    IF n.level = 0
    THEN IF Contains(n.ch, e) THEN <<[n |-> n, path |-> path]>> ELSE <<>>
    ELSE LET Below(i) == IF containsRegion(n.ch[i].mbr, e.mbr)
                         THEN findLeaf(t, readNode(t, n.ch[i].id), e,
                                       Append(path, n.id))
                         ELSE <<>>
             found == SelectSeq([i \in DOMAIN n.ch |-> Below(i)],
                                LAMBDA f : f # <<>>)
         IN IF found = <<>> THEN <<>> ELSE Head(found)

\* Mutant of EliminateRoot: the page of the child is not deleted.
EliminateRoot_Leak(t, n) ==
    LET child == readNode(t, n.ch[1].id)
        t2 == writeNode(t, [child EXCEPT !.id = t.root]).t
    IN [t2 EXCEPT !.nodesInLevel = [Front(@) EXCEPT ![t.height - 1] = 2],
                  !.height = @ - 1]

\* A root with one child left gives its page to the child.  The count of the
\* level is one too many until the sibling, still to be deleted, is.
EliminateRoot(t, n) ==
    LET child == readNode(t, n.ch[1].id)
        t1 == deleteNode(t, child)
        t2 == writeNode(t1, [child EXCEPT !.id = t.root]).t
    IN [t2 EXCEPT !.nodesInLevel = [Front(@) EXCEPT ![t.height - 1] = 2],
                  !.height = @ - 1]

\* From the node n up: a node with too few entries leaves its parent, to be
\* reinserted; the first of the result is the last one that has left.
RECURSIVE condenseTree(_, _, _, _)
condenseTree(t, n, path, toReinsert) ==
    IF path = <<>>
    THEN [t |-> IF n.level # 0 /\ Len(n.ch) = 1 THEN EliminateRoot(t, n) ELSE t,
          toReinsert |-> toReinsert]
    ELSE LET parent == readNode(t, Last(path))
             child == EntryOf(parent, n)
             tooFew == Len(n.ch) < minimumLoad(n)
             shrunk == [parent EXCEPT !.ch[child].mbr = n.mbr]
             p == IF tooFew THEN deleteEntry(parent, child)
                  ELSE IF TightMBRs THEN Tight(shrunk) ELSE shrunk
         IN condenseTree(writeNode(t, p).t, p, Front(path),
                         IF tooFew THEN <<n>> \o toReinsert ELSE toReinsert)

\* The node n is deleted and its entries inserted at its level.
ReinsertNode(t, n) ==
    FoldLeft(LAMBDA tt, e :
                insertAtLevel([tt EXCEPT !.overflowTable = NoOverflows(tt.height)],
                              e, n.level),
             deleteNode(t, n), n.ch)

\* Leaf::deleteData removes the first datum with the identifier.
deleteFromLeaf(t, leaf, e, path) ==
    LET n == deleteEntry(leaf, SelectInSeq(leaf.ch, LAMBDA x : x.id = e.id))
        c == condenseTree(writeNode(t, n).t, n, path, <<>>)
    IN FoldLeft(ReinsertNode, c.t, c.toReinsert)

\* deleteData_impl: the tree is left as it is when it has no such datum.
deleteDatum(t, e) ==
    LET found == findLeaf(t, Root(t), e, <<>>)
    IN IF found = <<>> THEN t
       ELSE Counted(deleteFromLeaf(t, found[1].n, e, found[1].path), -1)

-----------------------------------------------------------------------------
(* Creation, closing and opening *)

\* What storeHeader writes.
HeaderOf(t) == [root |-> t.root, variant |-> t.variant, nodes |-> t.nodes,
                data |-> t.data, height |-> t.height,
                nodesInLevel |-> SubSeq(t.nodesInLevel, 1, t.height)]

storeHeader(t) ==
    IF t.header = NewPage
    THEN [t EXCEPT !.storage = storeNewPage(@, HeaderOf(t)),
                   !.header = NewPageOf(t.storage)]
    ELSE [t EXCEPT !.storage = storeByteArray(@, t.header, HeaderOf(t))]

\* initNew: an empty leaf is the root.
createNewRTree(variant) ==
    LET t == [storage |-> NoStorage, root |-> NewPage, header |-> NewPage,
              variant |-> variant, nodes |-> 0, data |-> 0, height |-> 1,
              nodesInLevel |-> <<0>>, overflowTable |-> <<>>,
              outOfBounds |-> FALSE, failed |-> FALSE]
        w == writeNode(t, NewNode(NewPage, 0))
    IN storeHeader([w.t EXCEPT !.root = w.n.id])

\* The tree is destroyed, which stores the header, and loaded again.
loadRTree(t) ==
    LET closed == storeHeader(t)
        h == loadByteArray(closed.storage, closed.header)
    IN [closed EXCEPT !.root = h.root, !.variant = h.variant, !.nodes = h.nodes,
                      !.data = h.data, !.height = h.height,
                      !.nodesInLevel = h.nodesInLevel]

-----------------------------------------------------------------------------
(* isIndexValid *)

\* The nodes of the subtree of page with the regions that their parents keep.
RECURSIVE Subtree(_, _, _)
Subtree(t, page, parentMBR) ==
    LET n == readNode(t, page)
    IN {[n |-> n, parentMBR |-> parentMBR]}
       \cup IF n.level = 0 THEN {}
            ELSE UNION {Subtree(t, n.ch[i].id, n.ch[i].mbr) : i \in DOMAIN n.ch}

isIndexValid(t) ==
    LET entries == Subtree(t, t.root, Root(t).mbr)
        AtLevel(l) == Cardinality({e \in entries : e.n.level = l})
    IN /\ Root(t).level = t.height - 1
       /\ \A e \in entries : e.n.mbr = MBR(e.n.ch) /\ e.parentMBR = e.n.mbr
       /\ \A l \in 0..(t.height - 1) : AtLevel(l) = t.nodesInLevel[l + 1]
       /\ t.nodes = SumTo(t.nodesInLevel, t.height)

=============================================================================
