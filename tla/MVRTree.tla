------------------------------- MODULE MVRTree -------------------------------
(***************************************************************************)
(* The multi-version R-tree of the vendored spatial index (src/mvrtree):   *)
(* an R-tree whose past versions can still be queried.  Data is inserted   *)
(* and deleted at the current time; an entry has a time interval, open to  *)
(* the right, that ends at Infinity while it is alive.  A node that        *)
(* overflows is not split in place: its live entries are copied to a new   *)
(* node (version copy), the copy is split if it has too many, and the old  *)
(* node stays behind for the queries of the past.                          *)
(*                                                                         *)
(* Nodes and trees are records, as in RTree, and the splits and the choice *)
(* of a subtree are those of RTree, of which the code is a copy.  A tree   *)
(* has a list of roots, one for each stretch of time.  bForceAdjust of     *)
(* insertData is left out, as no caller sets it.                           *)
(***************************************************************************)
EXTENDS Region, MemoryStorageManager

CONSTANTS
    IndexCapacity, LeafCapacity, FillFactor, SplitDistributionFactor,
    ReinsertFactor, NearMinimumOverlapFactor, TightMBRs, Outside,
    StrongVersionOverflow,      \* percentages of the capacity
    VersionUnderflow

RT == INSTANCE RTree

RECURSIVE insertData(_, _, _, _), adjustTree(_, _, _, _)

-----------------------------------------------------------------------------
(* Nodes *)

Alive(e) == e.end = Infinity

NewNode(id, level) ==
    [id |-> id, level |-> level, mbr |-> makeInfinite,
     start |-> Infinity, end |-> -Infinity, ch |-> <<>>]

\* The entry of the node n in an index.
Entry(n) == [mbr |-> n.mbr, id |-> n.id, start |-> n.start, end |-> n.end]

insertEntry(n, e) ==
    [n EXCEPT !.ch = Append(@, e), !.mbr = getCombinedRegion(@, e.mbr),
              !.start = smaller(@, e.start), !.end = larger(@, e.end)]

\* An empty node forgets its times, too.
deleteEntry(n, i) ==
    LET m == RT!deleteEntry(n, i)
    IN IF m.ch = <<>> THEN [m EXCEPT !.start = Infinity, !.end = -Infinity]
       ELSE m

\* Whether deleteEntry has computed the region anew.
Adjusted(n, i) ==
    Len(n.ch) = 1 \/ (TightMBRs /\ touchesRegion(n.mbr, n.ch[i].mbr))

Stored(n) == [level |-> n.level, mbr |-> n.mbr, start |-> n.start,
              end |-> n.end, ch |-> n.ch]

writeNode(t, n) ==
    IF n.id = RT!NewPage
    THEN [t |-> [t EXCEPT !.storage = storeNewPage(@, Stored(n)),
                          !.nodes = @ + 1],
          n |-> [n EXCEPT !.id = NewPageOf(t.storage)]]
    ELSE [t |-> [t EXCEPT !.storage = storeByteArray(@, n.id, Stored(n))],
          n |-> n]

readNode(t, page) ==
    LET stored == loadByteArray(t.storage, page)
    IN [id |-> page, level |-> stored.level, mbr |-> stored.mbr,
        start |-> stored.start, end |-> stored.end, ch |-> stored.ch]

Root(t) == readNode(t, Last(t.roots).id)

\* k nodes more in the level, which may be a new one.
CountNodes(t, level, k) ==
    [t EXCEPT !.nodesInLevel = IF level < Len(@) THEN [@ EXCEPT ![level + 1] = @ + k]
                               ELSE Append(@, k)]

\* The node n of the past is counted as dead.
CountDead(t, n) ==
    IF n.level > 0 THEN [t EXCEPT !.deadIndexNodes = @ + 1]
    ELSE [t EXCEPT !.deadLeafNodes = @ + 1]

-----------------------------------------------------------------------------
(* Adjustment of the index p to its children ns, of which the first is the *)
(* one inserted in or deleted from.  Times are left alone.                 *)

\* Mutant of AdjustedIndex: only the first child is looked at.
AdjustedIndex_First(p, ns) ==
    LET q == [p EXCEPT !.ch[RT!EntryOf(p, ns[1])].mbr = ns[1].mbr]
        recompute == \/ ~ containsRegion(p.mbr, ns[1].mbr)
                     \/ touchesRegion(p.mbr, p.ch[RT!EntryOf(p, ns[1])].mbr)
    IN [p |-> IF recompute THEN RT!Tight(q) ELSE q, recompute |-> recompute]

AdjustedIndex(p, ns) ==
    LET Grown(q, n) == [q EXCEPT !.ch[RT!EntryOf(p, n)].mbr = n.mbr]
        recompute == \/ ~ containsRegion(p.mbr, ns[1].mbr)
                     \/ /\ TightMBRs
                        /\ \E n \in ToSet(ns) :
                              touchesRegion(p.mbr, p.ch[RT!EntryOf(p, n)].mbr)
        q == FoldLeft(Grown, p, ns)
    IN [p |-> IF recompute THEN RT!Tight(q) ELSE q, recompute |-> recompute]

adjustTree(t, p, ns, path) ==
    LET a == AdjustedIndex(p, ns)
        w == writeNode(t, a.p)
    IN IF a.recompute /\ path # <<>>
       THEN adjustTree(w.t, readNode(w.t, Last(path)), <<w.n>>, Front(path))
       ELSE w.t

-----------------------------------------------------------------------------
(* Choice of the subtree: only the entries alive at the time of e          *)

LiveAt(n, time) == [ch |-> SelectSeq(n.ch, LAMBDA c : c.end > time)]

findLeastEnlargement(n, e) ==
    LET live == LiveAt(n, e.start)
    IN live.ch[RT!findLeastEnlargement(live, e.mbr)]

findLeastOverlap(n, e) ==
    LET live == LiveAt(n, e.start)
    IN live.ch[RT!findLeastOverlap(live, e.mbr)]

RECURSIVE chooseSubtree(_, _, _, _, _)
chooseSubtree(t, n, e, level, path) ==
    LET child == IF t.variant = "RV_RSTAR" /\ n.level = 1
                 THEN findLeastOverlap(n, e) ELSE findLeastEnlargement(n, e)
    IN IF n.level = 0 \/ n.level = level
       THEN [n |-> n, path |-> path, failed |-> FALSE]
       ELSE IF LiveAt(n, e.start).ch = <<>>
       THEN [n |-> n, path |-> path, failed |-> TRUE]
       ELSE chooseSubtree(t, readNode(t, child.id), e, level, Append(path, n.id))

-----------------------------------------------------------------------------
(* Insertion of the entries es, one or two, in the node n below the pages  *)
(* path.  The result has the tree, the node in memory and whether the node *)
(* was stored.                                                             *)

\* The live entries of n, moved to the time of the new entry.
VersionCopy(n, time) ==
    LET live == SelectSeq(n.ch, Alive)
    IN [NewNode(RT!NewPage, n.level) EXCEPT
           !.ch = [i \in DOMAIN live |-> [live[i] EXCEPT !.start = time]],
           !.mbr = RT!MBR(live), !.start = time,
           !.end = IF live = <<>> THEN -Infinity ELSE Infinity]

pickSeeds(t, all) == RT!pickSeeds(t, all)

rtreeSplit(t, n, all) == RT!rtreeSplit(t, n, all)

rstarSplit(all) == RT!rstarSplit(all)

\* The two nodes of the entries of the copy and of es.
split(t, copy, es) ==
    LET all == copy.ch \o es
        groups == IF t.variant = "RV_RSTAR" THEN rstarSplit(all)
                  ELSE rtreeSplit(t, copy, all)
        Node(g) == FoldLeft(LAMBDA m, i : insertEntry(m, all[i]),
                            NewNode(RT!NewPage, copy.level), g)
    IN [k \in 1..2 |-> Node(groups[k])]

\* The root n, which has just ended, is followed by root.
NextRoot(t, n, root) ==
    LET t1 == writeNode(t, n).t
        w == writeNode(t1, root)
        last == [id |-> n.id, start |-> n.start, end |-> n.end]
        next == [id |-> w.n.id, start |-> root.start, end |-> root.end]
    IN CountDead([w.t EXCEPT !.roots = Front(@) \o <<last, next>>,
                             !.treeHeight = Append(@, root.level + 1)], n)

\* A root that starts and ends now gives its page to root.
ReplacedRoot(t, n, root) ==
    LET t1 == writeNode(t, [root EXCEPT !.id = n.id]).t
    IN [t1 EXCEPT !.treeHeight = Append(Front(@), root.level + 1)]

InsertWithRoom(t, n, e, path) ==
    LET w == writeNode(t, insertEntry(n, e))
    IN [t |-> IF ~ containsRegion(n.mbr, e.mbr) /\ path # <<>>
              THEN adjustTree(w.t, readNode(w.t, Last(path)), <<w.n>>, Front(path))
              ELSE w.t,
        n |-> w.n, stored |-> TRUE]

\* The index p below the pages path gets the versions news of its child n: the
\* entry of n keeps its start and ends.
InsertVersions(t, p, n, news, path) ==
    LET q == [p EXCEPT !.ch[RT!EntryOf(p, n)] =
                 [Entry(n) EXCEPT !.start = p.ch[RT!EntryOf(p, n)].start]]
        two == insertEntry(insertEntry(q, news[1]), news[2])
        w == writeNode(t, two)
        contained == \A e \in ToSet(news) : containsRegion(p.mbr, e.mbr)
        r == insertData(t, q, news, path)
    IN IF Len(news) = 1 THEN r.t
       ELSE IF Len(p.ch) < RT!Capacity(p) - 1
       THEN IF path # <<>> /\ ~ contained
            THEN adjustTree(w.t, readNode(w.t, Last(path)), <<w.n>>, Front(path))
            ELSE w.t
       ELSE IF r.stored THEN r.t ELSE writeNode(r.t, r.n).t

\* Strong version overflow: the copy is split.
SplitVersion(t, n, nodes, path) ==
    LET w1 == writeNode(t, nodes[1])
        w2 == writeNode(w1.t, nodes[2])
        news == <<Entry(w1.n), Entry(w2.n)>>
        root == insertEntry(insertEntry(NewNode(RT!NewPage, n.level + 1), news[1]),
                            news[2])
        parent == readNode(w2.t, Last(path))
    IN IF path # <<>>
       THEN [t |-> InsertVersions(CountDead(CountNodes(w2.t, n.level, 2), n),
                                  parent, n, news, Front(path)),
             n |-> n, stored |-> FALSE]
       ELSE [t |-> CountNodes(
                     IF n.start = n.end
                     THEN CountNodes(ReplacedRoot(w2.t, n, root), n.level, 1)
                     ELSE CountNodes(NextRoot(w2.t, n, root), n.level, 2),
                     n.level + 1, 1),
             n |-> n, stored |-> TRUE]

\* The copy has room for the new entries.
CopyVersion(t, n, copy, es, path) ==
    LET c == FoldLeft(insertEntry, copy, es)
        w == writeNode(t, c)
        parent == readNode(w.t, Last(path))
    IN IF path # <<>>
       THEN [t |-> InsertVersions(CountDead(CountNodes(w.t, n.level, 1), n),
                                  parent, n, <<Entry(w.n)>>, Front(path)),
             n |-> n, stored |-> FALSE]
       ELSE [t |-> IF n.start = n.end THEN ReplacedRoot(t, n, c)
                   ELSE CountNodes(NextRoot(t, n, c), n.level, 1),
             n |-> n, stored |-> TRUE]

insertData(t, n, es, path) ==
    LET time == es[1].start
        copy == VersionCopy(n, time)
        ended == [n EXCEPT !.end = time]
    IN IF Len(es) = 1 /\ Len(n.ch) < RT!Capacity(n)
       THEN InsertWithRoom(t, n, es[1], path)
       ELSE IF (Len(copy.ch) + Len(es)) * 100 >= StrongVersionOverflow * RT!Capacity(n)
       THEN SplitVersion(t, ended, split(t, copy, es), path)
       ELSE CopyVersion(t, ended, copy, es, path)

InsertInto(t, e, chosen) ==
    IF t.failed \/ chosen.failed THEN [t EXCEPT !.failed = TRUE]
    ELSE insertData(t, chosen.n, <<e>>, chosen.path).t

\* insertData_impl with a level.
insertAtLevel(t, e, level) ==
    InsertInto(t, e, chooseSubtree(t, Root(t), e, level, <<>>))

\* The end of an operation that leaves k living data more.
Counted(t, k) == [t EXCEPT !.data = @ + k, !.totalData = @ + larger(k, 0)]

\* insertData_impl without a level.
insertDatum(t, e) ==
    Counted(insertAtLevel([t EXCEPT !.currentTime = e.start], e, 0), 1)

-----------------------------------------------------------------------------
(* Deletion *)

\* The leaf with the datum e and the pages above it.  Only live indexes are
\* followed, but a dead entry of the leaf is accepted too.
RECURSIVE findLeaf(_, _, _, _)
findLeaf(t, n, e, path) ==
    IF n.level = 0
    THEN IF \E c \in ToSet(n.ch) : c.id = e.id /\ c.mbr = e.mbr
         THEN <<[n |-> n, path |-> path]>> ELSE <<>>
    ELSE LET Below(c) == IF Alive(c) /\ containsRegion(c.mbr, e.mbr)
                         THEN findLeaf(t, readNode(t, c.id), e, Append(path, n.id))
                         ELSE <<>>
             found == SelectSeq([i \in DOMAIN n.ch |-> Below(n.ch[i])],
                                LAMBDA f : f # <<>>)
         IN IF found = <<>> THEN <<>> ELSE Head(found)

\* The number of entries of n that cover the stretch of time.
Covering(n, from, to) ==
    Cardinality({i \in DOMAIN n.ch : n.ch[i].start <= from /\ n.ch[i].end >= to})

\* The stretches between the times at which entries of n start or end.
Stretches(n) ==
    LET times == {e.start : e \in ToSet(n.ch)} \cup {e.end : e \in ToSet(n.ch)}
    IN {<<a, b>> \in times \X times :
           a < b /\ \A c \in times : c <= a \/ c >= b}

\* The positions of the entries that the leaf n may borrow from its sibling: n has
\* been in its parent since start, the sibling since siblingStart.
Borrowable(n, start, sibling, siblingStart) ==
    LET live == {i \in DOMAIN sibling.ch : Alive(sibling.ch[i])}
        toCheck == {i \in live :
            /\ sibling.ch[i].start >= start
            /\ 10 * getArea(getCombinedRegion(n.mbr, sibling.ch[i].mbr))
                 <= 11 * getArea(n.mbr)}
        limit == VersionUnderflow * LeafCapacity
        Removable(e) == \A s \in Stretches(sibling) :
            e.start <= s[1] /\ e.end >= s[2]
                => Covering(sibling, s[1], s[2]) * 100 > limit
    IN IF \/ \E e \in ToSet(sibling.ch) : e.start < siblingStart
          \/ Cardinality(live) * 100 = limit + 100
       THEN {} ELSE {i \in toCheck : Removable(sibling.ch[i])}

\* The siblings of n in p that have something to lend.
Lenders(t, n, p) ==
    LET start == p.ch[RT!EntryOf(p, n)].start
    IN {j \in DOMAIN p.ch :
           /\ p.ch[j].id # n.id /\ Alive(p.ch[j])
           /\ intersectsRegion(p.ch[j].mbr, n.mbr)
           /\ Borrowable(n, start, readNode(t, p.ch[j].id), p.ch[j].start) # {}}

\* The leaf n takes the entry that enlarges it least from the first lender.
Borrow(t, n, p, path, adjustParent) ==
    LET j == Min(Lenders(t, n, p))
        sibling == readNode(t, p.ch[j].id)
        entries == Borrowable(n, p.ch[RT!EntryOf(p, n)].start, sibling, p.ch[j].start)
        i == RT!FirstLeast(entries, [k \in entries |->
                <<getArea(getCombinedRegion(n.mbr, sibling.ch[k].mbr)), 0>>])
        w1 == writeNode(t, insertEntry(n, sibling.ch[i]))
        w2 == writeNode(w1.t, deleteEntry(sibling, i))
        both == ~ containsRegion(n.mbr, sibling.ch[i].mbr) \/ adjustParent
    IN adjustTree(w2.t, p, IF both THEN <<w1.n, w2.n>> ELSE <<w2.n>>, path)

\* All entries of the root n are dead: the next root is an empty leaf.
NewEmptyRoot(t, n, time) ==
    LET ended == [n EXCEPT !.end = time]
        root == [NewNode(RT!NewPage, 0) EXCEPT !.start = time, !.end = Infinity]
        t1 == ReplacedRoot(t, ended, root)
    IN IF n.start # time THEN CountNodes(NextRoot(t, ended, root), 0, 1)
       ELSE CountNodes(IF t1.nodesInLevel[n.level + 1] = 1
                       THEN [t1 EXCEPT !.nodesInLevel = Front(@)]
                       ELSE CountNodes(t1, n.level, -1), 0, 1)

\* The live data below the entries es, in the order in which the stack Sins
\* gives the leaves.
RECURSIVE LiveData(_, _, _)
LiveData(t, es, level) ==
    LET live == SelectSeq(es, Alive)
    IN IF level = 0 THEN live
       ELSE FoldLeft(LAMBDA out, e :
                        LiveData(t, readNode(t, e.id).ch, level - 1) \o out,
                     <<>>, live)

\* What is inserted again when n dies: its live entries, each from now on; if the
\* root died with it, the data below them, entry by entry.
Reinsert(t, n, time, newRoot) ==
    LET live == SelectSeq(n.ch, Alive)
        whole == ~ newRoot \/ n.level = 0
        es == IF whole THEN live
              ELSE FlattenSeq([i \in DOMAIN live |->
                                 LiveData(t, readNode(t, live[i].id).ch, n.level - 1)])
    IN FoldLeft(LAMBDA tt, e : insertAtLevel(tt, [e EXCEPT !.start = time],
                                             IF whole THEN n.level ELSE 0),
                t, es)

\* The entry of n with the identifier dies.  The result has the tree and whether
\* there is a new root.
RECURSIVE deleteData(_, _, _, _, _, _)
deleteData(t, n, id, time, path, force) ==
    LET child == SelectLastInSeq(n.ch, LAMBDA e : e.id = id)
        erased == n.level = 0 /\ n.ch[child].start = time
        adjustParent == force \/ (erased /\ Adjusted(n, child))
        n1 == IF erased THEN deleteEntry(n, child)
              ELSE [n EXCEPT !.ch[child].end = time]
        n2 == IF force THEN RT!Tight(n1) ELSE n1
        alive == Len(SelectSeq(n.ch, Alive)) - 1
        underflow == alive * 100 < VersionUnderflow * RT!Capacity(n)
        \* Below the root, when the weak version condition is broken.
        parent == readNode(t, Last(path))
        room == n.level = 0 /\ Len(n2.ch) < LeafCapacity
        dead == [n2 EXCEPT !.end = time]
        t1 == CountDead(writeNode(t, dead).t, n)
        \* A node that has not looked for itself in its parent yet looks first
        \* at the position that its own child had, even behind the end.
        outside == adjustParent /\ ~ room /\ child > Len(parent.ch)
        p == IF adjustParent
             THEN [parent EXCEPT !.ch[RT!EntryOf(parent, n)].mbr = n2.mbr]
             ELSE parent
        up == deleteData(t1, p, n.id, time, Front(path), adjustParent)
        \* Otherwise.
        w == writeNode(t, n2).t
    IN IF path # <<>> /\ underflow
       THEN IF room /\ Lenders(t, n2, parent) # {}
            THEN [t |-> Borrow(t, n2, parent, Front(path), adjustParent),
                  newRoot |-> FALSE]
            ELSE IF outside THEN [t |-> [t EXCEPT !.failed = TRUE], newRoot |-> FALSE]
            ELSE [t |-> Reinsert(up.t, dead, time, up.newRoot), newRoot |-> FALSE]
       ELSE IF path = <<>> /\ alive = 0 /\ n2.ch # <<>>
       THEN [t |-> NewEmptyRoot(t, n2, time), newRoot |-> TRUE]
       ELSE [t |-> IF adjustParent /\ path # <<>>
                   THEN adjustTree(w, readNode(w, Last(path)), <<n2>>, Front(path))
                   ELSE w,
             newRoot |-> FALSE]

\* deleteData_impl: the datum e dies at time.
deleteDatum(t, e, time) ==
    LET t1 == [t EXCEPT !.currentTime = time]
        found == findLeaf(t1, Root(t1), e, <<>>)
    IN IF found = <<>> THEN t1
       ELSE Counted(deleteData(t1, found[1].n, e.id, time, found[1].path, FALSE).t, -1)

-----------------------------------------------------------------------------
(* Queries: the identifiers of the data reported, each once               *)

\* An instant meets no interval that starts or ends there.
intersectsInterval(a, b) == a.start < b.end /\ a.end > b.start

\* The leaves that a query reads, from the given pages down.
RECURSIVE LeavesRead(_, _, _)
LeavesRead(t, pages, query) ==
    LET nodes == {readNode(t, page) : page \in pages}
        Next(n) == {e.id : e \in {e \in ToSet(n.ch) :
                       intersectsInterval(e, query) /\ intersectsRegion(query, e.mbr)}}
    IN {n \in nodes : n.level = 0}
       \cup IF pages = {} THEN {}
            ELSE LeavesRead(t, UNION {Next(n) : n \in {m \in nodes : m.level > 0}},
                            query)

\* Mutant of findRootIdentifiers: only the root of the start of the query.
findRootIdentifiers_First(t, query) ==
    {r.id : r \in {r \in ToSet(t.roots) : r.start <= query.start /\ query.start < r.end}}

findRootIdentifiers(t, query) ==
    {r.id : r \in {r \in ToSet(t.roots) : intersectsInterval(query, r)}}

rangeQuery(t, type, query) ==
    LET roots == {page \in findRootIdentifiers(t, query) :
                     /\ readNode(t, page).ch # <<>>
                     /\ intersectsRegion(query, readNode(t, page).mbr)}
        Reported(e) == /\ intersectsInterval(e, query)
                       /\ IF type = "ContainmentQuery"
                          THEN containsRegion(query, e.mbr)
                          ELSE intersectsRegion(query, e.mbr)
    IN {e.id : e \in {e \in UNION {ToSet(n.ch) : n \in LeavesRead(t, roots, query)} :
                         Reported(e)}}

-----------------------------------------------------------------------------
(* Creation, closing and opening, isIndexValid                             *)

HeaderOf(t) ==
    [roots |-> t.roots, variant |-> t.variant, nodes |-> t.nodes,
     data |-> t.data, totalData |-> t.totalData,
     deadIndexNodes |-> t.deadIndexNodes, deadLeafNodes |-> t.deadLeafNodes,
     treeHeight |-> t.treeHeight, nodesInLevel |-> t.nodesInLevel,
     currentTime |-> t.currentTime]

storeHeader(t) ==
    IF t.header = RT!NewPage
    THEN [t EXCEPT !.storage = storeNewPage(@, HeaderOf(t)),
                   !.header = NewPageOf(t.storage)]
    ELSE [t EXCEPT !.storage = storeByteArray(@, t.header, HeaderOf(t))]

\* initNew: the root of all times is an empty leaf.
createNewMVRTree(variant) ==
    LET t == [storage |-> NoStorage, header |-> RT!NewPage, roots |-> <<>>,
              variant |-> variant, nodes |-> 0, data |-> 0, totalData |-> 0,
              deadIndexNodes |-> 0, deadLeafNodes |-> 0, treeHeight |-> <<1>>,
              nodesInLevel |-> <<1>>, currentTime |-> 0, failed |-> FALSE]
        w == writeNode(t, [NewNode(RT!NewPage, 0) EXCEPT !.start = 0, !.end = Infinity])
    IN storeHeader([w.t EXCEPT
          !.roots = <<[id |-> w.n.id, start |-> 0, end |-> Infinity]>>])

\* The tree is destroyed, which stores the header, and loaded again.
loadMVRTree(t) ==
    LET closed == storeHeader(t)
        h == loadByteArray(closed.storage, closed.header)
    IN [x \in DOMAIN t |-> IF x \in DOMAIN h THEN h[x] ELSE closed[x]]

\* The nodes from entries down, each with the region that a parent keeps of it.  A
\* child of a dead parent or of a dead entry is dead.
RECURSIVE Subtree(_, _)
Subtree(t, entries) ==
    LET Below(x) == {[n |-> readNode(t, e.id), parentMBR |-> e.mbr,
                      dead |-> ~ Alive(e) \/ x.dead] : e \in ToSet(x.n.ch)}
    IN IF entries = {} THEN {}
       ELSE entries \cup
            Subtree(t, UNION {Below(x) : x \in {y \in entries : y.n.level > 0}})

Nodes(t) ==
    LET Of(n) == [n |-> n, parentMBR |-> n.mbr, dead |-> ~ Alive(n)]
    IN Subtree(t, {Of(readNode(t, r.id)) : r \in ToSet(t.roots)})

isIndexValid(t) ==
    /\ \A i \in DOMAIN t.roots :
          readNode(t, t.roots[i].id).level = t.treeHeight[i] - 1
    /\ \A x \in Nodes(t) :
          /\ x.n.mbr = RT!MBR(x.n.ch)
          /\ ~ x.dead => x.parentMBR = x.n.mbr

=============================================================================
