----------------------------- MODULE BulkLoader -----------------------------
(***************************************************************************)
(* Bulk loading of an R-tree (src/rtree/BulkLoader.cc): the data is sorted *)
(* by an external merge sort and cut into the nodes of a level, whose      *)
(* regions are the data of the next one.  A record has the mbr and id of   *)
(* an entry; it is compared by its centre in the dimension of the sort.    *)
(***************************************************************************)
EXTENDS RTree

CONSTANTS
    PageSize,       \* records of a page of the sorter
    NumberOfPages   \* pages that the sorter keeps in memory

bleaf  == (LeafCapacity * FillFactor) \div 100
bindex == (IndexCapacity * FillFactor) \div 100

\* With one entry per index a level is as long as the one below, and the loop
\* over the levels does not end; with none the division is by zero.
ASSUME BulkLoaderAssumption ==
    /\ PageSize \in Nat \ {0, 1} /\ NumberOfPages \in Nat \ {0, 1}
    /\ bleaf >= 1 /\ bindex >= 2

-----------------------------------------------------------------------------
(* ExternalSorter *)

\* Twice the centre of a record in the dimension s.
Key(r, s) == r.mbr.hi[s] + r.mbr.lo[s]

SortedBy(records, s) == SortSeq(records, LAMBDA a, b : Key(a, s) < Key(b, s))

\* insert and the first part of sort: the sorted runs, each as long as the
\* memory but for the last one.
RECURSIVE Runs(_, _)
Runs(records, s) ==
    LET size == PageSize * NumberOfPages
    IN IF records = <<>> THEN <<>>
       ELSE IF Len(records) <= size THEN <<SortedBy(records, s)>>
       ELSE <<SortedBy(SubSeq(records, 1, size), s)>>
            \o Runs(SubSeq(records, size + 1, Len(records)), s)

\* The runs are merged by a priority queue that has one record of each.  Its
\* comparison is that of an ascending sort, so that the greatest one is on top.
RECURSIVE merge(_, _)
merge(runs, s) ==
    LET open == {i \in DOMAIN runs : runs[i] # <<>>}
        top == CHOOSE i \in open : \A j \in open :
                  Key(Head(runs[i]), s) >= Key(Head(runs[j]), s)
    IN IF open = {} THEN <<>>
       ELSE <<Head(runs[top])>> \o merge([runs EXCEPT ![top] = Tail(@)], s)

\* As many runs as there are pages are merged at a time.
RECURSIVE mergeAll(_, _)
mergeAll(runs, s) ==
    LET u32Count == smaller(Len(runs), NumberOfPages)
        tf == merge(SubSeq(runs, 1, u32Count), s)
    IN IF Len(runs) = 1 THEN Head(runs)
       ELSE IF Len(runs) = u32Count THEN tf
       ELSE mergeAll(Append(SubSeq(runs, u32Count + 1, Len(runs)), tf), s)

sort(records, s) ==
    IF records = <<>> THEN <<>> ELSE mergeAll(Runs(records, s), s)

-----------------------------------------------------------------------------
(* BulkLoader *)

Ceiling(a, b) == (a + b - 1) \div b
CeilingRoot(a) == CHOOSE s \in 0..a : s * s >= a /\ \A r \in 0..(s - 1) : r * r < a

\* A node of the records; its page is the root until a later one is written.
createNode(c, records, level) ==
    LET n == FoldLeft(LAMBDA m, r : insertEntry(m, r), NewNode(NewPage, level),
                      records)
        w == writeNode(c.t, n)
    IN [t |-> [w.t EXCEPT !.root = w.n.id],
        es2 |-> Append(c.es2, [mbr |-> n.mbr, id |-> w.n.id])]

RECURSIVE createNodes(_, _, _, _)
createNodes(c, es, b, level) ==
    IF es = <<>> THEN c
    ELSE LET k == smaller(b, Len(es))
         IN createNodes(createNode(c, SubSeq(es, 1, k), level),
                        SubSeq(es, k + 1, Len(es)), b, level)

\* The sorted records es become nodes, or slices sorted in the next dimension.
\* c has the tree and the records of the next level.
RECURSIVE createLevel(_, _, _, _), createSlices(_, _, _, _, _)
createLevel(c, es, dimension, level) ==
    LET b == IF level = 0 THEN bleaf ELSE bindex
        S == CeilingRoot(Ceiling(Len(es), b))
    IN IF S = 1 \/ dimension = Dimension \/ S * b = Len(es)
       THEN createNodes(c, es, b, level)
       ELSE createSlices(c, es, S * b, dimension, level)

createSlices(c, es, size, dimension, level) ==
    LET k == smaller(size, Len(es))
        slice == sort(SubSeq(es, 1, k), dimension + 1)
        c1 == createLevel(c, slice, dimension + 1, level)
    IN IF k < size THEN c1
       ELSE createSlices(c1, SubSeq(es, k + 1, Len(es)), size, dimension, level)

\* Level after level, until one has a single node.
RECURSIVE createLevels(_, _, _)
createLevels(t, es, level) ==
    LET c == createLevel([t |-> [t EXCEPT !.nodesInLevel = Append(@, 0)],
                          es2 |-> <<>>], es, 1, level)
    IN IF Len(c.es2) = 1 THEN [c.t EXCEPT !.height = level + 1]
       ELSE createLevels(c.t, sort(c.es2, 1), level + 1)

\* The root of the new tree t is deleted first.
bulkLoadUsingSTR(t, stream) ==
    LET t1 == [deleteNode(t, Root(t)) EXCEPT !.data = Len(stream)]
    IN storeHeader(createLevels(t1, sort(stream, 1), 0))

createAndBulkLoadNewRTree(variant, stream) ==
    bulkLoadUsingSTR(createNewRTree(variant), stream)

=============================================================================
