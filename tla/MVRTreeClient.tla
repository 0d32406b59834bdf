---------------------------- MODULE MVRTreeClient ----------------------------
(***************************************************************************)
(* The multi-version R-tree with the programs of test/mvrtree: they insert *)
(* and delete data as time goes on, close the index and open it, and query *)
(* the past.  stored keeps the data deleted, with their end.               *)
(***************************************************************************)
EXTENDS MVRTree, IndexClient

CONSTANT Variants

vars == <<seed, tree, inserted, deleted, stored, loaded>>

Living == {e \in stored : Alive(e)}

Init ==
    /\ \E variant \in Variants : tree = createNewMVRTree(variant)
    /\ ChurnInit

InsertData ==
    LET e == [id |-> inserted + 1, mbr |-> Datum(seed, inserted + 1).mbr,
              start |-> Now, end |-> Infinity]
    IN /\ MayInsert(Living)
       /\ tree' = insertDatum(tree, e)
       /\ inserted' = inserted + 1
       /\ stored' = stored \cup {e}
       /\ UNCHANGED <<seed, deleted, loaded>>

DeleteData ==
    /\ MayDelete(Living)
    /\ tree' = deleteDatum(tree, Drawn(Living), Now)
    /\ deleted' = deleted + 1
    /\ stored' = (stored \ {Drawn(Living)}) \cup {[Drawn(Living) EXCEPT !.end = Now]}
    /\ UNCHANGED <<seed, inserted, loaded>>

CloseAndLoad ==
    /\ MayReopen
    /\ tree' = loadMVRTree(tree)
    /\ loaded' = TRUE
    /\ UNCHANGED <<seed, inserted, deleted, stored>>

Next == InsertData \/ DeleteData \/ CloseAndLoad

Spec == Init /\ [][Next]_vars

-----------------------------------------------------------------------------
(* Properties *)

\* The regions of all nodes are tight, and so are the copies of them that live
\* parents keep (isIndexValid), in every past version too, after any version copy,
\* split, loan between siblings, reinsertion and reopening.
IndexValid == isIndexValid(tree) /\ ~ tree.failed

\* The version of now has the data that lives, each once, and counts it.
ContentExact ==
    LET content == LiveData(tree, Root(tree).ch, Root(tree).level)
    IN /\ {<<e.id, e.mbr>> : e \in ToSet(content)} = {<<e.id, e.mbr>> : e \in Living}
       /\ Len(content) = Cardinality(Living)
       /\ tree.data = Len(content)

\* The counts of nodes, in all and by levels, agree with the pages in use, and every
\* node of a version is among them.  The tree never deletes a node, and the nodes
\* below a root that was replaced in the instant of its creation are lost.
PagesInUse ==
    LET pages == DOMAIN tree.storage.buffer
    IN /\ {x.n.id : x \in Nodes(tree)} \cup {tree.header} \subseteq pages
       /\ Cardinality(pages) = tree.nodes + 1
       /\ SumTo(tree.nodesInLevel, Len(tree.nodesInLevel)) = tree.nodes

\* A query of the past or of now reports the data that it meets in space and in
\* time, by what was inserted and deleted when (test/mvrtree/Exhaustive.cc), although
\* that data has moved from node to node since.  A datum deleted in the instant of
\* its insertion may be reported or not: it is erased, but a version copied in that
\* instant keeps it.
QueriesExact ==
    \A query \in Queries : \A type \in {"IntersectionQuery", "ContainmentQuery"} :
    \A from \in {(i * Now) \div 5 : i \in 0..5} : \A to \in {from + 2, Now + 1} :
       LET q == [lo |-> query.lo, hi |-> query.hi, start |-> from, end |-> to]
           met == {e \in stored : /\ intersectsInterval(e, q)
                                  /\ IF type = "ContainmentQuery"
                                     THEN containsRegion(q, e.mbr)
                                     ELSE intersectsRegion(q, e.mbr)}
           reported == rangeQuery(tree, type, q)
       IN /\ reported \subseteq {e.id : e \in met}
          /\ {e.id : e \in {e \in met : e.start < e.end}} \subseteq reported

=============================================================================
