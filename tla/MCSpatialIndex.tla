--------------------------- MODULE MCSpatialIndex ---------------------------
(***************************************************************************)
(* The clients of the three trees, for TLC: the first state says which     *)
(* tree there is, and what uses it.                                        *)
(***************************************************************************)
EXTENDS RTreeClient

CONSTANTS
    VersionSeeds, VersionCapacity, StrongVersionOverflow, VersionUnderflow,
    MovingSeeds, Tick, Horizon

\* Boundaries on the move, whose speeds differ by at most 4, meet at whole times.
ASSUME TickAssumption == \A v \in 1..4 : Tick % v = 0

MV == INSTANCE MVRTreeClient WITH Seeds <- VersionSeeds,
                                  IndexCapacity <- VersionCapacity,
                                  LeafCapacity <- VersionCapacity

TP == INSTANCE TPRTreeClient WITH Seeds <- MovingSeeds

MCQueries == {[lo |-> <<2, 3>>, hi |-> <<6, 7>>], [lo |-> <<0, 5>>, hi |-> <<9, 6>>]}

MCInit ==
    \/ Init
    \/ client = "versions" /\ panes = <<>> /\ MV!Init
    \/ client = "moving" /\ panes = <<>> /\ TP!Init

MCNext ==
    \/ client \in {"index", "checker"} /\ Next
    \/ client = "versions" /\ MV!Next /\ UNCHANGED <<client, panes>>
    \/ client = "moving" /\ TP!Next /\ UNCHANGED <<client, panes>>

MCSpec == MCInit /\ [][MCNext]_vars

Of(rtree, versions, moving) ==
    CASE client = "versions" -> versions
      [] client = "moving" -> moving
      [] OTHER -> rtree

\* The regions of all nodes, of every version, are tight after any update of the tree,
\* and the counts of the R-tree and the TPR-tree exact: isIndexValid of each client's
\* module, which counts nothing in the multi-version R-tree.
IndexIsValid == Of(IndexValid, MV!IndexValid, TP!IndexValid)

\* The tree holds the data that it should hold, each once: ContentExact of each.
ContentIsExact == Of(ContentExact, MV!ContentExact, TP!ContentExact)

\* No page is leaked or given out twice: PagesInUse of each.
PagesAreInUse == Of(PagesInUse, MV!PagesInUse, TP!PagesInUse)

\* Queries, of the past and of the future too, report what an examination of all the
\* data would: QueriesExact of each.
QueriesAreExact == Of(QueriesExact, MV!QueriesExact, TP!QueriesExact)

=============================================================================
