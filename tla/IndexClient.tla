----------------------------- MODULE IndexClient -----------------------------
(***************************************************************************)
(* What the clients of the three trees have in common: a tree, the data    *)
(* that they insert and the regions of their queries.  The data of a       *)
(* behaviour is drawn by a seed, so that a few behaviours have points and  *)
(* boxes in many positions.                                                *)
(*                                                                         *)
(* The data of two of the trees changes as time goes on: their clients     *)
(* insert Growth data, replace Churn of them, delete them all, and insert  *)
(* Regrowth data again.                                                    *)
(***************************************************************************)
EXTENDS Region, FiniteSets

CONSTANTS
    Side,           \* coordinates are in 0..(Side - 1)
    Seeds,
    Queries,        \* the regions of the queries
    Growth, Churn, Regrowth

VARIABLES
    seed,
    tree,
    inserted,       \* number of data inserted, or of tuples received
    deleted,        \* number of data deleted
    stored,         \* history: the data that the index should hold
    loaded          \* the index has been closed and opened

Position(s, k) == [d \in Dims |->
                     ((s + 3) * (k + d) * (k + d) + 5 * k * d + s * d) % Side]

\* Every other datum is a box.
Datum(s, k) ==
    LET lo == Position(s, k)
    IN [id |-> k,
        mbr |-> [lo |-> lo, hi |-> [d \in Dims |-> lo[d] + (k % 2) * ((s + d) % 3)]]]

-----------------------------------------------------------------------------
(* Data that changes                                                       *)

\* Time passes after as many operations as the seed says.
Now == (inserted + deleted) \div seed

\* The next datum is inserted for one deleted.
Replacing == inserted >= Growth /\ inserted < Growth + Churn

MayInsert(living) ==
    \/ inserted < Growth
    \/ Replacing /\ Cardinality(living) < Growth
    \/ deleted >= Growth + Churn /\ inserted < Growth + Churn + Regrowth

MayDelete(living) ==
    \/ Replacing /\ Cardinality(living) = Growth
    \/ inserted = Growth + Churn /\ living # {}

MayReopen == ~ loaded /\ inserted = Growth + Churn /\ deleted = Churn

\* One of the data, drawn by the seed.
Drawn(data) ==
    LET rank == (deleted * deleted + 3 * deleted + seed) % Cardinality(data)
    IN CHOOSE e \in data : Cardinality({f \in data : f.id < e.id}) = rank

ChurnInit ==
    /\ seed \in Seeds
    /\ inserted = 0 /\ deleted = 0 /\ stored = {} /\ loaded = FALSE

=============================================================================
