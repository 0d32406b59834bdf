------------------------------ MODULE PageStore ------------------------------
(***************************************************************************)
(* What a storage manager promises its user (interface IStorageManager,    *)
(* SpatialIndex.h): a page is read as it was stored last, also after the   *)
(* storage has been closed and opened again.  When the process crashes,    *)
(* the pages return to those of the last closing; of these, the ones that  *)
(* were left alone since then are as they were.  Before the first closing, *)
(* and once a closing has begun to rewrite the index, a crash loses all.   *)
(***************************************************************************)
EXTENDS Integers

CONSTANTS Page, Data

VARIABLES
    mode,       \* of the storage: "down", "open" or "closing"
    loadable,   \* whether it could be opened if the process ended now
    store,      \* the data of the pages in use
    touched,    \* the pages stored or deleted since the last closing
    synced,     \* the pages in use at the last closing
    answer      \* what was read by the last step, if it was a load

vars == <<mode, loadable, store, touched, synced, answer>>

Empty == store = <<>> /\ touched = {} /\ synced = {} /\ answer = <<>>

Init == mode = "down" /\ ~ loadable /\ Empty

\* A new storage replaces the old one, if any.
Create == mode = "down" /\ mode' = "open" /\ loadable' = FALSE /\ Empty'

Open ==
    /\ mode = "down" /\ loadable
    /\ mode' = "open" /\ answer' = <<>>
    /\ UNCHANGED <<loadable, store, touched, synced>>

With(p, data) == [q \in DOMAIN store \cup {p} |-> IF q = p THEN data ELSE store[q]]

\* A new page is not in use.
Store(p, data) ==
    /\ mode = "open" /\ mode' = "open"
    /\ touched' = touched \cup {p}
    /\ store' = With(p, data)
    /\ answer' = <<>> /\ UNCHANGED <<loadable, synced>>

StoreNew(p, data) == Store(p, data) /\ p \notin DOMAIN store

StoreAgain(p, data) == Store(p, data) /\ p \in DOMAIN store

Delete(p) ==
    /\ mode = "open" /\ mode' = "open"
    /\ touched' = touched \cup {p}
    /\ p \in DOMAIN store
    /\ store' = [q \in DOMAIN store \ {p} |-> store[q]]
    /\ answer' = <<>> /\ UNCHANGED <<loadable, synced>>

Load(p) ==
    /\ mode = "open" /\ mode' = "open" /\ p \in DOMAIN store
    /\ answer' = store[p]
    /\ UNCHANGED <<loadable, store, touched, synced>>

Close ==
    /\ mode = "open" /\ mode' = "closing" /\ answer' = <<>>
    /\ UNCHANGED <<loadable, store, touched, synced>>

\* The old index is being overwritten.
Tear ==
    /\ mode = "closing" /\ mode' = "closing" /\ loadable' = FALSE /\ synced' = {}
    /\ UNCHANGED <<store, touched, answer>>

\* The new index is complete: these are the pages to be opened.
Sync ==
    /\ mode = "closing" /\ mode' = "closing"
    /\ loadable' = TRUE /\ synced' = DOMAIN store
    /\ UNCHANGED <<store, touched, answer>>

Closed ==
    /\ mode = "closing" /\ mode' = "down"
    /\ loadable /\ synced = DOMAIN store /\ touched' = {}
    /\ UNCHANGED <<loadable, store, synced, answer>>

\* What the touched pages hold after a crash is not said.
Crash ==
    /\ mode # "down" /\ mode' = "down"
    /\ DOMAIN store' = synced
    /\ \A p \in synced \ touched : p \in DOMAIN store /\ store'[p] = store[p]
    /\ touched' = {}
    /\ answer' = <<>> /\ UNCHANGED <<loadable, synced>>

Next ==
    \/ Create \/ Open
    \/ \E p \in Page : Load(p) \/ Delete(p)
    \/ \E p \in Page, data \in Data : StoreNew(p, data) \/ StoreAgain(p, data)
    \/ Close \/ Tear \/ Sync \/ Closed
    \/ Crash

Spec == Init /\ [][Next]_vars

=============================================================================
