------------------------------- MODULE Storage -------------------------------
(***************************************************************************)
(* A buffer over a disk storage manager as the programs of test/rtree use  *)
(* them: a storage is created or loaded from its files, pages are stored,  *)
(* loaded and deleted, and both are destroyed (the buffer first), step by  *)
(* step, or the process ends before they are.                              *)
(***************************************************************************)
EXTENDS Buffer

CONSTANTS
    Data,               \* what is stored: sequences of chunks, none empty
    MaxBlocks,          \* bound on the blocks of the data file
    WriteThroughs       \* the modes of the buffer

Chunk == UNION {Range(data) : data \in Data}

ASSUME StorageAssumption ==
    /\ \A data \in Data : data \in Seq(Chunk) /\ data # <<>>
    /\ MaxBlocks \in Nat
    /\ WriteThroughs \subseteq BOOLEAN

VARIABLES
    phase,              \* of the storage: "down", "open", "closing", or "indexed"
                        \* when its index file has been written
    c,                  \* the buffer and the storage below
    writeThrough,
    index,              \* the index file
    data,               \* the data file, as of the last closing or crash
    answer,             \* what the last step loaded
    touched             \* history: the pages stored or deleted since then

vars == <<phase, c, writeThrough, index, data, answer, touched>>

Page == 0..(MaxBlocks - 1)

Pages == DOMAIN c.d.pageIndex

Init ==
    /\ phase = "down" /\ c = NewBuffer(NewStorage)
    /\ writeThrough \in WriteThroughs
    /\ index = NoIndex /\ data = <<>>
    /\ answer = <<>> /\ touched = {}

\* createNewDiskStorageManager: both files are truncated, and the index file
\* stays empty until the first closing.
Create ==
    /\ phase = "down" /\ phase' = "open"
    /\ c' = NewBuffer(NewStorage)
    /\ index' = NoIndex /\ data' = <<>>
    /\ answer' = <<>> /\ touched' = {} /\ UNCHANGED writeThrough

\* loadDiskStorageManager.  Without an index it throws, and all is as it was.
Open ==
    /\ phase = "down" /\ index.written
    /\ phase' = "open" /\ c' = NewBuffer(LoadedStorage(index, data))
    /\ answer' = <<>> /\ UNCHANGED <<writeThrough, index, data, touched>>

StoreNew(bytes) ==
    /\ phase = "open" /\ Taken(c.d, Len(bytes)).nextPage <= MaxBlocks
    /\ c' \in StoredNew(c, bytes)
    /\ touched' = touched \cup {NewPageOf(c.d)}
    /\ answer' = <<>> /\ UNCHANGED <<phase, writeThrough, index, data>>

StoreAgain(page, bytes) ==
    /\ phase = "open"
    /\ c' \in Stored(c, page, bytes, writeThrough)
    /\ c'.d.nextPage <= MaxBlocks
    /\ touched' = touched \cup {page}
    /\ answer' = <<>> /\ UNCHANGED <<phase, writeThrough, index, data>>

Load(page) ==
    /\ phase = "open"
    /\ answer' = Cached(c, page)
    /\ c' \in Loaded(c, page)
    /\ UNCHANGED <<phase, writeThrough, index, data, touched>>

Delete(page) ==
    /\ phase = "open"
    /\ c' = Deleted(c, page)
    /\ touched' = touched \cup {page}
    /\ answer' = <<>> /\ UNCHANGED <<phase, writeThrough, index, data>>

\* The destructors are called, of the buffer first.
Close ==
    /\ phase = "open" /\ phase' = "closing"
    /\ answer' = <<>> /\ UNCHANGED <<c, writeThrough, index, data, touched>>

\* The buffer writes its dirty entries in the order of their pages.
WriteEntry ==
    /\ phase = "closing" /\ DOMAIN c.entries # {}
    /\ c' = removeEntry(c, Min(DOMAIN c.entries))
    /\ c'.d.nextPage <= MaxBlocks
    /\ UNCHANGED <<phase, writeThrough, index, data, answer, touched>>

\* flush of the storage rewrites the index file in place ...
RewriteIndex ==
    /\ phase = "closing" /\ DOMAIN c.entries = {}
    /\ index # NoIndex /\ index' = NoIndex
    /\ UNCHANGED <<phase, c, writeThrough, data, answer, touched>>

\* ... which is complete once its stream is flushed.
FlushIndex ==
    /\ phase = "closing" /\ DOMAIN c.entries = {}
    /\ phase' = "indexed" /\ index' = IndexOf(c.d)
    /\ UNCHANGED <<c, writeThrough, data, answer, touched>>

\* Then the stream of the data file is flushed, and both are closed.
FlushData ==
    /\ phase = "indexed" /\ phase' = "down"
    /\ data' = DataFile(index, c.d.blocks)
    /\ c' = NewBuffer(NewStorage) /\ touched' = {}
    /\ UNCHANGED <<writeThrough, index, answer>>

\* The process ends before the destructors have: it is killed, or the library
\* throws and the program ends in its handler.
Crash ==
    /\ phase # "down" /\ phase' = "down"
    /\ data' \in Reached(c.d, index, data)
    /\ c' = NewBuffer(NewStorage) /\ touched' = {}
    /\ answer' = <<>> /\ UNCHANGED <<writeThrough, index>>

Next ==
    \/ Create \/ Open
    \/ \E bytes \in Data : StoreNew(bytes)
    \/ \E page \in Pages, bytes \in Data : StoreAgain(page, bytes)
    \/ \E page \in Pages : Load(page) \/ Delete(page)
    \/ Close \/ WriteEntry \/ RewriteIndex \/ FlushIndex \/ FlushData
    \/ Crash

Spec == Init /\ [][Next]_vars

-----------------------------------------------------------------------------
(* Properties                                                              *)

\* Each block below nextPage is free or belongs to one page, once, whatever was
\* stored shorter or longer, deleted, closed or lost in a crash: no block leaks
\* and no two pages share one.  A page has the number of its first block.
BlocksAccounted ==
    LET d == c.d
        used == UNION {Range(d.pageIndex[p]) : p \in Pages}
    IN /\ used \cap d.emptyPages = {}
       /\ used \cup d.emptyPages = 0..(d.nextPage - 1)
       /\ \A p, q \in Pages : \A i \in DOMAIN d.pageIndex[p], j \in DOMAIN d.pageIndex[q] :
             d.pageIndex[p][i] = d.pageIndex[q][j] => p = q /\ i = j
       /\ \A p \in Pages : d.pageIndex[p][1] = p

\* The buffer has no entry of a page that is not in use, an entry that is not
\* dirty is that of the storage, and its capacity is respected.
BufferCoherent ==
    /\ DOMAIN c.entries \subseteq Pages
    /\ Cardinality(DOMAIN c.entries) <= Capacity
    /\ \A p \in DOMAIN c.entries :
          ~ c.entries[p].dirty => c.entries[p].data = loadByteArray(c.d, p)

\* The buffer of the user, or what it would be after the storage is opened, and
\* the pages as they are read from it.
User == IF phase = "down" THEN NewBuffer(LoadedStorage(index, data)) ELSE c
Seen(k) == [p \in DOMAIN k.d.pageIndex |-> Cached(k, p)]
Mode == IF phase = "indexed" THEN "closing" ELSE phase

\* The user of the buffer sees the pages as PageStore promises them, through
\* evictions, closings and crashes at any point of these (IStorageManager,
\* SpatialIndex.h).
Store == INSTANCE PageStore WITH
    mode <- Mode, loadable <- index.written,
    store <- Seen(User), synced <- DOMAIN index.pageIndex

RefinesPageStore == Store!Spec

=============================================================================
