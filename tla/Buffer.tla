-------------------------------- MODULE Buffer --------------------------------
(***************************************************************************)
(* The buffer of pages over a storage manager (Buffer.cc), which evicts a  *)
(* random entry when it is full (RandomEvictionsBuffer.cc).  A state c has *)
(* the entries, functions from a page to its data and whether this is      *)
(* dirty, and the storage d below.  The operators that add an entry give   *)
(* the set of the possible next states.                                    *)
(***************************************************************************)
EXTENDS DiskStorageManager

CONSTANT Capacity

\* With no capacity the first assertion of addEntry fails at the second entry.
ASSUME BufferAssumption == Capacity \in Nat \ {0}

NewBuffer(d) == [entries |-> <<>>, d |-> d]

\* Mutant of WriteBack: an evicted entry is never written.
WriteBack_Never(c, page) == c.d

\* The storage after the entry of page has been written to it, if it is dirty.
WriteBack(c, page) ==
    IF c.entries[page].dirty
    THEN storeByteArray(c.d, page, c.entries[page].data) ELSE c.d

removeEntry(c, page) ==
    [entries |-> Restrict(c.entries, DOMAIN c.entries \ {page}),
     d |-> WriteBack(c, page)]

addEntry(c, page, e) ==
    LET With(k) == [k EXCEPT !.entries = Put(@, page, e)]
    IN IF Cardinality(DOMAIN c.entries) = Capacity
       THEN {With(removeEntry(c, victim)) : victim \in DOMAIN c.entries}
       ELSE {With(c)}

\* The data of page for the reader.
Cached(c, page) ==
    IF page \in DOMAIN c.entries THEN c.entries[page].data
    ELSE loadByteArray(c.d, page)

Loaded(c, page) ==
    IF page \in DOMAIN c.entries THEN {c}
    ELSE addEntry(c, page, [data |-> loadByteArray(c.d, page), dirty |-> FALSE])

StoredNew(c, data) ==
    addEntry([c EXCEPT !.d = storeNewPage(c.d, data)], NewPageOf(c.d),
             [data |-> data, dirty |-> FALSE])

Stored(c, page, data, writeThrough) ==
    LET e == [data |-> data, dirty |-> ~ writeThrough]
        c1 == IF writeThrough THEN [c EXCEPT !.d = storeByteArray(c.d, page, data)]
              ELSE c
    IN IF page \in DOMAIN c.entries THEN {[c1 EXCEPT !.entries[page] = e]}
       ELSE addEntry(c1, page, e)

\* Mutant of Deleted: the entry of the page stays.
Deleted_Kept(c, page) == [c EXCEPT !.d = deleteByteArray(c.d, page)]

Deleted(c, page) ==
    [entries |-> Restrict(c.entries, DOMAIN c.entries \ {page}),
     d |-> deleteByteArray(c.d, page)]

=============================================================================
