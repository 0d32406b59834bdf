------------------------- MODULE DiskStorageManager -------------------------
(***************************************************************************)
(* The storage manager on two files (DiskStorageManager.cc), as operators  *)
(* on a record d: the free blocks emptyPages and the number nextPage of    *)
(* blocks of the data file, the blocks pageIndex[p] of each page p in use  *)
(* and the contents blocks of the data file.  The data of a page is a      *)
(* sequence of chunks that fill a block each, but for the last one; what a *)
(* short chunk leaves of the old contents is not read.  A page has the     *)
(* number of its first block.                                              *)
(***************************************************************************)
EXTENDS Integers, Sequences, FiniteSetsExt, Functions

\* The function g where f is not defined.
Over(f, g) ==
    [x \in DOMAIN f \cup DOMAIN g |-> IF x \in DOMAIN f THEN f[x] ELSE g[x]]

\* The function f with the value y at x.
Put(f, x, y) == Over([z \in {x} |-> y], f)

NewStorage ==
    [nextPage |-> 0, emptyPages |-> {}, pageIndex |-> <<>>, blocks |-> <<>>]

\* Blocks are taken one by one: the lowest free one, or the end of the file.
Taken(d, n) ==
    LET after[k \in 0..n] ==
            IF k = 0 THEN [emptyPages |-> d.emptyPages, nextPage |-> d.nextPage,
                           pages |-> <<>>]
            ELSE LET a == after[k - 1]
                 IN IF a.emptyPages # {}
                    THEN [a EXCEPT !.emptyPages = @ \ {Min(@)},
                                   !.pages = Append(@, Min(a.emptyPages))]
                    ELSE [a EXCEPT !.nextPage = @ + 1,
                                   !.pages = Append(@, a.nextPage)]
    IN after[n]

\* Mutant of Write: what is left of old is not freed.
Write_Leak(d, old, data) ==
    LET kept == SubSeq(old, 1, Min({Len(old), Len(data)}))
        taken == Taken(d, Len(data) - Len(kept))
        pages == kept \o taken.pages
        written == [i \in Range(pages) |-> data[CHOOSE k \in DOMAIN pages : pages[k] = i]]
    IN [d EXCEPT !.nextPage = taken.nextPage,
                 !.emptyPages = taken.emptyPages,
                 !.pageIndex = Put(@, pages[1], pages),
                 !.blocks = Over(written, @)]

\* data is written over the blocks old and, if these are too few, others; what
\* is left of old becomes free.
Write(d, old, data) ==
    LET kept == SubSeq(old, 1, Min({Len(old), Len(data)}))
        taken == Taken(d, Len(data) - Len(kept))
        pages == kept \o taken.pages
        written == [i \in Range(pages) |-> data[CHOOSE k \in DOMAIN pages : pages[k] = i]]
    IN [d EXCEPT !.nextPage = taken.nextPage,
                 !.emptyPages = taken.emptyPages \cup (Range(old) \ Range(kept)),
                 !.pageIndex = Put(@, pages[1], pages),
                 !.blocks = Over(written, @)]

\* The page that storeByteArray gives out for NewPage.
NewPageOf(d) == Taken(d, 1).pages[1]

storeNewPage(d, data) == Write(d, <<>>, data)

storeByteArray(d, page, data) == Write(d, d.pageIndex[page], data)

loadByteArray(d, page) ==
    [i \in DOMAIN d.pageIndex[page] |-> d.blocks[d.pageIndex[page][i]]]

deleteByteArray(d, page) ==
    [d EXCEPT !.emptyPages = @ \cup Range(d.pageIndex[page]),
              !.pageIndex = Restrict(@, DOMAIN @ \ {page})]

\* The index file as flush writes it.
IndexOf(d) == [written |-> TRUE, nextPage |-> d.nextPage,
               emptyPages |-> d.emptyPages, pageIndex |-> d.pageIndex]

\* The index file that is empty, as a new storage manager leaves it, or that
\* was being rewritten in place: reading it fails, or gives parts of two indices.
NoIndex == [written |-> FALSE, nextPage |-> 0, emptyPages |-> {}, pageIndex |-> <<>>]

\* What is read from a block that never reached the data file.
Stale == 0

\* The data file with these blocks, as far as index knows of them; what is in a
\* free block, which is not read, is left out.
DataFile(index, blocks) ==
    [i \in 0..(index.nextPage - 1) |->
        IF i \in DOMAIN blocks \ index.emptyPages THEN blocks[i] ELSE Stale]

\* What a crash can leave in the data file: some of the blocks of d reached it,
\* of the others it has what was there before.
Reached(d, index, data) ==
    {DataFile(index, Over([i \in written |-> d.blocks[i]], data)) :
        written \in SUBSET DOMAIN d.blocks}

\* The storage that the constructor loads from the two files.
LoadedStorage(index, data) ==
    [nextPage |-> index.nextPage, emptyPages |-> index.emptyPages,
     pageIndex |-> index.pageIndex, blocks |-> data]

=============================================================================
