------------------------ MODULE MemoryStorageManager ------------------------
(***************************************************************************)
(* The storage manager of the skyline checker (MemoryStorageManager.cc):   *)
(* the content buffer of the pages in use, the number size of pages that   *)
(* were ever created and the stack emptyPages of those that were deleted   *)
(* and can be given out again.  An operation on a page that is not in use  *)
(* throws InvalidPageException; its callers make none (Reachable pages).   *)
(***************************************************************************)
EXTENDS Integers, Sequences, SequencesExt, TLC

NoStorage == [buffer |-> <<>>, size |-> 0, emptyPages |-> <<>>]

loadByteArray(s, page) == s.buffer[page]

\* The page that storeByteArray gives out for NewPage.
NewPageOf(s) == IF s.emptyPages = <<>> THEN s.size ELSE Last(s.emptyPages)

storeNewPage(s, data) ==
    [buffer |-> (NewPageOf(s) :> data) @@ s.buffer,
     size |-> IF s.emptyPages = <<>> THEN s.size + 1 ELSE s.size,
     emptyPages |-> IF s.emptyPages = <<>> THEN <<>> ELSE Front(s.emptyPages)]

storeByteArray(s, page, data) == [s EXCEPT !.buffer[page] = data]

deleteByteArray(s, page) ==
    [s EXCEPT !.buffer = [p \in DOMAIN s.buffer \ {page} |-> s.buffer[p]],
              !.emptyPages = Append(@, page)]

=============================================================================
