--------------------------- MODULE Storage_proofs ---------------------------
(***************************************************************************)
(* Proofs about the buffer over the storage on disk, for any data, any     *)
(* capacity of the buffer and any number of blocks: no block is lost or    *)
(* shared, the buffer agrees with the storage, and its user sees the pages *)
(* as PageStore promises them, through evictions, closings and crashes.    *)
(***************************************************************************)
EXTENDS Storage, Sums_proofs

\* What a block can hold, and a page: after a crash, also a mixture of what was
\* stored.
Contents == Chunk \cup {Stale}

Bytes == Seq(Contents) \ {<<>>}

Disk == [nextPage   : Nat,
         emptyPages : SUBSET Nat,
         pageIndex  : UNION {[P -> Seq(Nat)] : P \in SUBSET Nat},
         blocks     : UNION {[B -> Contents] : B \in SUBSET Nat}]

\* Each block of the file is free or the block of one page, once, and was
\* written.
Accounted(d) ==
    /\ \A p \in DOMAIN d.pageIndex : d.pageIndex[p] # <<>> /\ d.pageIndex[p][1] = p
    /\ \A p, q \in DOMAIN d.pageIndex :
          \A i \in DOMAIN d.pageIndex[p], j \in DOMAIN d.pageIndex[q] :
             d.pageIndex[p][i] = d.pageIndex[q][j] => p = q /\ i = j
    /\ \A p \in DOMAIN d.pageIndex : \A i \in DOMAIN d.pageIndex[p] :
          d.pageIndex[p][i] \in 0..(d.nextPage - 1) \ d.emptyPages
    /\ \A b \in 0..(d.nextPage - 1) :
          \/ b \in d.emptyPages
          \/ \E p \in DOMAIN d.pageIndex : \E i \in DOMAIN d.pageIndex[p] :
                d.pageIndex[p][i] = b
    /\ d.emptyPages \subseteq 0..(d.nextPage - 1)
    /\ DOMAIN d.blocks = 0..(d.nextPage - 1)

GoodDisk == {d \in Disk : Accounted(d)}

\* Page p has the same blocks in d and in e, with the same contents.
SamePage(d, e, p) ==
    /\ p \in DOMAIN d.pageIndex /\ p \in DOMAIN e.pageIndex
    /\ e.pageIndex[p] = d.pageIndex[p]
    /\ \A i \in DOMAIN d.pageIndex[p] :
          e.blocks[d.pageIndex[p][i]] = d.blocks[d.pageIndex[p][i]]

Entry == [data : Bytes, dirty : BOOLEAN]

\* The entries are of pages in use and, if they are clean, those of the storage.
GoodBuffer(k) ==
    /\ k = [entries |-> k.entries, d |-> k.d]
    /\ k.d \in GoodDisk
    /\ k.entries \in [DOMAIN k.entries -> Entry]
    /\ DOMAIN k.entries \subseteq DOMAIN k.d.pageIndex
    /\ IsFiniteSet(DOMAIN k.entries) /\ Cardinality(DOMAIN k.entries) <= Capacity
    /\ \A p \in DOMAIN k.entries :
          ~ k.entries[p].dirty => k.entries[p].data = loadByteArray(k.d, p)

\* The blocks of a data file.
DataFiles == UNION {[B -> Contents] : B \in SUBSET Nat}

\* Whatever the data file holds, the storage loaded with index x is accounted for.
GoodIndex(x) ==
    /\ x.nextPage \in Nat
    /\ DOMAIN x.pageIndex \subseteq Page
    /\ \A blocks \in [0..(x.nextPage - 1) -> Contents] : LoadedStorage(x, blocks) \in GoodDisk

\* There is nothing to write for page p.
Unwritten(k, p) == p \in DOMAIN k.entries => ~ k.entries[p].dirty

\* Page p is in the data file as it is in the storage.
InFile(k, file, p) ==
    /\ Unwritten(k, p)
    /\ \A i \in DOMAIN k.d.pageIndex[p] :
          /\ k.d.pageIndex[p][i] \in DOMAIN file
          /\ file[k.d.pageIndex[p][i]] = k.d.blocks[k.d.pageIndex[p][i]]

\* The pages that were left alone are in the data file, and in the index file if
\* this has pages.
FilesInv ==
    /\ index.nextPage <= c.d.nextPage
    /\ \A p \in Pages \ touched : InFile(c, data, p)
    /\ \A p \in DOMAIN index.pageIndex \ touched :
          p \in Pages /\ c.d.pageIndex[p] = index.pageIndex[p]

StorageInv ==
    /\ GoodBuffer(c) /\ Pages \subseteq Page
    /\ writeThrough \in BOOLEAN
    /\ GoodIndex(index) /\ data \in DataFiles
    /\ phase = "down" => DOMAIN data = 0..(index.nextPage - 1) /\ touched = {}
    /\ phase # "down" => FilesInv
    /\ phase = "indexed" => DOMAIN c.entries = {} /\ index = IndexOf(c.d)

-----------------------------------------------------------------------------
(* The blocks that are taken                                               *)

\* The fields of a storage.
LEMMA DiskFields ==
    ASSUME NEW d \in Disk
    PROVE  /\ d.nextPage \in Nat
           /\ d.emptyPages \in SUBSET Nat
           /\ d.pageIndex \in [DOMAIN d.pageIndex -> Seq(Nat)]
           /\ DOMAIN d.pageIndex \in SUBSET Nat
           /\ d.blocks \in [DOMAIN d.blocks -> Contents]
           /\ DOMAIN d.blocks \in SUBSET Nat
  BY DEF Disk

\* The block that is taken first.
First(d) == IF d.emptyPages # {} THEN Min(d.emptyPages) ELSE d.nextPage

\* What the blocks come from, and the blocks.
Supply == [emptyPages : SUBSET Nat, nextPage : Nat, pages : Seq(Nat)]

\* k blocks were taken from d, which leaves a.
TakenFrom(d, a, k) ==
    /\ a \in Supply /\ Len(a.pages) = k
    /\ d.nextPage <= a.nextPage
    /\ a.emptyPages \subseteq d.emptyPages
    /\ k > 0 => a.pages[1] = First(d)
    /\ \A i, j \in 1..k : a.pages[i] = a.pages[j] => i = j
    /\ \A i \in 1..k : \/ a.pages[i] \in d.emptyPages \ a.emptyPages
                       \/ a.pages[i] \in d.nextPage..(a.nextPage - 1)
    /\ \A b \in (d.emptyPages \ a.emptyPages) \cup d.nextPage..(a.nextPage - 1) :
          \E i \in 1..k : a.pages[i] = b

\* One more block is taken.
TakeOne(a) ==
    IF a.emptyPages # {}
    THEN [a EXCEPT !.emptyPages = @ \ {Min(@)},
                   !.pages = Append(@, Min(a.emptyPages))]
    ELSE [a EXCEPT !.nextPage = @ + 1,
                   !.pages = Append(@, a.nextPage)]

\* Taking one more block, from the free ones or at the end of the file.
LEMMA TakeOneMore ==
    ASSUME NEW d \in GoodDisk, NEW k \in Nat, NEW a, TakenFrom(d, a, k)
    PROVE  TakenFrom(d, TakeOne(a), k + 1)
<1> DEFINE x == IF a.emptyPages # {} THEN Min(a.emptyPages) ELSE a.nextPage
           b == TakeOne(a)
           E == a.emptyPages \ {x}
           n == IF a.emptyPages # {} THEN a.nextPage ELSE a.nextPage + 1
<1>1. /\ d.nextPage \in Nat /\ d.emptyPages \in SUBSET Nat
      /\ d.emptyPages \subseteq 0..(d.nextPage - 1)
  BY DiskFields DEF GoodDisk, Accounted
<1>2. /\ a.emptyPages \in SUBSET Nat /\ a.nextPage \in Nat /\ a.pages \in Seq(Nat)
      /\ a = [emptyPages |-> a.emptyPages, nextPage |-> a.nextPage, pages |-> a.pages]
  BY DEF TakenFrom, Supply
<1>3. a.emptyPages # {} => Min(a.emptyPages) \in a.emptyPages
  BY <1>2, LeastElement
<1>4. b = [emptyPages |-> E, nextPage |-> n, pages |-> Append(a.pages, x)]
  <2>1. CASE a.emptyPages # {}
    BY <2>1, <1>2 DEF TakeOne
  <2>2. CASE a.emptyPages = {}
    BY <2>2, <1>2 DEF TakeOne
  <2> QED
    BY <2>1, <2>2
<1>5. /\ x \in Nat /\ n \in Nat /\ E \in SUBSET Nat
      /\ \/ x \in a.emptyPages /\ n = a.nextPage
         \/ x = a.nextPage /\ n = a.nextPage + 1 /\ a.emptyPages = {}
  BY <1>2, <1>3
<1> DEFINE q == Append(a.pages, x)
<1>6. /\ q \in Seq(Nat) /\ Len(q) = k + 1
      /\ \A i \in 1..k : q[i] = a.pages[i]
      /\ q[k + 1] = x
  BY <1>2, <1>5, AppendProperties DEF TakenFrom
<1>7. k = 0 => x = First(d)
  <2> SUFFICES ASSUME k = 0 PROVE x = First(d)
    OBVIOUS
  <2>1. \A b0 \in (d.emptyPages \ a.emptyPages) \cup d.nextPage..(a.nextPage - 1) : FALSE
    BY DEF TakenFrom
  <2>0. a.emptyPages \subseteq d.emptyPages
    BY DEF TakenFrom
  <2>2. d.emptyPages = a.emptyPages /\ ~(d.nextPage < a.nextPage)
    <3>1. d.emptyPages = a.emptyPages
      BY <2>0, <2>1
    <3>2. d.nextPage < a.nextPage => d.nextPage \in d.nextPage..(a.nextPage - 1)
      BY <1>1, <1>2
    <3> QED
      BY <2>1, <3>1, <3>2
  <2>3. d.nextPage = a.nextPage
    BY <2>2, <1>1, <1>2 DEF TakenFrom
  <2> QED
    BY <2>2, <2>3 DEF First
<1> HIDE DEF x, n, E, q, b
<1>8. b \in Supply /\ Len(b.pages) = k + 1
  BY <1>4, <1>5, <1>6 DEF Supply, q
<1>9. b.emptyPages = E /\ b.nextPage = n /\ b.pages = q
  BY <1>4 DEF q
<1>10. E = a.emptyPages \ {x}
  BY DEF E
<1>11. d.nextPage <= n /\ E \subseteq d.emptyPages
  BY <1>1, <1>2, <1>5, <1>10 DEF TakenFrom
<1>12. k + 1 > 0 => q[1] = First(d)
  <2>1. CASE k = 0
    BY <2>1, <1>6, <1>7
  <2>2. CASE k > 0
    BY <2>2, <1>6 DEF TakenFrom
  <2> QED
    BY <2>1, <2>2
<1>13. \A i \in 1..k : a.pages[i] # x /\ a.pages[i] \in Nat
  <2> SUFFICES ASSUME NEW i \in 1..k PROVE a.pages[i] # x /\ a.pages[i] \in Nat
    OBVIOUS
  <2>1. \/ a.pages[i] \in d.emptyPages \ a.emptyPages
        \/ a.pages[i] \in d.nextPage..(a.nextPage - 1)
    BY DEF TakenFrom
  <2>2. a.emptyPages \subseteq d.emptyPages /\ d.nextPage <= a.nextPage
    BY DEF TakenFrom
  <2> QED
    BY <2>1, <2>2, <1>1, <1>2, <1>5
<1>14. \A i, j \in 1..(k + 1) : q[i] = q[j] => i = j
  <2> SUFFICES ASSUME NEW i \in 1..(k + 1), NEW j \in 1..(k + 1), q[i] = q[j]
               PROVE  i = j
    OBVIOUS
  <2>1. CASE i \in 1..k /\ j \in 1..k
    BY <2>1, <1>6 DEF TakenFrom
  <2>2. CASE i = k + 1 /\ j \in 1..k
    BY <2>2, <1>6, <1>13
  <2>3. CASE j = k + 1 /\ i \in 1..k
    BY <2>3, <1>6, <1>13
  <2> QED
    BY <2>1, <2>2, <2>3
<1>15. \A i \in 1..(k + 1) : q[i] \in d.emptyPages \ E \/ q[i] \in d.nextPage..(n - 1)
  <2> SUFFICES ASSUME NEW i \in 1..(k + 1)
               PROVE  q[i] \in d.emptyPages \ E \/ q[i] \in d.nextPage..(n - 1)
    OBVIOUS
  <2>0. a.emptyPages \subseteq d.emptyPages /\ d.nextPage <= a.nextPage
    BY DEF TakenFrom
  <2>1. CASE i = k + 1
    BY <2>0, <2>1, <1>6, <1>5, <1>10, <1>1, <1>2
  <2>2. CASE i \in 1..k
    <3>1. \/ q[i] \in d.emptyPages \ a.emptyPages
          \/ q[i] \in d.nextPage..(a.nextPage - 1)
      BY <2>2, <1>6 DEF TakenFrom
    <3> QED
      BY <3>1, <1>5, <1>10, <1>1, <1>2
  <2> QED
    BY <2>1, <2>2
<1>16. \A y \in (d.emptyPages \ E) \cup d.nextPage..(n - 1) : \E i \in 1..(k + 1) : q[i] = y
  <2> SUFFICES ASSUME NEW y \in (d.emptyPages \ E) \cup d.nextPage..(n - 1)
               PROVE  \E i \in 1..(k + 1) : q[i] = y
    OBVIOUS
  <2>1. CASE y = x
    BY <2>1, <1>6
  <2>2. CASE y # x
    <3>1. y \in (d.emptyPages \ a.emptyPages) \cup d.nextPage..(a.nextPage - 1)
      BY <2>2, <1>5, <1>10, <1>1, <1>2
    <3>2. PICK i \in 1..k : a.pages[i] = y
      BY <3>1 DEF TakenFrom
    <3> QED
      BY <3>2, <1>6
  <2> QED
    BY <2>1, <2>2
<1>17. TakenFrom(d, b, k + 1)
  BY <1>8, <1>9, <1>11, <1>12, <1>14, <1>15, <1>16 DEF TakenFrom
<1> QED
  BY <1>17 DEF b

\* n blocks are taken one after the other.
LEMMA TakenIsTaken ==
    ASSUME NEW d \in GoodDisk, NEW n \in Nat
    PROVE  TakenFrom(d, Taken(d, n), n)
<1> DEFINE base == [emptyPages |-> d.emptyPages, nextPage |-> d.nextPage, pages |-> <<>>]
           F == [a \in Supply |-> TakeOne(a)]
           Rec(h) == h = [k \in 0..n |-> IF k = 0 THEN base ELSE TakeOne(h[k - 1])]
           after == CHOOSE h : Rec(h)
<1>1. Taken(d, n) = after[n]
  BY DEF Taken, TakeOne
<1>2. /\ d.nextPage \in Nat /\ d.emptyPages \in SUBSET Nat
      /\ base \in Supply
  BY DiskFields DEF GoodDisk, Supply
<1>3. F \in [Supply -> Supply]
  <2> SUFFICES ASSUME NEW a \in Supply PROVE TakeOne(a) \in Supply
    OBVIOUS
  <2>1. /\ a.emptyPages \in SUBSET Nat /\ a.nextPage \in Nat /\ a.pages \in Seq(Nat)
        /\ a = [emptyPages |-> a.emptyPages, nextPage |-> a.nextPage, pages |-> a.pages]
    BY DEF Supply
  <2>2. CASE a.emptyPages # {}
    <3>1. Min(a.emptyPages) \in Nat
      BY <2>1, <2>2, LeastElement
    <3>2. Append(a.pages, Min(a.emptyPages)) \in Seq(Nat)
      BY <2>1, <3>1, AppendProperties
    <3> QED
      BY <2>1, <2>2, <3>2 DEF Supply, TakeOne
  <2>3. CASE a.emptyPages = {}
    <3>1. Append(a.pages, a.nextPage) \in Seq(Nat) /\ a.nextPage + 1 \in Nat
      BY <2>1, AppendProperties
    <3>2. TakeOne(a) = [emptyPages |-> a.emptyPages, nextPage |-> a.nextPage + 1,
                        pages |-> Append(a.pages, a.nextPage)]
      BY <2>1, <2>3 DEF TakeOne
    <3> QED
      BY <2>1, <3>1, <3>2 DEF Supply
  <2> QED
    BY <2>2, <2>3
<1>4. PICK h \in [0..n -> Supply] : Iterates(h, F, base, n)
  <2>1. base \in Supply
    BY <1>2
  <2> HIDE DEF base, F, Rec, after
  <2> QED
    BY <2>1, <1>3, RecursionOnNaturals
<1>5. Rec(h)
  <2>1. \A k \in 0..n : h[k] = IF k = 0 THEN base ELSE TakeOne(h[k - 1])
    <3> HIDE DEF base, Rec, after
    <3> SUFFICES ASSUME NEW k \in 0..n, k # 0 PROVE h[k] = TakeOne(h[k - 1])
      BY <1>4 DEF Iterates
    <3>1. k \in 1..n /\ k - 1 \in 0..n
      OBVIOUS
    <3> QED
      BY <1>4, <3>1 DEF Iterates
  <2> HIDE DEF base, F
  <2> QED
    BY <2>1, <1>4
<1>6. Rec(after)
  <2> HIDE DEF Rec
  <2> QED
    BY <1>5
<1> DEFINE P == {k \in Nat : k <= n => TakenFrom(d, after[k], k)}
<1>7. 0 \in P
  <2>1. after[0] = base
    <3> HIDE DEF after, base
    <3> QED
      BY <1>6
  <2>2. TakenFrom(d, base, 0)
    BY <1>2 DEF TakenFrom
  <2> HIDE DEF after
  <2> QED
    BY <2>1, <2>2
<1>8. ASSUME NEW k \in P PROVE k + 1 \in P
  <2> SUFFICES ASSUME k + 1 <= n PROVE TakenFrom(d, after[k + 1], k + 1)
    OBVIOUS
  <2>1. after[k + 1] = TakeOne(after[k])
    <3> HIDE DEF after, base
    <3> QED
      BY <1>6
  <2>2. TakenFrom(d, after[k], k)
    <3> HIDE DEF after
    <3> QED
      OBVIOUS
  <2> HIDE DEF after
  <2> QED
    BY <2>1, <2>2, TakeOneMore
<1>9. P = Nat
  <2> HIDE DEF P
  <2>1. P \in SUBSET Nat
    BY DEF P
  <2> QED
    BY <1>7, <1>8, <2>1, SetOfAllNaturals
<1> HIDE DEF after
<1> QED
  BY <1>1, <1>9

\* A page that is given out for new data has the number of its first block.
LEMMA NewPageIsFirst ==
    ASSUME NEW d \in GoodDisk
    PROVE  /\ NewPageOf(d) = First(d)
           /\ First(d) \in Nat /\ First(d) \notin DOMAIN d.pageIndex
           /\ \A n \in Nat \ {0} : First(d) < Taken(d, n).nextPage
<1>0. /\ d.nextPage \in Nat /\ d.emptyPages \in SUBSET Nat
      /\ d.emptyPages \subseteq 0..(d.nextPage - 1)
      /\ d.pageIndex \in [DOMAIN d.pageIndex -> Seq(Nat)]
  BY DiskFields DEF GoodDisk, Accounted
<1>1. NewPageOf(d) = First(d)
  BY TakenIsTaken DEF NewPageOf, TakenFrom
<1>2. /\ First(d) \in Nat
      /\ First(d) \in d.emptyPages \/ First(d) = d.nextPage
  BY <1>0, LeastElement DEF First
<1>3. First(d) \notin DOMAIN d.pageIndex
  <2> SUFFICES ASSUME NEW p \in DOMAIN d.pageIndex PROVE First(d) # p
    OBVIOUS
  <2>1. d.pageIndex[p] \in Seq(Nat) /\ d.pageIndex[p] # <<>> /\ d.pageIndex[p][1] = p
    BY <1>0 DEF GoodDisk, Accounted
  <2>2. 1 \in DOMAIN d.pageIndex[p]
    BY <2>1, EmptySeq, LenProperties
  <2>3. d.pageIndex[p][1] \in 0..(d.nextPage - 1) \ d.emptyPages
    BY <2>2 DEF GoodDisk, Accounted
  <2> QED
    BY <2>1, <2>3, <1>2, <1>0
<1>4. ASSUME NEW n \in Nat \ {0} PROVE First(d) < Taken(d, n).nextPage
  <2> DEFINE a == Taken(d, n)
  <2> HIDE DEF a
  <2>1. TakenFrom(d, a, n)
    BY TakenIsTaken DEF a
  <2>2. /\ a.nextPage \in Nat /\ d.nextPage <= a.nextPage /\ a.pages[1] = First(d)
        /\ \/ a.pages[1] \in d.emptyPages \ a.emptyPages
           \/ a.pages[1] \in d.nextPage..(a.nextPage - 1)
    BY <2>1 DEF TakenFrom, Supply
  <2> QED
    BY <2>2, <1>0 DEF a
<1> QED
  BY <1>1, <1>2, <1>3, <1>4

-----------------------------------------------------------------------------
(* What is written                                                         *)

\* A page of d that is written over has its blocks old; a new page has none.
WrittenPage(d, old) == IF old = <<>> THEN First(d) ELSE old[1]
IsOld(d, old) == old = <<>> \/ \E p \in DOMAIN d.pageIndex : old = d.pageIndex[p]

\* e is d after page has got the blocks pages, with data, of which some are its
\* old ones and the others were free or are new.
Rewritten(d, e, old, page, pages, bytes) ==
    /\ pages \in Seq(Nat) /\ bytes \in Bytes /\ Len(pages) = Len(bytes)
    /\ pages[1] = page
    /\ \A i, j \in 1..Len(pages) : pages[i] = pages[j] => i = j
    /\ \A i \in 1..Len(pages) :
          \/ pages[i] \in Range(old)
          \/ pages[i] \in d.emptyPages
          \/ pages[i] \in d.nextPage..(e.nextPage - 1)
    /\ e.nextPage \in Nat /\ d.nextPage <= e.nextPage
    /\ \A b \in d.nextPage..(e.nextPage - 1) : b \in Range(pages)
    /\ e.emptyPages = (d.emptyPages \cup Range(old)) \ Range(pages)
    /\ DOMAIN e.pageIndex = DOMAIN d.pageIndex \cup {page}
    /\ \A p \in DOMAIN e.pageIndex :
          e.pageIndex[p] = IF p = page THEN pages ELSE d.pageIndex[p]
    /\ DOMAIN e.blocks = DOMAIN d.blocks \cup Range(pages)
    /\ \A i \in 1..Len(pages) : e.blocks[pages[i]] = bytes[i]
    /\ \A b \in DOMAIN d.blocks \ Range(pages) : e.blocks[b] = d.blocks[b]
    /\ e = [nextPage |-> e.nextPage, emptyPages |-> e.emptyPages,
            pageIndex |-> e.pageIndex, blocks |-> e.blocks]
    /\ e.pageIndex \in [DOMAIN e.pageIndex -> Seq(Nat)]
    /\ e.blocks \in [DOMAIN e.blocks -> Contents]

\* What Write does: a page keeps the first of its blocks, gives up those that it
\* does not need, or takes those that it lacks.
LEMMA WriteIsRewritten ==
    ASSUME NEW d \in GoodDisk, NEW old \in Seq(Nat), IsOld(d, old), NEW bytes \in Bytes
    PROVE  \E pages : Rewritten(d, Write(d, old, bytes), old, WrittenPage(d, old), pages, bytes)
<1> DEFINE m == Min({Len(old), Len(bytes)})
           kept == SubSeq(old, 1, m)
           n == Len(bytes) - Len(kept)
           t == Taken(d, n)
           pages == kept \o t.pages
<1>0. /\ d.nextPage \in Nat /\ d.emptyPages \in SUBSET Nat
      /\ d.emptyPages \subseteq 0..(d.nextPage - 1)
      /\ d.pageIndex \in [DOMAIN d.pageIndex -> Seq(Nat)]
      /\ d.blocks \in [DOMAIN d.blocks -> Contents]
      /\ DOMAIN d.blocks = 0..(d.nextPage - 1)
      /\ DOMAIN d.pageIndex \subseteq Nat
      /\ d = [nextPage |-> d.nextPage, emptyPages |-> d.emptyPages,
              pageIndex |-> d.pageIndex, blocks |-> d.blocks]
  BY DiskFields DEF GoodDisk, Accounted, Disk
<1> DEFINE lo == Len(old)
           ld == Len(bytes)
<1>1. /\ bytes \in Seq(Contents)
      /\ ld \in Nat /\ ld # 0 /\ lo \in Nat
      /\ old = <<>> <=> lo = 0
      /\ DOMAIN old = 1..lo
      /\ \A i \in 1..lo : old[i] \in Nat
  BY EmptySeq, LenProperties, ElementOfSeq DEF Bytes
<1> HIDE DEF lo, ld
<1>2. m \in Nat /\ m <= lo /\ m <= ld /\ (m = lo \/ m = ld)
  <2>1. m \in {lo, ld} /\ \A x \in {lo, ld} : m <= x
    <3> DEFINE S == {lo, ld}
    <3>1. S \in SUBSET Nat /\ S # {}
      BY <1>1
    <3> HIDE DEF S
    <3>2. Min(S) \in S /\ \A x \in S : Min(S) <= x
      BY <3>1, LeastElement
    <3> QED
      BY <3>2 DEF S, lo, ld
  <2> HIDE DEF m
  <2> QED
    BY <2>1, <1>1
<1> HIDE DEF m
<1>3. /\ kept \in Seq(Nat) /\ Len(kept) = m
      /\ \A i \in 1..m : kept[i] = old[i]
  <2>1. \A i \in 1..m : old[i] \in Nat
    BY <1>1, <1>2
  <2>2. /\ SubSeq(old, 1, m) \in Seq(Nat)
        /\ Len(SubSeq(old, 1, m)) = IF 1 <= m THEN m - 1 + 1 ELSE 0
        /\ \A i \in 1..(m - 1 + 1) : SubSeq(old, 1, m)[i] = old[1 + i - 1]
    BY <2>1, <1>2, SubSeqProperties
  <2> QED
    BY <2>2, <1>2
<1> HIDE DEF kept
<1>4. n \in Nat /\ n = ld - m /\ TakenFrom(d, t, n)
  <2>1. n \in Nat /\ n = ld - m
    BY <1>1, <1>2, <1>3 DEF ld
  <2> QED
    BY <2>1, TakenIsTaken
<1> HIDE DEF n, t

<1>5. /\ t.emptyPages \in SUBSET Nat /\ t.nextPage \in Nat /\ t.pages \in Seq(Nat)
      /\ Len(t.pages) = n /\ d.nextPage <= t.nextPage
      /\ t.emptyPages \subseteq d.emptyPages
      /\ n > 0 => t.pages[1] = First(d)
      /\ \A i, j \in 1..n : t.pages[i] = t.pages[j] => i = j
  BY <1>4 DEF TakenFrom, Supply
<1>6. \A i \in 1..n : \/ t.pages[i] \in d.emptyPages \ t.emptyPages
                      \/ t.pages[i] \in d.nextPage..(t.nextPage - 1)
  BY <1>4 DEF TakenFrom
<1>7. \A b \in (d.emptyPages \ t.emptyPages) \cup d.nextPage..(t.nextPage - 1) :
         \E i \in 1..n : t.pages[i] = b
  BY <1>4 DEF TakenFrom
<1>8. /\ \A i, j \in 1..lo : old[i] = old[j] => i = j
      /\ \A i \in 1..lo : old[i] \in 0..(d.nextPage - 1) \ d.emptyPages
  <2>1. CASE old = <<>>
    BY <2>1, <1>1
  <2>2. CASE old # <<>>
    <3>1. PICK p \in DOMAIN d.pageIndex : old = d.pageIndex[p]
      BY <2>2 DEF IsOld
    <3>2. /\ \A i, j \in DOMAIN d.pageIndex[p] :
                d.pageIndex[p][i] = d.pageIndex[p][j] => i = j
          /\ \A i \in DOMAIN d.pageIndex[p] :
                d.pageIndex[p][i] \in 0..(d.nextPage - 1) \ d.emptyPages
      BY DEF GoodDisk, Accounted
    <3> QED
      BY <3>1, <3>2, <1>1
  <2> QED
    BY <2>1, <2>2
<1>9. /\ pages \in Seq(Nat) /\ Len(pages) = ld
      /\ \A i \in 1..m : pages[i] = old[i]
      /\ \A i \in (m + 1)..ld : pages[i] = t.pages[i - m] /\ i - m \in 1..n
      /\ DOMAIN pages = 1..ld
  <2>1. /\ pages \in Seq(Nat)
        /\ Len(pages) = Len(kept) + Len(t.pages)
        /\ \A i \in 1..(Len(kept) + Len(t.pages)) :
              pages[i] = IF i <= Len(kept) THEN kept[i] ELSE t.pages[i - Len(kept)]
    <3> DEFINE tp == t.pages
    <3>1. kept \in Seq(Nat) /\ tp \in Seq(Nat)
      BY <1>3, <1>5
    <3> HIDE DEF tp
    <3>2. /\ kept \o tp \in Seq(Nat)
          /\ Len(kept \o tp) = Len(kept) + Len(tp)
          /\ \A i \in 1..(Len(kept) + Len(tp)) :
                (kept \o tp)[i] = IF i <= Len(kept) THEN kept[i] ELSE tp[i - Len(kept)]
      BY ONLY <3>1, ConcatProperties
    <3> QED
      BY <3>2 DEF tp
  <2>2. Len(kept) = m /\ Len(t.pages) = n /\ m + n = ld /\ m \in Nat /\ n \in Nat
        /\ ld \in Nat
    BY <1>1, <1>2, <1>3, <1>4, <1>5
  <2> HIDE DEF pages
  <2>3. Len(pages) = ld
    BY <2>1, <2>2
  <2>4. \A i \in 1..m : pages[i] = old[i]
    BY <2>1, <2>2, <1>3
  <2>5. \A i \in (m + 1)..ld : pages[i] = t.pages[i - m] /\ i - m \in 1..n
    BY <2>1, <2>2
  <2>6. DOMAIN pages = 1..ld
    BY <2>1, <2>3, LenProperties
  <2> QED
    BY <2>1, <2>3, <2>4, <2>5, <2>6
<1> HIDE DEF pages
<1>10. ASSUME NEW i \in 1..ld
       PROVE  \/ i \in 1..m /\ pages[i] = old[i]
              \/ i \in (m + 1)..ld /\ pages[i] = t.pages[i - m] /\ i - m \in 1..n
  BY <1>1, <1>2, <1>9
<1>11. ASSUME NEW i \in 1..m, NEW j \in 1..n PROVE old[i] # t.pages[j]
  <2>1. i \in 1..lo
    BY <1>1, <1>2
  <2>2. old[i] \in 0..(d.nextPage - 1) \ d.emptyPages
    BY <2>1, <1>8
  <2>3. PICK a, b : a = old[i] /\ b = t.pages[j]
    OBVIOUS
  <2>4. PICK x, y : x = d.nextPage /\ y = t.nextPage
    OBVIOUS
  <2>5. a \in 0..(x - 1) /\ a \notin d.emptyPages
    BY <2>2, <2>3, <2>4
  <2>6. b \in d.emptyPages \/ b \in x..(y - 1)
    BY <1>6, <2>3, <2>4
  <2>7. x \in Nat /\ y \in Nat
    BY <1>0, <1>5, <2>4
  <2>8. b \in x..(y - 1) => a # b
    BY ONLY <2>5, <2>7
  <2> QED
    BY <2>3, <2>5, <2>6, <2>8
<1>12. \A i, j \in 1..ld : pages[i] = pages[j] => i = j
  <2> SUFFICES ASSUME NEW i \in 1..ld, NEW j \in 1..ld, pages[i] = pages[j]
               PROVE  i = j
    OBVIOUS
  <2>1. CASE i \in 1..m /\ j \in 1..m
    BY <2>1, <1>9, <1>8, <1>1, <1>2
  <2>2. CASE i \in (m + 1)..ld /\ j \in (m + 1)..ld
    <3>0. /\ i - m \in 1..n /\ j - m \in 1..n
          /\ t.pages[i - m] = t.pages[j - m]
      BY <2>2, <1>9
    <3>1. i - m = j - m
      BY ONLY <3>0, <1>5
    <3> QED
      BY <3>1, <1>2, <1>1
  <2>3. CASE i \in 1..m /\ j \in (m + 1)..ld
    BY <2>3, <1>9, <1>11
  <2>4. CASE i \in (m + 1)..ld /\ j \in 1..m
    BY <2>4, <1>9, <1>11
  <2> QED
    BY <2>1, <2>2, <2>3, <2>4, <1>10
<1>13. pages[1] = WrittenPage(d, old)
  <2>1. CASE old = <<>>
    <3>1. m = 0 /\ n > 0 /\ 1 \in (m + 1)..ld
      BY <2>1, <1>1, <1>2, <1>4
    <3>2. pages[1] = t.pages[1 - m] /\ 1 - m = 1
      BY <3>1, <1>9
    <3> QED
      BY <2>1, <3>1, <3>2, <1>5 DEF WrittenPage
  <2>2. CASE old # <<>>
    <3>1. 1 \in 1..m
      BY <2>2, <1>1, <1>2
    <3> QED
      BY <2>2, <3>1, <1>9 DEF WrittenPage
  <2> QED
    BY <2>1, <2>2

<1>14. /\ \A i \in 1..ld : pages[i] \in Range(old) \/ pages[i] \in d.emptyPages
                                  \/ pages[i] \in d.nextPage..(t.nextPage - 1)
       /\ \A b \in d.nextPage..(t.nextPage - 1) : b \in Range(pages)
  <2>1. ASSUME NEW i \in 1..ld
        PROVE  pages[i] \in Range(old) \/ pages[i] \in d.emptyPages
               \/ pages[i] \in d.nextPage..(t.nextPage - 1)
    <3>1. CASE i \in 1..m /\ pages[i] = old[i]
      BY <3>1, <1>1, <1>2 DEF Range
    <3>2. CASE i \in (m + 1)..ld /\ pages[i] = t.pages[i - m] /\ i - m \in 1..n
      BY <3>2, <1>6
    <3> QED
      BY <3>1, <3>2, <1>10
  <2>2. ASSUME NEW b \in d.nextPage..(t.nextPage - 1) PROVE b \in Range(pages)
    <3>1. PICK j \in 1..n : t.pages[j] = b
      BY <1>7
    <3>2. j + m \in (m + 1)..ld /\ (j + m) - m = j
      BY <1>1, <1>2, <1>4, <3>1
    <3>3. pages[j + m] = b /\ j + m \in DOMAIN pages
      BY <3>1, <3>2, <1>9, <1>2
    <3> QED
      BY <3>3 DEF Range
  <2> QED
    BY <2>1, <2>2
<1>15. t.emptyPages \cup (Range(old) \ Range(kept)) = (d.emptyPages \cup Range(old)) \ Range(pages)
  <2>0. Range(kept) \subseteq Range(pages) /\ \A i \in 1..m : old[i] \in Range(kept)
    <3>1. DOMAIN kept = 1..m /\ \A i \in 1..m : i \in DOMAIN pages
      BY <1>1, <1>2, <1>3, <1>9, LenProperties
    <3>2. \A i \in 1..m : kept[i] = old[i] /\ pages[i] = old[i]
      BY <1>3, <1>9
    <3> QED
      BY ONLY <3>1, <3>2 DEF Range
  <2>1. ASSUME NEW b \in t.emptyPages PROVE b \in d.emptyPages /\ b \notin Range(pages)
    <3>1. b \in d.emptyPages
      BY <1>5
    <3>2. ASSUME NEW i \in 1..ld PROVE pages[i] # b
      <4>1. CASE i \in 1..m /\ pages[i] = old[i]
        BY <4>1, <3>1, <1>8, <1>1, <1>2
      <4>2. CASE i \in (m + 1)..ld /\ pages[i] = t.pages[i - m] /\ i - m \in 1..n
        <5>1. \/ t.pages[i - m] \in d.emptyPages \ t.emptyPages
              \/ t.pages[i - m] \in d.nextPage..(t.nextPage - 1)
          BY <4>2, <1>6
        <5> QED
          BY <4>2, <5>1, <3>1, <1>0, <1>5
      <4> QED
        BY <4>1, <4>2, <1>10
    <3> QED
      BY <3>1, <3>2, <1>9 DEF Range
  <2>2. ASSUME NEW b \in Range(old), b \notin Range(kept) PROVE b \notin Range(pages)
    <3>1. PICK k \in 1..lo : old[k] = b
      BY <1>1 DEF Range
    <3>2. k \notin 1..m
      BY <2>0, <2>2, <3>1
    <3>3. ASSUME NEW i \in 1..ld PROVE pages[i] # b
      <4>1. CASE i \in 1..m /\ pages[i] = old[i]
        BY <4>1, <3>1, <3>2, <1>8, <1>1, <1>2
      <4>2. CASE i \in (m + 1)..ld /\ pages[i] = t.pages[i - m] /\ i - m \in 1..n
        <5>1. \/ t.pages[i - m] \in d.emptyPages \ t.emptyPages
              \/ t.pages[i - m] \in d.nextPage..(t.nextPage - 1)
          BY <4>2, <1>6
        <5>2. old[k] \in 0..(d.nextPage - 1) \ d.emptyPages
          BY <1>8
        <5> QED
          BY <4>2, <5>1, <5>2, <3>1, <1>0, <1>5
      <4> QED
        BY <4>1, <4>2, <1>10
    <3> QED
      BY <3>3, <1>9 DEF Range
  <2>3. ASSUME NEW b \in d.emptyPages, b \notin Range(pages) PROVE b \in t.emptyPages
    <3> SUFFICES ASSUME b \notin t.emptyPages PROVE FALSE
      OBVIOUS
    <3>1. PICK j \in 1..n : t.pages[j] = b
      BY <1>7
    <3>2. j + m \in (m + 1)..ld /\ (j + m) - m = j
      BY <1>1, <1>2, <1>4, <3>1
    <3>3. pages[j + m] = b /\ j + m \in DOMAIN pages
      BY <3>1, <3>2, <1>9, <1>2
    <3> QED
      BY <3>3, <2>3 DEF Range
  <2> QED
    BY <2>0, <2>1, <2>2, <2>3
<1> DEFINE written == [i \in Range(pages) |-> bytes[CHOOSE k \in DOMAIN pages : pages[k] = i]]
           e == Write(d, old, bytes)
<1>16. /\ DOMAIN written = Range(pages)
       /\ \A k \in 1..ld : pages[k] \in Range(pages) /\ written[pages[k]] = bytes[k]
       /\ \A b \in Range(pages) : written[b] \in Contents
  <2>1. ASSUME NEW k \in 1..ld
        PROVE  pages[k] \in Range(pages) /\ written[pages[k]] = bytes[k]
    <3>1. pages[k] \in Range(pages)
      BY <1>9 DEF Range
    <3>2. (CHOOSE j \in DOMAIN pages : pages[j] = pages[k]) = k
      BY <1>9, <1>12
    <3> QED
      BY <3>1, <3>2
  <2>2. ASSUME NEW b \in Range(pages) PROVE written[b] \in Contents
    <3>1. PICK k \in 1..ld : pages[k] = b
      BY <1>9 DEF Range
    <3>2. bytes[k] \in Contents
      BY <1>1, ElementOfSeq DEF ld
    <3> HIDE DEF written
    <3> QED
      BY <3>1, <3>2, <2>1
  <2> QED
    BY <2>1, <2>2
<1> DEFINE page == WrittenPage(d, old)
           idx == Put(d.pageIndex, page, pages)
           blocks == Over(written, d.blocks)
           free == t.emptyPages \cup (Range(old) \ Range(kept))
<1>17. e = [nextPage |-> t.nextPage, emptyPages |-> free, pageIndex |-> idx,
            blocks |-> blocks]
  <2>1. e = [d EXCEPT !.nextPage = t.nextPage, !.emptyPages = free,
                      !.pageIndex = Put(@, pages[1], pages), !.blocks = Over(written, @)]
    BY DEF Write, m, kept, n, t, pages, lo, ld
  <2> HIDE DEF written, page, e, free
  <2> QED
    BY <2>1, <1>13, <1>0 DEF page
<1>18. /\ DOMAIN idx = DOMAIN d.pageIndex \cup {page}
       /\ \A p \in DOMAIN idx : idx[p] = IF p = page THEN pages ELSE d.pageIndex[p]
       /\ idx \in [DOMAIN idx -> Seq(Nat)]
  <2> HIDE DEF page
  <2> QED
    BY <1>0, <1>9 DEF Put, Over
<1>19. /\ DOMAIN blocks = DOMAIN d.blocks \cup Range(pages)
       /\ \A b \in DOMAIN blocks :
             blocks[b] = IF b \in Range(pages) THEN written[b] ELSE d.blocks[b]
       /\ blocks \in [DOMAIN blocks -> Contents]
  <2> HIDE DEF written
  <2> QED
    BY <1>0, <1>16 DEF Over
<1> HIDE DEF written, idx, blocks, page, e, free
<1>20. /\ e.nextPage = t.nextPage /\ e.emptyPages = free /\ e.pageIndex = idx
       /\ e.blocks = blocks
       /\ e = [nextPage |-> e.nextPage, emptyPages |-> e.emptyPages,
               pageIndex |-> e.pageIndex, blocks |-> e.blocks]
  BY <1>17
<1>21. \A i \in 1..ld : blocks[pages[i]] = bytes[i]
  BY <1>16, <1>19
<1>22. \A b \in DOMAIN d.blocks \ Range(pages) : blocks[b] = d.blocks[b]
  BY <1>19
<1>23. Rewritten(d, e, old, page, pages, bytes)
  <2>1. \A i \in 1..ld : pages[i] \in Range(old) \/ pages[i] \in d.emptyPages
                                \/ pages[i] \in d.nextPage..(e.nextPage - 1)
    BY <1>14, <1>20
  <2>2. \A b \in d.nextPage..(e.nextPage - 1) : b \in Range(pages)
    BY <1>14, <1>20
  <2>3. e.emptyPages = (d.emptyPages \cup Range(old)) \ Range(pages)
    BY <1>15, <1>20 DEF free
  <2>4. e.nextPage \in Nat /\ d.nextPage <= e.nextPage
    BY <1>5, <1>20
  <2>5. pages[1] = page
    BY <1>13 DEF page
  <2> QED
    BY <1>9, <1>12, <1>18, <1>19, <1>20, <1>21, <1>22, <2>1, <2>2, <2>3, <2>4, <2>5
       DEF Rewritten, ld
<1> QED
  BY <1>23 DEF page, e

\* The storage stays accounted for; the page has the data, the others are as
\* they were.
LEMMA RewrittenIsGood ==
    ASSUME NEW d \in GoodDisk, NEW e, NEW old \in Seq(Nat), IsOld(d, old),
           NEW page, page = WrittenPage(d, old), NEW pages, NEW bytes,
           Rewritten(d, e, old, page, pages, bytes)
    PROVE  /\ e \in GoodDisk
           /\ DOMAIN e.pageIndex = DOMAIN d.pageIndex \cup {page}
           /\ d.nextPage <= e.nextPage
           /\ loadByteArray(e, page) = bytes
           /\ \A p \in DOMAIN d.pageIndex \ {page} : SamePage(d, e, p)
<1>0. /\ d.nextPage \in Nat /\ d.emptyPages \in SUBSET Nat
      /\ d.emptyPages \subseteq 0..(d.nextPage - 1)
      /\ d.pageIndex \in [DOMAIN d.pageIndex -> Seq(Nat)]
      /\ DOMAIN d.blocks = 0..(d.nextPage - 1)
      /\ DOMAIN d.pageIndex \subseteq Nat
  BY DiskFields DEF GoodDisk, Accounted
<1>1. /\ pages \in Seq(Nat) /\ bytes \in Bytes /\ Len(pages) = Len(bytes)
      /\ pages[1] = page
      /\ \A i, j \in 1..Len(pages) : pages[i] = pages[j] => i = j
      /\ e.nextPage \in Nat /\ d.nextPage <= e.nextPage
      /\ e.emptyPages = (d.emptyPages \cup Range(old)) \ Range(pages)
  BY DEF Rewritten
<1>2. /\ DOMAIN e.pageIndex = DOMAIN d.pageIndex \cup {page}
      /\ \A p \in DOMAIN e.pageIndex :
            e.pageIndex[p] = IF p = page THEN pages ELSE d.pageIndex[p]
      /\ DOMAIN e.blocks = DOMAIN d.blocks \cup Range(pages)
      /\ \A i \in 1..Len(pages) : e.blocks[pages[i]] = bytes[i]
      /\ \A b \in DOMAIN d.blocks \ Range(pages) : e.blocks[b] = d.blocks[b]
  BY DEF Rewritten
<1>3. /\ \A i \in 1..Len(pages) :
            \/ pages[i] \in Range(old)
            \/ pages[i] \in d.emptyPages
            \/ pages[i] \in d.nextPage..(e.nextPage - 1)
      /\ \A b \in d.nextPage..(e.nextPage - 1) : b \in Range(pages)
  BY DEF Rewritten
<1>4. /\ DOMAIN pages = 1..Len(pages) /\ Len(pages) \in Nat /\ 1 \in 1..Len(pages)
      /\ \A i \in 1..Len(pages) : pages[i] \in Nat /\ pages[i] \in Range(pages)
      /\ \A b \in Range(pages) : \E i \in 1..Len(pages) : pages[i] = b
      /\ pages # <<>> /\ page \in Nat
  <2>1. bytes # <<>> /\ \E S : bytes \in Seq(S)
    BY <1>1 DEF Bytes
  <2>2. Len(bytes) \in Nat \ {0}
    BY <2>1, EmptySeq, LenProperties
  <2>3. DOMAIN pages = 1..Len(pages)
    BY <1>1, LenProperties
  <2>4. Len(pages) \in Nat /\ 1 \in 1..Len(pages)
    BY <2>2, <1>1
  <2>5. \A i \in 1..Len(pages) : pages[i] \in Nat
    BY <1>1, ElementOfSeq
  <2>6. pages # <<>>
    BY <1>1, <2>2, EmptySeq
  <2>7. page \in Nat
    BY <2>4, <2>5, <1>1
  <2>8. /\ \A i \in 1..Len(pages) : pages[i] \in Range(pages)
        /\ \A b \in Range(pages) : \E i \in 1..Len(pages) : pages[i] = b
    BY <2>3 DEF Range
  <2> QED
    BY <2>3, <2>4, <2>5, <2>6, <2>7, <2>8
\* The old blocks are those of the page.
<1>5. /\ page \in DOMAIN d.pageIndex => old = d.pageIndex[page]
      /\ page \notin DOMAIN d.pageIndex => old = <<>>
  <2>1. CASE old = <<>>
    <3>1. page = First(d) /\ page \notin DOMAIN d.pageIndex
      BY <2>1, NewPageIsFirst DEF WrittenPage
    <3> QED
      BY <2>1, <3>1
  <2>2. CASE old # <<>>
    <3>1. PICK p \in DOMAIN d.pageIndex : old = d.pageIndex[p]
      BY <2>2 DEF IsOld
    <3>2. d.pageIndex[p][1] = p
      BY <3>1 DEF GoodDisk, Accounted
    <3>3. page = p
      BY <2>2, <3>1, <3>2 DEF WrittenPage
    <3> QED
      BY <3>1, <3>3
  <2> QED
    BY <2>1, <2>2
<1>6. /\ \A p \in DOMAIN d.pageIndex :
            /\ d.pageIndex[p] \in Seq(Nat)
            /\ d.pageIndex[p] # <<>> /\ d.pageIndex[p][1] = p
      /\ \A p, q \in DOMAIN d.pageIndex :
            \A i \in DOMAIN d.pageIndex[p], j \in DOMAIN d.pageIndex[q] :
               d.pageIndex[p][i] = d.pageIndex[q][j] => p = q /\ i = j
      /\ \A p \in DOMAIN d.pageIndex : \A i \in DOMAIN d.pageIndex[p] :
            d.pageIndex[p][i] \in 0..(d.nextPage - 1) \ d.emptyPages
      /\ \A b \in 0..(d.nextPage - 1) :
            \/ b \in d.emptyPages
            \/ \E p \in DOMAIN d.pageIndex : \E i \in DOMAIN d.pageIndex[p] :
                  d.pageIndex[p][i] = b
  BY <1>0 DEF GoodDisk, Accounted
<1>7. ASSUME NEW b \in Range(old)
      PROVE  page \in DOMAIN d.pageIndex /\ \E i \in DOMAIN d.pageIndex[page] : d.pageIndex[page][i] = b
  <2>1. PICK i \in DOMAIN old : old[i] = b
    BY DEF Range
  <2>2. old # <<>>
    BY <2>1
  <2> QED
    BY <2>1, <2>2, <1>5
<1>8. ASSUME NEW i \in 1..Len(pages) PROVE pages[i] \in 0..(e.nextPage - 1)
  <2>1. CASE pages[i] \in Range(old)
    <3>1. PICK j \in DOMAIN d.pageIndex[page] :
             page \in DOMAIN d.pageIndex /\ d.pageIndex[page][j] = pages[i]
      BY <2>1, <1>7
    <3>2. pages[i] \in 0..(d.nextPage - 1)
      BY <3>1, <1>6
    <3> QED
      BY <3>2, <1>0, <1>1
  <2>2. CASE pages[i] \notin Range(old)
    BY <2>2, <1>3, <1>0, <1>1
  <2> QED
    BY <2>1, <2>2
\* A block of another page is not one of the old or of the new ones.
<1>9. ASSUME NEW p \in DOMAIN d.pageIndex, p # page, NEW k \in DOMAIN d.pageIndex[p]
      PROVE  /\ d.pageIndex[p][k] \in 0..(d.nextPage - 1)
             /\ d.pageIndex[p][k] \notin Range(old)
             /\ d.pageIndex[p][k] \notin Range(pages)
             /\ d.pageIndex[p][k] \notin d.emptyPages
  <2>1. d.pageIndex[p][k] \in 0..(d.nextPage - 1) /\ d.pageIndex[p][k] \notin d.emptyPages
    BY <1>6
  <2>2. d.pageIndex[p][k] \notin Range(old)
    BY <1>7, <1>6, <1>9
  <2>3. ASSUME NEW i \in 1..Len(pages) PROVE pages[i] # d.pageIndex[p][k]
    <3>1. CASE pages[i] \in Range(old)
      BY <3>1, <2>2
    <3>2. CASE pages[i] \in d.emptyPages
      BY <3>2, <2>1
    <3>3. CASE pages[i] \in d.nextPage..(e.nextPage - 1)
      BY <3>3, <2>1, <1>0
    <3> QED
      BY <3>1, <3>2, <3>3, <1>3
  <2> QED
    BY <2>1, <2>2, <2>3, <1>4
<1>10. \A p \in DOMAIN d.pageIndex \ {page} : SamePage(d, e, p)
  <2> SUFFICES ASSUME NEW p \in DOMAIN d.pageIndex, p # page PROVE SamePage(d, e, p)
    OBVIOUS
  <2>1. p \in DOMAIN e.pageIndex /\ e.pageIndex[p] = d.pageIndex[p]
    BY <1>2
  <2>2. ASSUME NEW k \in DOMAIN d.pageIndex[p]
        PROVE  e.blocks[d.pageIndex[p][k]] = d.blocks[d.pageIndex[p][k]]
    <3>1. /\ d.pageIndex[p][k] \in DOMAIN d.blocks
          /\ d.pageIndex[p][k] \notin Range(pages)
      BY <1>9, <1>0
    <3> QED
      BY <3>1, <1>2
  <2> QED
    BY <2>1, <2>2 DEF SamePage
<1>11. loadByteArray(e, page) = bytes
  <2>1. e.pageIndex[page] = pages
    BY <1>2
  <2>2. loadByteArray(e, page) = [i \in 1..Len(pages) |-> e.blocks[pages[i]]]
    BY <2>1, <1>4 DEF loadByteArray
  <2>3. \E S : bytes \in Seq(S)
    BY <1>1 DEF Bytes
  <2>4. bytes = [i \in 1..Len(bytes) |-> bytes[i]]
    BY <2>3, LenProperties
  <2> QED
    BY <2>2, <2>4, <1>1, <1>2
<1>12. e \in Disk
  <2>1. /\ e = [nextPage |-> e.nextPage, emptyPages |-> e.emptyPages,
                pageIndex |-> e.pageIndex, blocks |-> e.blocks]
        /\ e.pageIndex \in [DOMAIN e.pageIndex -> Seq(Nat)]
        /\ e.blocks \in [DOMAIN e.blocks -> Contents]
    BY DEF Rewritten
  <2>2. DOMAIN e.pageIndex \in SUBSET Nat
    BY <1>2, <1>0, <1>4
  <2>3. DOMAIN e.blocks \in SUBSET Nat
    BY <1>2, <1>0, <1>4
  <2>4. e.emptyPages \in SUBSET Nat
    <3>1. Range(old) \subseteq Nat
      BY <1>7, <1>6, <1>0
    <3> QED
      BY <3>1, <1>1, <1>0
  <2> QED
    BY <2>1, <2>2, <2>3, <2>4, <1>1 DEF Disk
<1>13. \A p \in DOMAIN e.pageIndex : e.pageIndex[p] # <<>> /\ e.pageIndex[p][1] = p
  BY <1>1, <1>2, <1>4, <1>6
<1>14. ASSUME NEW p \in DOMAIN e.pageIndex, NEW q \in DOMAIN e.pageIndex,
              NEW i \in DOMAIN e.pageIndex[p], NEW j \in DOMAIN e.pageIndex[q],
              e.pageIndex[p][i] = e.pageIndex[q][j]
       PROVE  p = q /\ i = j
  <2>1. CASE p = page /\ q = page
    <3>1. e.pageIndex[p] = pages /\ e.pageIndex[q] = pages
      BY <2>1, <1>2
    <3>2. i \in 1..Len(pages) /\ j \in 1..Len(pages) /\ pages[i] = pages[j]
      BY <3>1, <1>14, <1>4
    <3> QED
      BY <3>2, <2>1, <1>1
  <2>2. CASE p = page /\ q # page
    <3>1. q \in DOMAIN d.pageIndex /\ e.pageIndex[q] = d.pageIndex[q]
      BY <2>2, <1>2
    <3>2. e.pageIndex[p][i] \in Range(pages)
      BY <2>2, <1>2, <1>4
    <3> QED
      BY <3>1, <3>2, <1>9, <1>14, <2>2
  <2>3. CASE p # page /\ q = page
    <3>1. p \in DOMAIN d.pageIndex /\ e.pageIndex[p] = d.pageIndex[p]
      BY <2>3, <1>2
    <3>2. e.pageIndex[q][j] \in Range(pages)
      BY <2>3, <1>2, <1>4
    <3> QED
      BY <3>1, <3>2, <1>9, <1>14, <2>3
  <2>4. CASE p # page /\ q # page
    BY <2>4, <1>14, <1>2, <1>6
  <2> QED
    BY <2>1, <2>2, <2>3, <2>4
<1>15. ASSUME NEW p \in DOMAIN e.pageIndex, NEW i \in DOMAIN e.pageIndex[p]
       PROVE  e.pageIndex[p][i] \in 0..(e.nextPage - 1) \ e.emptyPages
  <2>1. CASE p = page
    BY <2>1, <1>1, <1>2, <1>4, <1>8
  <2>2. CASE p # page
    <3>1. p \in DOMAIN d.pageIndex /\ e.pageIndex[p] = d.pageIndex[p]
      BY <2>2, <1>2
    <3>2. /\ d.pageIndex[p][i] \in 0..(d.nextPage - 1)
          /\ d.pageIndex[p][i] \notin e.emptyPages
      BY <3>1, <2>2, <1>9, <1>1
    <3> QED
      BY <3>1, <3>2, <1>0, <1>1
  <2> QED
    BY <2>1, <2>2
<1>16. ASSUME NEW b \in 0..(e.nextPage - 1), b \notin e.emptyPages
       PROVE  \E p \in DOMAIN e.pageIndex : \E i \in DOMAIN e.pageIndex[p] :
                 e.pageIndex[p][i] = b
  <2>1. CASE b \in Range(pages)
    <3>1. PICK i \in 1..Len(pages) : pages[i] = b
      BY <2>1, <1>4
    <3>2. page \in DOMAIN e.pageIndex /\ e.pageIndex[page] = pages /\ i \in DOMAIN pages
      BY <3>1, <1>2, <1>4
    <3> QED
      BY <3>1, <3>2
  <2>2. CASE b \notin Range(pages)
    <3>1. b \in 0..(d.nextPage - 1)
      BY <2>2, <1>3, <1>0, <1>1
    <3>2. b \notin d.emptyPages /\ b \notin Range(old)
      BY <2>2, <1>16, <1>1
    <3>3. PICK p \in DOMAIN d.pageIndex : \E i \in DOMAIN d.pageIndex[p] :
             d.pageIndex[p][i] = b
      BY <3>1, <3>2, <1>6
    <3>4. p # page
      <4> SUFFICES ASSUME p = page PROVE FALSE
        OBVIOUS
      <4>1. old = d.pageIndex[p]
        BY <1>5, <3>3
      <4> QED
        BY <4>1, <3>2, <3>3 DEF Range
    <3>5. p \in DOMAIN e.pageIndex /\ e.pageIndex[p] = d.pageIndex[p]
      BY <3>3, <3>4, <1>2
    <3> QED
      BY <3>3, <3>5
  <2> QED
    BY <2>1, <2>2
<1>17. e.emptyPages \subseteq 0..(e.nextPage - 1)
  <2> SUFFICES ASSUME NEW b \in e.emptyPages PROVE b \in 0..(e.nextPage - 1)
    OBVIOUS
  <2>1. b \in 0..(d.nextPage - 1)
    BY <1>0, <1>1, <1>6, <1>7
  <2> QED
    BY <2>1, <1>0, <1>1
<1>18. DOMAIN e.blocks = 0..(e.nextPage - 1)
  <2>1. ASSUME NEW b \in Range(pages) PROVE b \in 0..(e.nextPage - 1)
    BY <1>4, <1>8
  <2>2. ASSUME NEW b \in 0..(e.nextPage - 1), b \notin Range(pages)
        PROVE  b \in 0..(d.nextPage - 1)
    BY <2>2, <1>3, <1>0, <1>1
  <2>3. 0..(d.nextPage - 1) \subseteq 0..(e.nextPage - 1)
    BY <1>0, <1>1
  <2> QED
    BY <2>1, <2>2, <2>3, <1>0, <1>2
<1>19. Accounted(e)
  BY <1>13, <1>14, <1>15, <1>16, <1>17, <1>18 DEF Accounted
<1> QED
  BY <1>1, <1>2, <1>10, <1>11, <1>12, <1>19 DEF GoodDisk

\* What the operations of the storage promise: a page is written over.
LEMMA PageStored ==
    ASSUME NEW d \in GoodDisk, NEW p \in DOMAIN d.pageIndex, NEW bytes \in Bytes,
           NEW e, e = storeByteArray(d, p, bytes)
    PROVE  /\ e \in GoodDisk
           /\ DOMAIN e.pageIndex = DOMAIN d.pageIndex
           /\ d.nextPage <= e.nextPage
           /\ loadByteArray(e, p) = bytes
           /\ \A q \in DOMAIN d.pageIndex \ {p} : SamePage(d, e, q)
<1> DEFINE old == d.pageIndex[p]
<1>1. /\ old \in Seq(Nat) /\ old # <<>> /\ old[1] = p
      /\ IsOld(d, old) /\ WrittenPage(d, old) = p
  BY DiskFields DEF GoodDisk, Accounted, IsOld, WrittenPage
<1>2. e = Write(d, old, bytes)
  BY DEF storeByteArray
<1> HIDE DEF old
<1>3. PICK pages : Rewritten(d, e, old, p, pages, bytes)
  BY <1>1, <1>2, WriteIsRewritten
<1>4. DOMAIN d.pageIndex \cup {p} = DOMAIN d.pageIndex
  OBVIOUS
<1> QED
  BY <1>1, <1>3, <1>4, RewrittenIsGood

\* A page is new.
LEMMA NewPageStored ==
    ASSUME NEW d \in GoodDisk, NEW bytes \in Bytes,
           NEW e, e = storeNewPage(d, bytes)
    PROVE  /\ e \in GoodDisk
           /\ NewPageOf(d) \notin DOMAIN d.pageIndex
           /\ DOMAIN e.pageIndex = DOMAIN d.pageIndex \cup {NewPageOf(d)}
           /\ d.nextPage <= e.nextPage
           /\ loadByteArray(e, NewPageOf(d)) = bytes
           /\ \A q \in DOMAIN d.pageIndex : SamePage(d, e, q)
<1>1. <<>> \in Seq(Nat) /\ IsOld(d, <<>>) /\ WrittenPage(d, <<>>) = NewPageOf(d)
  BY NewPageIsFirst DEF IsOld, WrittenPage
<1>2. e = Write(d, <<>>, bytes)
  BY DEF storeNewPage
<1>3. PICK pages : Rewritten(d, e, <<>>, NewPageOf(d), pages, bytes)
  BY <1>1, <1>2, WriteIsRewritten
<1>4. NewPageOf(d) \notin DOMAIN d.pageIndex
  BY NewPageIsFirst
<1>5. DOMAIN d.pageIndex \ {NewPageOf(d)} = DOMAIN d.pageIndex
  BY <1>4
<1>6. /\ e \in GoodDisk
      /\ DOMAIN e.pageIndex = DOMAIN d.pageIndex \cup {NewPageOf(d)}
      /\ d.nextPage <= e.nextPage
      /\ loadByteArray(e, NewPageOf(d)) = bytes
      /\ \A q \in DOMAIN d.pageIndex \ {NewPageOf(d)} : SamePage(d, e, q)
  BY <1>1, <1>3, RewrittenIsGood
<1> QED
  BY <1>4, <1>5, <1>6

\* A page that is the same in two storages is read the same.
LEMMA SamePageLoads ==
    ASSUME NEW d, NEW e, NEW p, SamePage(d, e, p)
    PROVE  loadByteArray(e, p) = loadByteArray(d, p)
  BY DEF SamePage, loadByteArray

\* Being the same is transitive.
LEMMA SamePageTransitive ==
    ASSUME NEW d, NEW e, NEW f, NEW p, SamePage(d, e, p), SamePage(e, f, p)
    PROVE  SamePage(d, f, p)
  BY DEF SamePage

\* The data of a page in use.
LEMMA PageLoaded ==
    ASSUME NEW d \in GoodDisk, NEW p \in DOMAIN d.pageIndex
    PROVE  /\ loadByteArray(d, p) \in Bytes
           /\ SamePage(d, d, p)
<1> DEFINE pages == d.pageIndex[p]
<1>1. /\ pages \in Seq(Nat) /\ pages # <<>>
      /\ \A i \in DOMAIN pages : pages[i] \in DOMAIN d.blocks
      /\ \A b \in DOMAIN d.blocks : d.blocks[b] \in Contents
  BY DiskFields DEF GoodDisk, Accounted
<1>2. loadByteArray(d, p) = [i \in DOMAIN pages |-> d.blocks[pages[i]]]
  BY DEF loadByteArray
<1> HIDE DEF pages
<1> DEFINE bytes == [i \in DOMAIN pages |-> d.blocks[pages[i]]]
<1>3. DOMAIN pages = 1..Len(pages) /\ Len(pages) \in Nat /\ Len(pages) # 0
  BY <1>1, EmptySeq, LenProperties
<1>4. bytes \in Seq(Contents) /\ bytes # <<>>
  <2>1. bytes \in [1..Len(pages) -> Contents]
    BY <1>1, <1>3
  <2>2. bytes \in Seq(Contents)
    <3> HIDE DEF bytes
    <3> QED
      BY <2>1, <1>3, IsASeq
  <2>3. DOMAIN bytes = 1..Len(pages) /\ 1 \in DOMAIN bytes
    BY <1>3
  <2>4. bytes # <<>>
    <3> HIDE DEF bytes
    <3> QED
      BY <2>2, <2>3, EmptySeq, LenProperties
  <2> QED
    BY <2>2, <2>4
<1> QED
  BY <1>2, <1>4 DEF Bytes, SamePage

\* A page is deleted: its blocks are free.
LEMMA PageDeleted ==
    ASSUME NEW d \in GoodDisk, NEW p \in DOMAIN d.pageIndex,
           NEW e, e = deleteByteArray(d, p)
    PROVE  /\ e \in GoodDisk
           /\ DOMAIN e.pageIndex = DOMAIN d.pageIndex \ {p}
           /\ d.nextPage = e.nextPage
           /\ \A q \in DOMAIN d.pageIndex \ {p} : SamePage(d, e, q)
<1>0. /\ d.nextPage \in Nat /\ d.emptyPages \in SUBSET Nat
      /\ d.pageIndex \in [DOMAIN d.pageIndex -> Seq(Nat)]
      /\ d.blocks \in [DOMAIN d.blocks -> Contents]
      /\ DOMAIN d.blocks \in SUBSET Nat
      /\ DOMAIN d.pageIndex \subseteq Nat
      /\ d = [nextPage |-> d.nextPage, emptyPages |-> d.emptyPages,
              pageIndex |-> d.pageIndex, blocks |-> d.blocks]
  BY DiskFields DEF GoodDisk, Disk
<1> DEFINE idx == [q \in DOMAIN d.pageIndex \ {p} |-> d.pageIndex[q]]
           freed == Range(d.pageIndex[p])
<1>1. e = [nextPage |-> d.nextPage, emptyPages |-> d.emptyPages \cup freed,
           pageIndex |-> idx, blocks |-> d.blocks]
  BY <1>0 DEF deleteByteArray, Restrict
<1>2. /\ DOMAIN idx = DOMAIN d.pageIndex \ {p}
      /\ \A q \in DOMAIN idx : idx[q] = d.pageIndex[q]
      /\ idx \in [DOMAIN idx -> Seq(Nat)]
  BY <1>0
<1> HIDE DEF idx
<1>3. /\ \A q \in DOMAIN d.pageIndex : d.pageIndex[q] # <<>> /\ d.pageIndex[q][1] = q
      /\ \A q, r \in DOMAIN d.pageIndex :
            \A i \in DOMAIN d.pageIndex[q], j \in DOMAIN d.pageIndex[r] :
               d.pageIndex[q][i] = d.pageIndex[r][j] => q = r /\ i = j
      /\ \A q \in DOMAIN d.pageIndex : \A i \in DOMAIN d.pageIndex[q] :
            d.pageIndex[q][i] \in 0..(d.nextPage - 1) \ d.emptyPages
      /\ \A b \in 0..(d.nextPage - 1) :
            \/ b \in d.emptyPages
            \/ \E q \in DOMAIN d.pageIndex : \E i \in DOMAIN d.pageIndex[q] :
                  d.pageIndex[q][i] = b
      /\ d.emptyPages \subseteq 0..(d.nextPage - 1)
      /\ DOMAIN d.blocks = 0..(d.nextPage - 1)
  BY DEF GoodDisk, Accounted
<1>4. /\ \A b \in freed : \E i \in DOMAIN d.pageIndex[p] : d.pageIndex[p][i] = b
      /\ \A i \in DOMAIN d.pageIndex[p] : d.pageIndex[p][i] \in freed
  BY DEF Range
<1> HIDE DEF freed
<1>5. freed \subseteq 0..(d.nextPage - 1)
  BY <1>3, <1>4
<1>6. e.nextPage = d.nextPage /\ e.emptyPages = d.emptyPages \cup freed
      /\ e.pageIndex = idx /\ e.blocks = d.blocks
  BY <1>1
<1>7. ASSUME NEW q \in DOMAIN idx, NEW i \in DOMAIN idx[q]
      PROVE  idx[q][i] \in 0..(d.nextPage - 1) \ (d.emptyPages \cup freed)
  <2>1. q \in DOMAIN d.pageIndex /\ q # p /\ idx[q] = d.pageIndex[q]
    BY <1>2
  <2>2. idx[q][i] \in 0..(d.nextPage - 1) \ d.emptyPages
    BY <2>1, <1>3
  <2>3. idx[q][i] \notin freed
    BY <2>1, <1>3, <1>4
  <2> QED
    BY <2>2, <2>3
<1>8. ASSUME NEW b \in 0..(d.nextPage - 1), b \notin d.emptyPages, b \notin freed
      PROVE  \E q \in DOMAIN idx : \E i \in DOMAIN idx[q] : idx[q][i] = b
  <2>1. PICK q \in DOMAIN d.pageIndex : \E i \in DOMAIN d.pageIndex[q] :
           d.pageIndex[q][i] = b
    BY <1>8, <1>3
  <2>2. q # p
    BY <2>1, <1>8, <1>4
  <2>3. q \in DOMAIN idx /\ idx[q] = d.pageIndex[q]
    BY <2>1, <2>2, <1>2
  <2> QED
    BY <2>1, <2>3
<1>9. Accounted(e)
  <2>1. \A q \in DOMAIN idx : idx[q] # <<>> /\ idx[q][1] = q
    BY <1>2, <1>3
  <2>2. \A q, r \in DOMAIN idx :
           \A i \in DOMAIN idx[q], j \in DOMAIN idx[r] :
              idx[q][i] = idx[r][j] => q = r /\ i = j
    BY <1>2, <1>3
  <2>3. e.emptyPages \subseteq 0..(e.nextPage - 1)
    BY <1>3, <1>5, <1>6
  <2> QED
    BY <1>3, <1>6, <1>7, <1>8, <2>1, <2>2, <2>3 DEF Accounted
<1>10. e \in Disk
  <2>1. DOMAIN idx \in SUBSET Nat /\ d.emptyPages \cup freed \in SUBSET Nat
    BY <1>0, <1>2, <1>5
  <2>2. /\ idx \in UNION {[P -> Seq(Nat)] : P \in SUBSET Nat}
        /\ d.blocks \in UNION {[B -> Contents] : B \in SUBSET Nat}
    BY <1>0, <1>2, <2>1
  <2> QED
    BY <1>0, <1>1, <2>1, <2>2 DEF Disk
<1>11. ASSUME NEW q \in DOMAIN d.pageIndex \ {p} PROVE SamePage(d, e, q)
  BY <1>2, <1>6 DEF SamePage
<1> QED
  BY <1>2, <1>6, <1>9, <1>10, <1>11 DEF GoodDisk

-----------------------------------------------------------------------------
(* The buffer                                                              *)

\* A page for which there is nothing to write is left as it is.
Undisturbed(k, r, p) ==
    Unwritten(k, p) => SamePage(k.d, r.d, p) /\ Unwritten(r, p)

\* An entry is removed, and written if it is dirty: the user does not see it.
LEMMA EntryRemoved ==
    ASSUME NEW k, GoodBuffer(k), NEW v \in DOMAIN k.entries,
           NEW r, r = removeEntry(k, v)
    PROVE  /\ GoodBuffer(r)
           /\ DOMAIN r.d.pageIndex = DOMAIN k.d.pageIndex
           /\ k.d.nextPage <= r.d.nextPage
           /\ DOMAIN r.entries = DOMAIN k.entries \ {v}
           /\ Cardinality(DOMAIN r.entries) = Cardinality(DOMAIN k.entries) - 1
           /\ \A p \in DOMAIN k.d.pageIndex : Cached(r, p) = Cached(k, p)
           /\ \A p \in DOMAIN k.d.pageIndex : Undisturbed(k, r, p)
<1>0. /\ k.d \in GoodDisk
      /\ k.entries \in [DOMAIN k.entries -> Entry]
      /\ DOMAIN k.entries \subseteq DOMAIN k.d.pageIndex
      /\ IsFiniteSet(DOMAIN k.entries) /\ Cardinality(DOMAIN k.entries) <= Capacity
      /\ \A p \in DOMAIN k.entries :
            ~ k.entries[p].dirty => k.entries[p].data = loadByteArray(k.d, p)
      /\ \A p \in DOMAIN k.entries :
            k.entries[p].data \in Bytes /\ k.entries[p].dirty \in BOOLEAN
  BY DEF GoodBuffer, Entry
<1> DEFINE rest == [p \in DOMAIN k.entries \ {v} |-> k.entries[p]]
           d == WriteBack(k, v)
<1>1. r = [entries |-> rest, d |-> d]
  BY DEF removeEntry, Restrict
<1>2. /\ r.entries = rest /\ r.d = d /\ r = [entries |-> r.entries, d |-> r.d]
      /\ DOMAIN rest = DOMAIN k.entries \ {v}
      /\ \A p \in DOMAIN rest : rest[p] = k.entries[p]
      /\ rest \in [DOMAIN rest -> Entry]
  BY <1>0, <1>1
<1>3. /\ d \in GoodDisk /\ DOMAIN d.pageIndex = DOMAIN k.d.pageIndex
      /\ k.d.nextPage <= d.nextPage
      /\ loadByteArray(d, v) = k.entries[v].data
      /\ \A p \in DOMAIN k.d.pageIndex \ {v} : SamePage(k.d, d, p)
      /\ ~ k.entries[v].dirty => SamePage(k.d, d, v)
  <2>1. CASE k.entries[v].dirty
    <3>1. d = storeByteArray(k.d, v, k.entries[v].data)
      BY <2>1 DEF WriteBack
    <3> HIDE DEF d
    <3>2. v \in DOMAIN k.d.pageIndex /\ k.entries[v].data \in Bytes
      BY <1>0
    <3> QED
      BY <2>1, <3>1, <3>2, <1>0, PageStored
  <2>2. CASE ~ k.entries[v].dirty
    <3>1. d = k.d
      BY <2>2 DEF WriteBack
    <3> HIDE DEF d
    <3>2. d.nextPage \in Nat
      BY <3>1, <1>0, DiskFields DEF GoodDisk
    <3>3. \A p \in DOMAIN k.d.pageIndex : SamePage(k.d, d, p)
      BY <3>1, <1>0, PageLoaded
    <3>4. loadByteArray(d, v) = k.entries[v].data
      BY <2>2, <3>1, <1>0
    <3> QED
      BY <2>2, <3>1, <3>2, <3>3, <3>4, <1>0
  <2> QED
    BY <2>1, <2>2
<1> HIDE DEF rest, d
<1>4. /\ IsFiniteSet(DOMAIN rest)
      /\ Cardinality(DOMAIN rest) = Cardinality(DOMAIN k.entries) - 1
      /\ Cardinality(DOMAIN k.entries) \in Nat
  BY <1>0, <1>2, FS_RemoveElement, FS_CardinalityType
<1>5. \A p \in DOMAIN rest : ~ rest[p].dirty => rest[p].data = loadByteArray(d, p)
  <2> SUFFICES ASSUME NEW p \in DOMAIN rest, ~ rest[p].dirty
               PROVE  rest[p].data = loadByteArray(d, p)
    OBVIOUS
  <2>1. p \in DOMAIN k.entries /\ p # v /\ rest[p] = k.entries[p]
    BY <1>2
  <2>2. SamePage(k.d, d, p)
    BY <2>1, <1>0, <1>3
  <2> QED
    BY <2>1, <2>2, <1>0, SamePageLoads
<1>6. GoodBuffer(r)
  <2>1. Cardinality(DOMAIN rest) <= Capacity
    BY <1>0, <1>4, BufferAssumption
  <2>2. DOMAIN rest \subseteq DOMAIN d.pageIndex
    BY <1>0, <1>2, <1>3
  <2> QED
    BY <1>2, <1>3, <1>4, <1>5, <2>1, <2>2 DEF GoodBuffer
<1>7. ASSUME NEW p \in DOMAIN k.d.pageIndex PROVE Cached(r, p) = Cached(k, p)
  <2>1. CASE p = v
    BY <2>1, <1>2, <1>3 DEF Cached
  <2>2. CASE p # v /\ p \in DOMAIN k.entries
    BY <2>2, <1>2 DEF Cached
  <2>3. CASE p # v /\ p \notin DOMAIN k.entries
    <3>1. loadByteArray(d, p) = loadByteArray(k.d, p)
      BY <2>3, <1>3, SamePageLoads
    <3> QED
      BY <3>1, <2>3, <1>2 DEF Cached
  <2> QED
    BY <2>1, <2>2, <2>3
<1>8. ASSUME NEW p \in DOMAIN k.d.pageIndex PROVE Undisturbed(k, r, p)
  <2>1. Unwritten(k, p) => SamePage(k.d, d, p)
    BY <1>3 DEF Unwritten
  <2>2. Unwritten(k, p) => Unwritten(r, p)
    BY <1>2 DEF Unwritten
  <2> QED
    BY <2>1, <2>2, <1>2 DEF Undisturbed
<1> QED
  BY <1>2, <1>3, <1>4, <1>6, <1>7, <1>8

\* An entry is added to a buffer that has room for it.
LEMMA EntryPut ==
    ASSUME NEW k, GoodBuffer(k), NEW page \in DOMAIN k.d.pageIndex,
           page \notin DOMAIN k.entries, Cardinality(DOMAIN k.entries) < Capacity,
           NEW e \in Entry, ~ e.dirty => e.data = loadByteArray(k.d, page),
           NEW r, r = [k EXCEPT !.entries = Put(@, page, e)]
    PROVE  /\ GoodBuffer(r)
           /\ r.d = k.d
           /\ \A p \in DOMAIN k.d.pageIndex :
                 Cached(r, p) = IF p = page THEN e.data ELSE Cached(k, p)
           /\ \A p \in DOMAIN k.d.pageIndex :
                 (p = page => ~ e.dirty) => Undisturbed(k, r, p)
<1>0. /\ k.d \in GoodDisk
      /\ k = [entries |-> k.entries, d |-> k.d]
      /\ k.entries \in [DOMAIN k.entries -> Entry]
      /\ DOMAIN k.entries \subseteq DOMAIN k.d.pageIndex
      /\ IsFiniteSet(DOMAIN k.entries)
      /\ \A p \in DOMAIN k.entries :
            ~ k.entries[p].dirty => k.entries[p].data = loadByteArray(k.d, p)
  BY DEF GoodBuffer
<1> DEFINE more == Put(k.entries, page, e)
<1>1. r = [entries |-> more, d |-> k.d]
  <2> HIDE DEF more
  <2>1. r = [k EXCEPT !.entries = more]
    BY DEF more
  <2> QED
    BY <2>1, <1>0
<1>2. /\ DOMAIN more = DOMAIN k.entries \cup {page}
      /\ \A p \in DOMAIN more : more[p] = IF p = page THEN e ELSE k.entries[p]
      /\ more \in [DOMAIN more -> Entry]
  BY <1>0 DEF Put, Over
<1> HIDE DEF more
<1>3. r.entries = more /\ r.d = k.d
  BY <1>1
<1>4. /\ IsFiniteSet(DOMAIN more)
      /\ Cardinality(DOMAIN more) <= Capacity
  <2>1. /\ IsFiniteSet(DOMAIN k.entries \cup {page})
        /\ Cardinality(DOMAIN k.entries \cup {page}) = Cardinality(DOMAIN k.entries) + 1
        /\ Cardinality(DOMAIN k.entries) \in Nat
    BY <1>0, FS_AddElement, FS_CardinalityType
  <2> QED
    BY <2>1, <1>2, BufferAssumption
<1>5. \A p \in DOMAIN more : ~ more[p].dirty => more[p].data = loadByteArray(k.d, p)
  BY <1>0, <1>2
<1>6. GoodBuffer(r)
  BY <1>0, <1>1, <1>2, <1>3, <1>4, <1>5 DEF GoodBuffer
<1>7. ASSUME NEW p \in DOMAIN k.d.pageIndex
      PROVE  Cached(r, p) = IF p = page THEN e.data ELSE Cached(k, p)
  BY <1>2, <1>3 DEF Cached
<1>8. ASSUME NEW p \in DOMAIN k.d.pageIndex, p = page => ~ e.dirty
      PROVE  Undisturbed(k, r, p)
  <2>1. SamePage(k.d, k.d, p)
    BY <1>0, PageLoaded
  <2> QED
    BY <2>1, <1>2, <1>3, <1>8 DEF Undisturbed, Unwritten
<1> QED
  BY <1>3, <1>6, <1>7, <1>8

\* An entry is added, whichever entry is evicted if the buffer is full: the user
\* sees no other change.
LEMMA EntryAdded ==
    ASSUME NEW k, GoodBuffer(k), NEW page \in DOMAIN k.d.pageIndex,
           page \notin DOMAIN k.entries,
           NEW e \in Entry, ~ e.dirty => e.data = loadByteArray(k.d, page),
           NEW r \in addEntry(k, page, e)
    PROVE  /\ GoodBuffer(r)
           /\ DOMAIN r.d.pageIndex = DOMAIN k.d.pageIndex
           /\ k.d.nextPage <= r.d.nextPage
           /\ \A p \in DOMAIN k.d.pageIndex :
                 Cached(r, p) = IF p = page THEN e.data ELSE Cached(k, p)
           /\ \A p \in DOMAIN k.d.pageIndex :
                 (p = page => ~ e.dirty) => Undisturbed(k, r, p)
<1>0. /\ IsFiniteSet(DOMAIN k.entries) /\ Cardinality(DOMAIN k.entries) \in Nat
      /\ Cardinality(DOMAIN k.entries) <= Capacity
      /\ k.d.nextPage \in Nat
  BY FS_CardinalityType, DiskFields DEF GoodBuffer, GoodDisk
<1>1. CASE Cardinality(DOMAIN k.entries) = Capacity
  <2>1. PICK v \in DOMAIN k.entries :
           r = [removeEntry(k, v) EXCEPT !.entries = Put(@, page, e)]
    BY <1>1 DEF addEntry
  <2>2. PICK m : m = removeEntry(k, v)
    OBVIOUS
  <2>3. /\ GoodBuffer(m)
        /\ DOMAIN m.d.pageIndex = DOMAIN k.d.pageIndex
        /\ k.d.nextPage <= m.d.nextPage
        /\ DOMAIN m.entries = DOMAIN k.entries \ {v}
        /\ Cardinality(DOMAIN m.entries) = Cardinality(DOMAIN k.entries) - 1
        /\ \A p \in DOMAIN k.d.pageIndex : Cached(m, p) = Cached(k, p)
        /\ \A p \in DOMAIN k.d.pageIndex : Undisturbed(k, m, p)
    BY <2>1, <2>2, EntryRemoved
  <2>4. /\ r = [m EXCEPT !.entries = Put(@, page, e)]
        /\ page \in DOMAIN m.d.pageIndex /\ page \notin DOMAIN m.entries
        /\ Cardinality(DOMAIN m.entries) < Capacity
    BY <2>1, <2>2, <2>3, <1>0, <1>1, BufferAssumption
  <2>5. ~ e.dirty => e.data = loadByteArray(m.d, page)
    <3>1. Unwritten(k, page) /\ Undisturbed(k, m, page)
      BY <2>3 DEF Unwritten
    <3>2. SamePage(k.d, m.d, page)
      BY <3>1 DEF Undisturbed
    <3> QED
      BY <3>2, SamePageLoads
  <2>6. /\ GoodBuffer(r)
        /\ r.d = m.d
        /\ \A p \in DOMAIN m.d.pageIndex :
              Cached(r, p) = IF p = page THEN e.data ELSE Cached(m, p)
        /\ \A p \in DOMAIN m.d.pageIndex :
              (p = page => ~ e.dirty) => Undisturbed(m, r, p)
    <3>1. GoodBuffer(m)
      BY <2>3
    <3> QED
      BY ONLY e \in Entry, <3>1, <2>4, <2>5, EntryPut
  <2>7. ASSUME NEW p \in DOMAIN k.d.pageIndex, p = page => ~ e.dirty
        PROVE  Undisturbed(k, r, p)
    <3>1. Undisturbed(k, m, p) /\ Undisturbed(m, r, p)
      BY <2>3, <2>6, <2>7
    <3> QED
      BY <3>1, SamePageTransitive DEF Undisturbed
  <2>8. ASSUME NEW p \in DOMAIN k.d.pageIndex
        PROVE  Cached(r, p) = IF p = page THEN e.data ELSE Cached(k, p)
    BY <2>3, <2>6
  <2> QED
    BY <2>3, <2>6, <2>7, <2>8
<1>2. CASE Cardinality(DOMAIN k.entries) # Capacity
  <2>1. /\ r = [k EXCEPT !.entries = Put(@, page, e)]
        /\ Cardinality(DOMAIN k.entries) < Capacity
    BY <1>0, <1>2, BufferAssumption DEF addEntry
  <2>2. /\ GoodBuffer(r)
        /\ r.d = k.d
        /\ \A p \in DOMAIN k.d.pageIndex :
              Cached(r, p) = IF p = page THEN e.data ELSE Cached(k, p)
        /\ \A p \in DOMAIN k.d.pageIndex :
              (p = page => ~ e.dirty) => Undisturbed(k, r, p)
    BY <2>1, EntryPut
  <2> QED
    BY <2>2, <1>0
<1> QED
  BY <1>1, <1>2

\* The storage under the buffer changes, but not in the pages of its entries.
LEMMA DiskReplaced ==
    ASSUME NEW k, GoodBuffer(k), NEW e \in GoodDisk,
           \A p \in DOMAIN k.entries : SamePage(k.d, e, p),
           NEW r, r = [k EXCEPT !.d = e]
    PROVE  GoodBuffer(r) /\ r.d = e /\ r.entries = k.entries
<1>1. k = [entries |-> k.entries, d |-> k.d]
  BY DEF GoodBuffer
<1>2. r = [entries |-> k.entries, d |-> e]
  BY <1>1
<1>3. r.d = e /\ r.entries = k.entries /\ r = [entries |-> r.entries, d |-> r.d]
  BY <1>2
<1>4. DOMAIN k.entries \subseteq DOMAIN e.pageIndex
  BY DEF SamePage
<1>5. \A p \in DOMAIN k.entries :
         ~ k.entries[p].dirty => k.entries[p].data = loadByteArray(e, p)
  BY SamePageLoads DEF GoodBuffer
<1> QED
  BY <1>3, <1>4, <1>5 DEF GoodBuffer

\* Data are stored in a new page.
LEMMA NewDataStored ==
    ASSUME NEW k, GoodBuffer(k), NEW bytes \in Bytes, NEW r \in StoredNew(k, bytes),
           NEW page, page = NewPageOf(k.d)
    PROVE  /\ GoodBuffer(r)
           /\ page \notin DOMAIN k.d.pageIndex
           /\ DOMAIN r.d.pageIndex = DOMAIN k.d.pageIndex \cup {page}
           /\ k.d.nextPage <= r.d.nextPage
           /\ Cached(r, page) = bytes
           /\ \A p \in DOMAIN k.d.pageIndex :
                 Cached(r, p) = Cached(k, p) /\ Undisturbed(k, r, p)
<1>1. PICK e : e = storeNewPage(k.d, bytes)
  OBVIOUS
<1>2. PICK m : m = [k EXCEPT !.d = e]
  OBVIOUS
<1>3. k.d \in GoodDisk /\ DOMAIN k.entries \subseteq DOMAIN k.d.pageIndex
  BY DEF GoodBuffer
<1>4. /\ e \in GoodDisk
      /\ page \notin DOMAIN k.d.pageIndex
      /\ DOMAIN e.pageIndex = DOMAIN k.d.pageIndex \cup {page}
      /\ k.d.nextPage <= e.nextPage
      /\ loadByteArray(e, page) = bytes
      /\ \A q \in DOMAIN k.d.pageIndex : SamePage(k.d, e, q)
  BY <1>1, <1>3, NewPageStored
<1>5. GoodBuffer(m) /\ m.d = e /\ m.entries = k.entries
  BY <1>2, <1>3, <1>4, DiskReplaced
<1> DEFINE entry == [data |-> bytes, dirty |-> FALSE]
<1>6. r \in addEntry(m, page, entry)
  BY <1>1, <1>2 DEF StoredNew
<1>7. entry \in Entry /\ entry.data = bytes /\ ~ entry.dirty
  BY DEF Entry
<1> HIDE DEF entry
<1>8. page \in DOMAIN m.d.pageIndex /\ page \notin DOMAIN m.entries
      /\ entry.data = loadByteArray(m.d, page)
  BY <1>3, <1>4, <1>5, <1>7
<1>9. /\ GoodBuffer(r)
      /\ DOMAIN r.d.pageIndex = DOMAIN m.d.pageIndex
      /\ m.d.nextPage <= r.d.nextPage
      /\ \A p \in DOMAIN m.d.pageIndex :
            Cached(r, p) = IF p = page THEN entry.data ELSE Cached(m, p)
      /\ \A p \in DOMAIN m.d.pageIndex :
            (p = page => ~ entry.dirty) => Undisturbed(m, r, p)
  BY ONLY <1>5, <1>6, <1>7, <1>8, EntryAdded
<1>10. ASSUME NEW p \in DOMAIN k.d.pageIndex
       PROVE  Cached(r, p) = Cached(k, p) /\ Undisturbed(k, r, p)
  <2>1. p # page /\ p \in DOMAIN m.d.pageIndex /\ SamePage(k.d, m.d, p)
    BY <1>4, <1>5
  <2>2. Cached(m, p) = Cached(k, p)
    BY <2>1, <1>5, SamePageLoads DEF Cached
  <2>3. Undisturbed(m, r, p) /\ Cached(r, p) = Cached(m, p)
    BY <2>1, <1>9
  <2>4. Unwritten(k, p) => Unwritten(m, p)
    BY <1>5 DEF Unwritten
  <2> QED
    BY <2>1, <2>2, <2>3, <2>4, SamePageTransitive DEF Undisturbed
<1>11. k.d.nextPage <= r.d.nextPage
  <2>1. k.d.nextPage \in Nat /\ m.d.nextPage \in Nat /\ r.d.nextPage \in Nat
    BY <1>3, <1>4, <1>5, <1>9, DiskFields DEF GoodBuffer, GoodDisk
  <2> QED
    BY <2>1, <1>4, <1>5, <1>9
<1>12. Cached(r, page) = bytes
  BY <1>8, <1>9, <1>7
<1> QED
  BY <1>4, <1>5, <1>9, <1>10, <1>11, <1>12

\* Data are stored in a page in use, in either mode of the buffer.
LEMMA DataStored ==
    ASSUME NEW k, GoodBuffer(k), NEW page \in DOMAIN k.d.pageIndex,
           NEW bytes \in Bytes, NEW through \in BOOLEAN,
           NEW r \in Stored(k, page, bytes, through)
    PROVE  /\ GoodBuffer(r)
           /\ DOMAIN r.d.pageIndex = DOMAIN k.d.pageIndex
           /\ k.d.nextPage <= r.d.nextPage
           /\ Cached(r, page) = bytes
           /\ \A p \in DOMAIN k.d.pageIndex \ {page} :
                 Cached(r, p) = Cached(k, p) /\ Undisturbed(k, r, p)
<1> DEFINE e == [data |-> bytes, dirty |-> ~ through]
           d == IF through THEN storeByteArray(k.d, page, bytes) ELSE k.d
           m == [k EXCEPT !.d = d]
<1>0. /\ k.d \in GoodDisk /\ DOMAIN k.entries \subseteq DOMAIN k.d.pageIndex
      /\ k = [entries |-> k.entries, d |-> k.d]
      /\ k.entries \in [DOMAIN k.entries -> Entry]
      /\ IsFiniteSet(DOMAIN k.entries) /\ Cardinality(DOMAIN k.entries) <= Capacity
      /\ \A p \in DOMAIN k.entries :
            ~ k.entries[p].dirty => k.entries[p].data = loadByteArray(k.d, p)
  BY DEF GoodBuffer
<1>1. /\ d \in GoodDisk
      /\ DOMAIN d.pageIndex = DOMAIN k.d.pageIndex
      /\ k.d.nextPage <= d.nextPage
      /\ through => loadByteArray(d, page) = bytes
      /\ \A q \in DOMAIN k.d.pageIndex \ {page} : SamePage(k.d, d, q)
  <2>1. CASE through
    <3>1. d = storeByteArray(k.d, page, bytes)
      BY <2>1
    <3> HIDE DEF d
    <3> QED
      BY <3>1, <1>0, PageStored
  <2>2. CASE ~ through
    <3>1. d = k.d
      BY <2>2
    <3> HIDE DEF d
    <3>2. d.nextPage \in Nat
      BY <3>1, <1>0, DiskFields DEF GoodDisk
    <3> QED
      BY <2>2, <3>1, <3>2, <1>0, PageLoaded
  <2> QED
    BY <2>1, <2>2
<1>2. m = [entries |-> k.entries, d |-> d] /\ m.entries = k.entries /\ m.d = d
  BY <1>0
<1>3. /\ e \in Entry /\ e.data = bytes /\ (~ e.dirty => through)
  BY DEF Entry
<1>4. r \in IF page \in DOMAIN k.entries THEN {[m EXCEPT !.entries[page] = e]}
            ELSE addEntry(m, page, e)
  <2>1. CASE through
    BY <2>1, <1>2 DEF Stored
  <2>2. CASE ~ through
    <3>1. m = k
      BY <2>2, <1>0
    <3>2. r \in IF page \in DOMAIN k.entries THEN {[k EXCEPT !.entries[page] = e]}
                ELSE addEntry(k, page, e)
      BY <2>2 DEF Stored
    <3> HIDE DEF m, e
    <3> QED
      BY <3>1, <3>2
  <2> QED
    BY <2>1, <2>2
<1> HIDE DEF e, d
<1>5. ASSUME NEW p \in DOMAIN k.d.pageIndex \ {page}
      PROVE  /\ p \in DOMAIN m.d.pageIndex /\ SamePage(k.d, m.d, p)
             /\ Cached(m, p) = Cached(k, p)
             /\ Unwritten(k, p) => Unwritten(m, p)
  <2> HIDE DEF m
  <2>1. SamePage(k.d, m.d, p)
    BY <1>1, <1>2
  <2>2. p \in DOMAIN m.d.pageIndex
    BY <2>1 DEF SamePage
  <2>3. Cached(m, p) = Cached(k, p)
    BY <2>1, <1>2, SamePageLoads DEF Cached
  <2>4. Unwritten(k, p) => Unwritten(m, p)
    BY <1>2 DEF Unwritten
  <2> QED
    BY <2>1, <2>2, <2>3, <2>4
<1>6. CASE page \in DOMAIN k.entries
  <2> DEFINE changed == [k.entries EXCEPT ![page] = e]
  <2>1. r = [entries |-> changed, d |-> d]
    BY <1>2, <1>4, <1>6
  <2>2. /\ DOMAIN changed = DOMAIN k.entries
        /\ \A p \in DOMAIN k.entries : changed[p] = IF p = page THEN e ELSE k.entries[p]
        /\ changed \in [DOMAIN changed -> Entry]
    BY <1>0, <1>3, <1>6
  <2> HIDE DEF changed, m
  <2>3. r.entries = changed /\ r.d = d /\ r = [entries |-> r.entries, d |-> r.d]
    BY <2>1
  <2>4. ASSUME NEW p \in DOMAIN changed, ~ changed[p].dirty
        PROVE  changed[p].data = loadByteArray(d, p)
    <3>1. CASE p = page
      BY <3>1, <2>2, <2>4, <1>1, <1>3
    <3>2. CASE p # page
      <4>1. p \in DOMAIN k.entries /\ changed[p] = k.entries[p]
        BY <3>2, <2>2
      <4>2. SamePage(k.d, d, p)
        BY <3>2, <4>1, <1>0, <1>1
      <4> QED
        BY <4>1, <4>2, <2>4, <1>0, SamePageLoads
    <3> QED
      BY <3>1, <3>2
  <2>5. DOMAIN changed \subseteq DOMAIN d.pageIndex
    BY <2>2, <1>0, <1>1
  <2>6. GoodBuffer(r)
    BY <1>0, <1>1, <2>2, <2>3, <2>4, <2>5 DEF GoodBuffer
  <2>7. Cached(r, page) = bytes
    BY <1>3, <1>6, <2>2, <2>3 DEF Cached
  <2>8. ASSUME NEW p \in DOMAIN k.d.pageIndex \ {page}
        PROVE  Cached(r, p) = Cached(k, p) /\ Undisturbed(k, r, p)
    <3>1. SamePage(k.d, r.d, p)
      BY <1>1, <2>3
    <3>2. Cached(r, p) = Cached(k, p)
      BY <3>1, <2>2, <2>3, SamePageLoads DEF Cached
    <3>3. Unwritten(k, p) => Unwritten(r, p)
      BY <2>2, <2>3 DEF Unwritten
    <3> QED
      BY <3>1, <3>2, <3>3 DEF Undisturbed
  <2> QED
    BY <1>1, <2>3, <2>6, <2>7, <2>8
<1>7. CASE page \notin DOMAIN k.entries
  <2>1. m = [k EXCEPT !.d = d]
    OBVIOUS
  <2> HIDE DEF m
  <2>2. \A p \in DOMAIN k.entries : SamePage(k.d, d, p)
    BY <1>7, <1>0, <1>1
  <2>3. GoodBuffer(m)
    BY <2>1, <2>2, <1>1, DiskReplaced
  <2>4. /\ page \in DOMAIN m.d.pageIndex /\ page \notin DOMAIN m.entries
        /\ ~ e.dirty => e.data = loadByteArray(m.d, page)
        /\ r \in addEntry(m, page, e)
    BY <1>1, <1>2, <1>3, <1>4, <1>7
  <2>5. /\ GoodBuffer(r)
        /\ DOMAIN r.d.pageIndex = DOMAIN m.d.pageIndex
        /\ m.d.nextPage <= r.d.nextPage
        /\ \A p \in DOMAIN m.d.pageIndex :
              Cached(r, p) = IF p = page THEN e.data ELSE Cached(m, p)
        /\ \A p \in DOMAIN m.d.pageIndex :
              (p = page => ~ e.dirty) => Undisturbed(m, r, p)
    BY ONLY <1>3, <2>3, <2>4, EntryAdded
  <2>6. ASSUME NEW p \in DOMAIN k.d.pageIndex \ {page}
        PROVE  Cached(r, p) = Cached(k, p) /\ Undisturbed(k, r, p)
    <3>1. Undisturbed(m, r, p) /\ Cached(r, p) = Cached(m, p)
      BY <1>5, <2>5
    <3> QED
      BY <3>1, <1>5, SamePageTransitive DEF Undisturbed
  <2>7. k.d.nextPage <= r.d.nextPage
    <3>1. k.d.nextPage \in Nat /\ m.d.nextPage \in Nat /\ r.d.nextPage \in Nat
      BY <1>0, <1>1, <1>2, <2>5, DiskFields DEF GoodBuffer, GoodDisk
    <3> QED
      BY <3>1, <1>1, <1>2, <2>5
  <2>8. Cached(r, page) = bytes
    BY <2>4, <2>5, <1>3
  <2> QED
    BY <1>1, <1>2, <2>5, <2>6, <2>7, <2>8
<1> QED
  BY <1>6, <1>7

\* A page is loaded, which may evict another one.
LEMMA DataLoaded ==
    ASSUME NEW k, GoodBuffer(k), NEW page \in DOMAIN k.d.pageIndex,
           NEW r \in Loaded(k, page)
    PROVE  /\ GoodBuffer(r)
           /\ DOMAIN r.d.pageIndex = DOMAIN k.d.pageIndex
           /\ k.d.nextPage <= r.d.nextPage
           /\ \A p \in DOMAIN k.d.pageIndex :
                 Cached(r, p) = Cached(k, p) /\ Undisturbed(k, r, p)
<1>0. k.d \in GoodDisk /\ k.d.nextPage \in Nat
  BY DiskFields DEF GoodBuffer, GoodDisk
<1>1. CASE page \in DOMAIN k.entries
  <2>1. r = k
    BY <1>1 DEF Loaded
  <2>2. \A p \in DOMAIN k.d.pageIndex : SamePage(k.d, k.d, p)
    BY <1>0, PageLoaded
  <2> QED
    BY <2>1, <2>2, <1>0 DEF Undisturbed
<1>2. CASE page \notin DOMAIN k.entries
  <2> DEFINE e == [data |-> loadByteArray(k.d, page), dirty |-> FALSE]
  <2>1. r \in addEntry(k, page, e)
    BY <1>2 DEF Loaded
  <2>2. e \in Entry /\ ~ e.dirty /\ e.data = loadByteArray(k.d, page)
    BY <1>0, PageLoaded DEF Entry
  <2> HIDE DEF e
  <2>3. /\ GoodBuffer(r)
        /\ DOMAIN r.d.pageIndex = DOMAIN k.d.pageIndex
        /\ k.d.nextPage <= r.d.nextPage
        /\ \A p \in DOMAIN k.d.pageIndex :
              Cached(r, p) = IF p = page THEN e.data ELSE Cached(k, p)
        /\ \A p \in DOMAIN k.d.pageIndex :
              (p = page => ~ e.dirty) => Undisturbed(k, r, p)
    BY <2>1, <2>2, <1>2, EntryAdded
  <2>4. Cached(k, page) = e.data
    BY <1>2, <2>2 DEF Cached
  <2> QED
    BY <2>2, <2>3, <2>4
<1> QED
  BY <1>1, <1>2

\* A page is deleted, with its entry.
LEMMA DataDeleted ==
    ASSUME NEW k, GoodBuffer(k), NEW page \in DOMAIN k.d.pageIndex,
           NEW r, r = Deleted(k, page)
    PROVE  /\ GoodBuffer(r)
           /\ DOMAIN r.d.pageIndex = DOMAIN k.d.pageIndex \ {page}
           /\ k.d.nextPage = r.d.nextPage
           /\ \A p \in DOMAIN k.d.pageIndex \ {page} :
                 Cached(r, p) = Cached(k, p) /\ Undisturbed(k, r, p)
<1>0. /\ k.d \in GoodDisk /\ DOMAIN k.entries \subseteq DOMAIN k.d.pageIndex
      /\ k.entries \in [DOMAIN k.entries -> Entry]
      /\ IsFiniteSet(DOMAIN k.entries) /\ Cardinality(DOMAIN k.entries) <= Capacity
      /\ \A p \in DOMAIN k.entries :
            ~ k.entries[p].dirty => k.entries[p].data = loadByteArray(k.d, p)
  BY DEF GoodBuffer
<1>1. PICK d : d = deleteByteArray(k.d, page)
  OBVIOUS
<1>2. /\ d \in GoodDisk
      /\ DOMAIN d.pageIndex = DOMAIN k.d.pageIndex \ {page}
      /\ k.d.nextPage = d.nextPage
      /\ \A q \in DOMAIN k.d.pageIndex \ {page} : SamePage(k.d, d, q)
  BY <1>0, <1>1, PageDeleted
<1> DEFINE rest == [p \in DOMAIN k.entries \ {page} |-> k.entries[p]]
<1>3. r = [entries |-> rest, d |-> d]
  BY <1>1 DEF Deleted, Restrict
<1>4. /\ r.entries = rest /\ r.d = d /\ r = [entries |-> r.entries, d |-> r.d]
      /\ DOMAIN rest = DOMAIN k.entries \ {page}
      /\ \A p \in DOMAIN rest : rest[p] = k.entries[p]
      /\ rest \in [DOMAIN rest -> Entry]
  BY <1>0, <1>3
<1> HIDE DEF rest
<1>5. IsFiniteSet(DOMAIN rest) /\ Cardinality(DOMAIN rest) <= Capacity
  <2>1. /\ IsFiniteSet(DOMAIN rest)
        /\ Cardinality(DOMAIN rest) <= Cardinality(DOMAIN k.entries)
    BY <1>0, <1>4, FS_Subset
  <2>2. Cardinality(DOMAIN rest) \in Nat /\ Cardinality(DOMAIN k.entries) \in Nat
    BY <1>0, <2>1, FS_CardinalityType
  <2> QED
    BY <1>0, <2>1, <2>2, BufferAssumption
<1>6. ASSUME NEW p \in DOMAIN rest, ~ rest[p].dirty
      PROVE  rest[p].data = loadByteArray(d, p)
  <2>1. p \in DOMAIN k.entries /\ p # page /\ rest[p] = k.entries[p]
    BY <1>4
  <2>2. SamePage(k.d, d, p)
    BY <2>1, <1>0, <1>2
  <2> QED
    BY <2>1, <2>2, <1>0, <1>6, SamePageLoads
<1>7. DOMAIN rest \subseteq DOMAIN d.pageIndex
  BY <1>0, <1>2, <1>4
<1>8. GoodBuffer(r)
  BY <1>2, <1>4, <1>5, <1>6, <1>7 DEF GoodBuffer
<1>9. ASSUME NEW p \in DOMAIN k.d.pageIndex \ {page}
      PROVE  Cached(r, p) = Cached(k, p) /\ Undisturbed(k, r, p)
  <2>1. SamePage(k.d, r.d, p)
    BY <1>2, <1>4
  <2>2. Cached(r, p) = Cached(k, p)
    BY <2>1, <1>4, SamePageLoads DEF Cached
  <2>3. Unwritten(k, p) => Unwritten(r, p)
    BY <1>4 DEF Unwritten
  <2> QED
    BY <2>1, <2>2, <2>3 DEF Undisturbed
<1> QED
  BY <1>2, <1>4, <1>8, <1>9

-----------------------------------------------------------------------------
(* The files                                                               *)

\* An empty storage.
LEMMA NewStorageIsGood ==
    /\ NewStorage \in GoodDisk
    /\ NewStorage.pageIndex = <<>> /\ DOMAIN NewStorage.pageIndex = {}
    /\ NewStorage.nextPage = 0
<1> DEFINE d == NewStorage
<1>1. /\ d = [nextPage |-> 0, emptyPages |-> {}, pageIndex |-> <<>>, blocks |-> <<>>]
      /\ d.nextPage = 0 /\ d.emptyPages = {} /\ d.pageIndex = <<>> /\ d.blocks = <<>>
  BY DEF NewStorage
<1>2. DOMAIN <<>> = {} /\ <<>> \in [{} -> Seq(Nat)] /\ <<>> \in [{} -> Contents]
  OBVIOUS
<1> HIDE DEF d
<1>3. d \in Disk
  <2>1. /\ <<>> \in UNION {[P -> Seq(Nat)] : P \in SUBSET Nat}
        /\ <<>> \in UNION {[B -> Contents] : B \in SUBSET Nat}
    BY <1>2
  <2> QED
    BY <1>1, <2>1 DEF Disk
<1>4. 0..(0 - 1) = {}
  OBVIOUS
<1>5. Accounted(d)
  BY <1>1, <1>2, <1>4 DEF Accounted
<1> QED
  BY <1>1, <1>2, <1>3, <1>5 DEF GoodDisk, d

\* The fields of a storage that is loaded.
LEMMA LoadedFields ==
    ASSUME NEW x, NEW file
    PROVE  /\ LoadedStorage(x, file).nextPage = x.nextPage
           /\ LoadedStorage(x, file).emptyPages = x.emptyPages
           /\ LoadedStorage(x, file).pageIndex = x.pageIndex
           /\ LoadedStorage(x, file).blocks = file
  BY DEF LoadedStorage

\* What any data file gives with the index is accounted for.
LEMMA LoadedIsGood ==
    ASSUME NEW x, GoodIndex(x), NEW file \in DataFiles, DOMAIN file = 0..(x.nextPage - 1)
    PROVE  LoadedStorage(x, file) \in GoodDisk
<1>1. file \in [0..(x.nextPage - 1) -> Contents]
  BY DEF DataFiles
<1> QED
  BY <1>1 DEF GoodIndex

\* The index of a storage that is accounted for.
LEMMA IndexIsGood ==
    ASSUME NEW d \in GoodDisk, DOMAIN d.pageIndex \subseteq Page
    PROVE  /\ GoodIndex(IndexOf(d))
           /\ IndexOf(d).nextPage = d.nextPage /\ IndexOf(d).emptyPages = d.emptyPages
           /\ IndexOf(d).pageIndex = d.pageIndex /\ IndexOf(d).written
<1> DEFINE x == IndexOf(d)
<1>1. /\ x.nextPage = d.nextPage /\ x.emptyPages = d.emptyPages
      /\ x.pageIndex = d.pageIndex /\ x.written
  BY DEF IndexOf
<1> HIDE DEF x
<1>2. /\ d.nextPage \in Nat /\ d.emptyPages \in SUBSET Nat
      /\ d.pageIndex \in [DOMAIN d.pageIndex -> Seq(Nat)]
      /\ DOMAIN d.pageIndex \in SUBSET Nat
  BY DiskFields DEF GoodDisk
<1>3. ASSUME NEW blocks \in [0..(x.nextPage - 1) -> Contents]
      PROVE  LoadedStorage(x, blocks) \in GoodDisk
  <2> DEFINE e == LoadedStorage(x, blocks)
  <2>1. /\ e = [nextPage |-> d.nextPage, emptyPages |-> d.emptyPages,
                pageIndex |-> d.pageIndex, blocks |-> blocks]
        /\ e.nextPage = d.nextPage /\ e.emptyPages = d.emptyPages
        /\ e.pageIndex = d.pageIndex /\ e.blocks = blocks
    BY <1>1 DEF LoadedStorage
  <2> HIDE DEF e
  <2>2. DOMAIN blocks = 0..(d.nextPage - 1) /\ DOMAIN blocks \in SUBSET Nat
    BY <1>1, <1>2
  <2>3. Accounted(e)
    <3>1. Accounted(d)
      BY DEF GoodDisk
    <3> QED
      BY <3>1, <2>1, <2>2 DEF Accounted
  <2>4. /\ d.pageIndex \in UNION {[P -> Seq(Nat)] : P \in SUBSET Nat}
        /\ blocks \in UNION {[B -> Contents] : B \in SUBSET Nat}
    BY <1>2, <2>2
  <2>5. e \in Disk
    BY <1>2, <2>1, <2>4 DEF Disk
  <2> QED
    BY <2>3, <2>5 DEF GoodDisk, e
<1>4. GoodIndex(x)
  BY <1>1, <1>2, <1>3 DEF GoodIndex
<1> QED
  BY <1>1, <1>4 DEF x

\* Without an index there is no page.
LEMMA NoIndexIsGood ==
    /\ GoodIndex(NoIndex) /\ NoIndex.nextPage = 0 /\ ~ NoIndex.written
    /\ NoIndex.pageIndex = <<>> /\ DOMAIN NoIndex.pageIndex = {}
<1>1. /\ NoIndex.nextPage = 0 /\ NoIndex.emptyPages = {}
      /\ NoIndex.pageIndex = <<>> /\ ~ NoIndex.written
  BY DEF NoIndex
<1>2. DOMAIN <<>> = {} /\ 0..(0 - 1) = {}
  OBVIOUS
<1>3. ASSUME NEW blocks \in [0..(NoIndex.nextPage - 1) -> Contents]
      PROVE  LoadedStorage(NoIndex, blocks) \in GoodDisk
  <2>1. blocks = <<>>
    BY <1>1, <1>2
  <2>2. LoadedStorage(NoIndex, blocks) = NewStorage
    BY <1>1, <2>1 DEF LoadedStorage, NewStorage
  <2> QED
    BY <2>2, NewStorageIsGood
<1> QED
  BY <1>1, <1>2, <1>3 DEF GoodIndex

\* The blocks of a data file that the index knows of.
LEMMA DataFileBlocks ==
    ASSUME NEW x, x.nextPage \in Nat, NEW blocks \in DataFiles,
           NEW file, file = DataFile(x, blocks)
    PROVE  /\ file \in DataFiles /\ DOMAIN file = 0..(x.nextPage - 1)
           /\ \A b \in (0..(x.nextPage - 1)) \ x.emptyPages :
                 b \in DOMAIN blocks => file[b] = blocks[b]
<1>1. \A b \in DOMAIN blocks : blocks[b] \in Contents
  BY DEF DataFiles
<1>2. Stale \in Contents
  BY DEF Contents
<1>3. file \in [0..(x.nextPage - 1) -> Contents]
  BY <1>1, <1>2 DEF DataFile
<1>4. 0..(x.nextPage - 1) \in SUBSET Nat
  OBVIOUS
<1>5. file \in DataFiles /\ DOMAIN file = 0..(x.nextPage - 1)
  BY <1>3, <1>4 DEF DataFiles
<1>6. ASSUME NEW b \in (0..(x.nextPage - 1)) \ x.emptyPages, b \in DOMAIN blocks
      PROVE  file[b] = blocks[b]
  BY <1>6 DEF DataFile
<1> QED
  BY <1>5, <1>6

\* Whatever of the storage reached the data file: a block that was the same in
\* both before is.
LEMMA ReachedBlocks ==
    ASSUME NEW d \in GoodDisk, NEW x, x.nextPage \in Nat, NEW old \in DataFiles,
           NEW file \in Reached(d, x, old)
    PROVE  /\ file \in DataFiles /\ DOMAIN file = 0..(x.nextPage - 1)
           /\ \A b \in (0..(x.nextPage - 1)) \ x.emptyPages :
                 b \in DOMAIN old /\ old[b] = d.blocks[b] => file[b] = d.blocks[b]
<1>1. PICK W \in SUBSET DOMAIN d.blocks :
         file = DataFile(x, Over([i \in W |-> d.blocks[i]], old))
  BY DEF Reached
<1>2. PICK blocks : blocks = Over([i \in W |-> d.blocks[i]], old)
  OBVIOUS
<1>3. /\ d.blocks \in [DOMAIN d.blocks -> Contents] /\ DOMAIN d.blocks \in SUBSET Nat
      /\ old \in [DOMAIN old -> Contents] /\ DOMAIN old \in SUBSET Nat
  BY DiskFields DEF GoodDisk, DataFiles
<1>4. /\ DOMAIN blocks = W \cup DOMAIN old
      /\ \A b \in DOMAIN blocks : blocks[b] = IF b \in W THEN d.blocks[b] ELSE old[b]
      /\ blocks \in [DOMAIN blocks -> Contents]
  BY <1>2, <1>3 DEF Over
<1>5. blocks \in DataFiles
  <2>1. DOMAIN blocks \in SUBSET Nat
    BY <1>3, <1>4
  <2> QED
    BY <2>1, <1>4 DEF DataFiles
<1>6. /\ file \in DataFiles /\ DOMAIN file = 0..(x.nextPage - 1)
      /\ \A b \in (0..(x.nextPage - 1)) \ x.emptyPages :
            b \in DOMAIN blocks => file[b] = blocks[b]
  BY <1>1, <1>2, <1>5, DataFileBlocks
<1> QED
  BY <1>4, <1>6

\* A page in the data file of which some of the storage reached the file.
LEMMA PageReached ==
    ASSUME NEW d \in GoodDisk, NEW x, GoodIndex(x), NEW file \in DataFiles,
           DOMAIN file = 0..(x.nextPage - 1),
           NEW p \in DOMAIN x.pageIndex, p \in DOMAIN d.pageIndex,
           d.pageIndex[p] = x.pageIndex[p],
           \A i \in DOMAIN d.pageIndex[p] :
              d.pageIndex[p][i] \in (0..(x.nextPage - 1)) \ x.emptyPages =>
                 file[d.pageIndex[p][i]] = d.blocks[d.pageIndex[p][i]]
    PROVE  SamePage(d, LoadedStorage(x, file), p)
<1> DEFINE e == LoadedStorage(x, file)
<1>1. /\ e \in GoodDisk /\ e.nextPage = x.nextPage /\ e.emptyPages = x.emptyPages
      /\ e.pageIndex = x.pageIndex /\ e.blocks = file
  BY LoadedIsGood, LoadedFields
<1> HIDE DEF e
<1>2. \A i \in DOMAIN e.pageIndex[p] :
         e.pageIndex[p][i] \in 0..(e.nextPage - 1) \ e.emptyPages
  BY <1>1 DEF GoodDisk, Accounted
<1>3. SamePage(d, e, p)
  BY <1>1, <1>2 DEF SamePage
<1> QED
  BY <1>3 DEF e

-----------------------------------------------------------------------------
(* The invariant                                                           *)

\* A page that is in the data file still is, if the step does not disturb it.
LEMMA StillInFile ==
    ASSUME NEW k, NEW r, NEW file, NEW p, InFile(k, file, p), Undisturbed(k, r, p)
    PROVE  InFile(r, file, p) /\ r.d.pageIndex[p] = k.d.pageIndex[p]
                              /\ p \in DOMAIN r.d.pageIndex
  BY DEF InFile, Undisturbed, Unwritten, SamePage

\* A buffer that has just been made over a storage.
LEMMA NewBufferIsGood ==
    ASSUME NEW d \in GoodDisk
    PROVE  /\ GoodBuffer(NewBuffer(d)) /\ NewBuffer(d).d = d
           /\ DOMAIN NewBuffer(d).entries = {}
           /\ \A p \in DOMAIN d.pageIndex : Cached(NewBuffer(d), p) = loadByteArray(d, p)
<1> DEFINE k == NewBuffer(d)
<1>1. k = [entries |-> <<>>, d |-> d] /\ k.entries = <<>> /\ k.d = d
  BY DEF NewBuffer
<1>2. DOMAIN <<>> = {} /\ <<>> \in [{} -> Entry]
  OBVIOUS
<1>3. IsFiniteSet({}) /\ Cardinality({}) = 0
  BY FS_EmptySet
<1> HIDE DEF k
<1>4. GoodBuffer(k)
  BY <1>1, <1>2, <1>3, BufferAssumption DEF GoodBuffer
<1>5. ASSUME NEW p \in DOMAIN d.pageIndex PROVE Cached(k, p) = loadByteArray(d, p)
  BY <1>1, <1>2 DEF Cached
<1> QED
  BY <1>1, <1>2, <1>4, <1>5 DEF k

\* The data of the user can be stored.
LEMMA DataAreBytes == Data \subseteq Bytes
<1> SUFFICES ASSUME NEW bytes \in Data PROVE bytes \in Bytes
  OBVIOUS
<1>1. bytes \in Seq(Chunk) /\ bytes # <<>>
  BY StorageAssumption
<1>2. Chunk \subseteq Contents
  BY DEF Contents
<1>3. bytes \in Seq(Contents)
  BY <1>1, <1>2
<1> QED
  BY <1>1, <1>3 DEF Bytes

\* The invariant of the storage holds initially, and nobody has a page.
LEMMA InitInv == Init => StorageInv /\ Store!Init
<1> SUFFICES ASSUME Init PROVE StorageInv /\ Store!Init
  OBVIOUS
<1>0. /\ c = NewBuffer(NewStorage) /\ index = NoIndex /\ data = <<>> /\ touched = {}
      /\ answer = <<>> /\ writeThrough \in BOOLEAN /\ phase = "down"
  BY StorageAssumption DEF Init
<1>1. GoodBuffer(c) /\ c.d = NewStorage /\ Pages = {}
  BY <1>0, NewStorageIsGood, NewBufferIsGood DEF Pages
<1>2. data \in DataFiles /\ DOMAIN data = {}
  <2>1. <<>> \in [{} -> Contents] /\ DOMAIN <<>> = {}
    OBVIOUS
  <2> QED
    BY <1>0, <2>1 DEF DataFiles
<1>3. /\ GoodIndex(index) /\ index.nextPage = 0 /\ ~ index.written
      /\ DOMAIN index.pageIndex = {}
  BY <1>0, NoIndexIsGood
<1>4. StorageInv
  <2>1. 0..(0 - 1) = {}
    OBVIOUS
  <2> QED
    BY <1>0, <1>1, <1>2, <1>3, <2>1 DEF StorageInv
<1>5. DOMAIN User.d.pageIndex = {}
  <2>1. LoadedStorage(index, data) \in GoodDisk
    BY <1>2, <1>3, LoadedIsGood
  <2> QED
    BY <1>0, <1>3, <2>1, NewBufferIsGood, LoadedFields DEF User
<1>6. Seen(User) = <<>> /\ Mode = "down"
  BY <1>0, <1>5 DEF Seen, Mode
<1> QED
  BY <1>0, <1>3, <1>4, <1>6 DEF Store!Init, Store!Empty

\* The invariant after a step of the buffer that leaves the files alone, from
\* what the step does to the buffer.
LEMMA BufferStepInv ==
    ASSUME StorageInv, UNCHANGED <<phase, writeThrough, index, data>>,
           phase \in {"open", "closing"},
           NEW changed, touched' = touched \cup changed,
           GoodBuffer(c'), DOMAIN c'.d.pageIndex \subseteq Page,
           DOMAIN c'.d.pageIndex \subseteq Pages \cup changed,
           c.d.nextPage <= c'.d.nextPage,
           \A p \in Pages \ changed : Undisturbed(c, c', p)
    PROVE  StorageInv'
<1>1. /\ FilesInv /\ GoodBuffer(c) /\ GoodIndex(index) /\ data \in DataFiles
      /\ writeThrough \in BOOLEAN
  BY DEF StorageInv
<1>2. index.nextPage <= c'.d.nextPage
  <2>1. index.nextPage <= c.d.nextPage
    BY <1>1 DEF FilesInv
  <2>2. index.nextPage \in Nat /\ c.d.nextPage \in Nat /\ c'.d.nextPage \in Nat
    BY <1>1, DiskFields DEF GoodBuffer, GoodDisk, GoodIndex
  <2> QED
    BY <2>1, <2>2
<1>3. ASSUME NEW p \in Pages, p \notin touched'
      PROVE  /\ InFile(c', data, p) /\ p \in DOMAIN c'.d.pageIndex
             /\ c'.d.pageIndex[p] = c.d.pageIndex[p]
  <2>1. InFile(c, data, p) /\ Undisturbed(c, c', p)
    BY <1>1, <1>3 DEF FilesInv
  <2> QED
    BY <2>1, StillInFile
<1>4. ASSUME NEW p \in DOMAIN c'.d.pageIndex, p \notin touched'
      PROVE  InFile(c', data, p)
  BY <1>3, <1>4
<1>5. ASSUME NEW p \in DOMAIN index.pageIndex, p \notin touched'
      PROVE  p \in DOMAIN c'.d.pageIndex /\ c'.d.pageIndex[p] = index.pageIndex[p]
  <2>1. p \in Pages /\ c.d.pageIndex[p] = index.pageIndex[p]
    BY <1>1, <1>5 DEF FilesInv
  <2> QED
    BY <1>3, <1>5, <2>1
<1>6. FilesInv'
  BY <1>2, <1>4, <1>5 DEF FilesInv, Pages
<1> QED
  BY <1>1, <1>6 DEF StorageInv, Pages

\* A page that is the number of a new one is one of Page.
LEMMA NewPageInBound ==
    ASSUME NEW d \in GoodDisk, NEW n \in Nat \ {0}, Taken(d, n).nextPage <= MaxBlocks
    PROVE  NewPageOf(d) \in Page
<1>1. /\ NewPageOf(d) \in Nat
      /\ NewPageOf(d) < Taken(d, n).nextPage
  BY NewPageIsFirst
<1>2. Taken(d, n).nextPage \in Nat
  BY TakenIsTaken DEF TakenFrom, Supply
<1> QED
  BY <1>1, <1>2, StorageAssumption DEF Page

-----------------------------------------------------------------------------
(* What the user sees of each step                                         *)

\* In a step of the open storage, its user sees what the buffer has.
LEMMA OpenStep ==
    ASSUME phase = "open", UNCHANGED <<phase, index>>
    PROVE  /\ User = c /\ User' = c' /\ Seen(User)' = Seen(c')
           /\ Mode = "open" /\ Mode' = "open"
           /\ index'.written = index.written
           /\ DOMAIN index'.pageIndex = DOMAIN index.pageIndex
  BY DEF User, Mode, Seen

\* The pages for the user are those of a storage with another one or another
\* content of one.
LEMMA UserStores ==
    ASSUME NEW page, NEW bytes,
           DOMAIN c'.d.pageIndex = Pages \cup {page}, Cached(c', page) = bytes,
           \A p \in Pages \ {page} : Cached(c', p) = Cached(c, p),
           touched' = touched \cup {page}, answer' = <<>>,
           phase = "open", UNCHANGED <<phase, index>>
    PROVE  Store!Store(page, bytes)
<1>1. /\ DOMAIN Seen(c) = Pages
      /\ Seen(c') = [q \in Pages \cup {page} |-> IF q = page THEN bytes ELSE Seen(c)[q]]
  BY DEF Seen, Pages
<1>2. Seen(User) = Seen(c)
  BY OpenStep
<1> QED
  BY <1>1, <1>2, OpenStep DEF Store!Store, Store!With

\* The invariant is kept by the creation of a storage.
LEMMA StepCreate ==
    ASSUME StorageInv, Create
    PROVE  StorageInv' /\ Store!Create
<1>1. /\ phase = "down" /\ phase' = "open" /\ c' = NewBuffer(NewStorage)
      /\ index' = NoIndex /\ data' = <<>> /\ answer' = <<>> /\ touched' = {}
      /\ writeThrough' \in BOOLEAN
  BY DEF Create, StorageInv
<1>2. /\ GoodBuffer(c') /\ c'.d = NewStorage /\ DOMAIN c'.d.pageIndex = {}
      /\ c'.d.nextPage = 0 /\ DOMAIN Seen(c') = {}
  BY <1>1, NewStorageIsGood, NewBufferIsGood DEF Seen
<1>3. data' \in DataFiles /\ DOMAIN data' = {}
  <2>1. <<>> \in [{} -> Contents] /\ DOMAIN <<>> = {}
    OBVIOUS
  <2> QED
    BY <1>1, <2>1 DEF DataFiles
<1>4. /\ GoodIndex(index') /\ index'.nextPage = 0 /\ ~ index'.written
      /\ DOMAIN index'.pageIndex = {}
  BY <1>1, NoIndexIsGood
<1>5. StorageInv'
  BY <1>1, <1>2, <1>3, <1>4 DEF StorageInv, FilesInv, Pages
<1>6. Store!Create
  <2>1. Seen(User)' = Seen(c') /\ Mode = "down" /\ Mode' = "open"
    BY <1>1 DEF User, Seen, Mode
  <2>2. Seen(c') = <<>>
    BY <1>2 DEF Seen
  <2>3. index'.written = FALSE
    BY <1>1 DEF NoIndex
  <2> QED
    BY <1>1, <1>4, <2>1, <2>2, <2>3 DEF Store!Create, Store!Empty
<1> QED
  BY <1>5, <1>6

\* The invariant is kept by the opening of a storage.
LEMMA StepOpen ==
    ASSUME StorageInv, Open
    PROVE  StorageInv' /\ Store!Open
<1> DEFINE d == LoadedStorage(index, data)
<1>1. /\ phase = "down" /\ index.written /\ phase' = "open" /\ c' = NewBuffer(d)
      /\ answer' = <<>> /\ UNCHANGED <<writeThrough, index, data, touched>>
  BY DEF Open
<1>2. /\ GoodIndex(index) /\ data \in DataFiles /\ DOMAIN data = 0..(index.nextPage - 1)
      /\ touched = {} /\ writeThrough \in BOOLEAN
  BY <1>1 DEF StorageInv
<1>3. /\ d \in GoodDisk /\ d.nextPage = index.nextPage /\ d.pageIndex = index.pageIndex
      /\ d.blocks = data /\ index.nextPage \in Nat
      /\ DOMAIN index.pageIndex \subseteq Page
  BY <1>2, LoadedIsGood, LoadedFields DEF GoodIndex
<1> HIDE DEF d
<1>4. GoodBuffer(c') /\ c'.d = d /\ DOMAIN c'.entries = {}
  BY <1>1, <1>3, NewBufferIsGood
<1>5. ASSUME NEW p \in DOMAIN c'.d.pageIndex PROVE InFile(c', data, p)
  <2>1. \A i \in DOMAIN d.pageIndex[p] : d.pageIndex[p][i] \in DOMAIN d.blocks
    BY <1>3, <1>4, <1>5 DEF GoodDisk, Accounted
  <2> QED
    BY <2>1, <1>3, <1>4 DEF InFile, Unwritten
<1>6. FilesInv'
  BY <1>1, <1>3, <1>4, <1>5 DEF FilesInv, Pages
<1>7. StorageInv'
  BY <1>1, <1>2, <1>3, <1>4, <1>6 DEF StorageInv, Pages
<1>8. Store!Open
  <2>1. User' = User /\ Mode = "down" /\ Mode' = "open"
    BY <1>1 DEF User, Mode, d
  <2>2. Seen(User)' = Seen(User)
    BY <2>1
  <2> QED
    BY <1>1, <2>1, <2>2 DEF Store!Open
<1> QED
  BY <1>7, <1>8

\* The invariant is kept by the storing of a new page.
LEMMA StepStoreNew ==
    ASSUME StorageInv, NEW bytes \in Data, StoreNew(bytes)
    PROVE  StorageInv' /\ \E p \in Page : Store!StoreNew(p, bytes)
<1>1. PICK page : page = NewPageOf(c.d)
  OBVIOUS
<1>2. /\ phase = "open" /\ Taken(c.d, Len(bytes)).nextPage <= MaxBlocks
      /\ c' \in StoredNew(c, bytes)
      /\ touched' = touched \cup {page}
      /\ answer' = <<>> /\ UNCHANGED <<phase, writeThrough, index, data>>
  BY <1>1 DEF StoreNew
<1>3. GoodBuffer(c) /\ c.d \in GoodDisk /\ Pages \subseteq Page
  BY DEF StorageInv, GoodBuffer
<1>4. bytes \in Bytes /\ Len(bytes) \in Nat \ {0}
  <2>1. bytes \in Bytes
    BY DataAreBytes
  <2> QED
    BY <2>1, EmptySeq, LenProperties DEF Bytes
<1>5. PICK r : r = c'
  OBVIOUS
<1>6. /\ GoodBuffer(r)
      /\ page \notin DOMAIN c.d.pageIndex
      /\ DOMAIN r.d.pageIndex = DOMAIN c.d.pageIndex \cup {page}
      /\ c.d.nextPage <= r.d.nextPage
      /\ Cached(r, page) = bytes
      /\ \A p \in DOMAIN c.d.pageIndex :
            Cached(r, p) = Cached(c, p) /\ Undisturbed(c, r, p)
  BY <1>1, <1>2, <1>3, <1>4, <1>5, NewDataStored
<1>7. page \in Page
  BY <1>1, <1>2, <1>3, <1>4, NewPageInBound
<1>8. StorageInv'
  <2>1. /\ DOMAIN c'.d.pageIndex \subseteq Page
        /\ DOMAIN c'.d.pageIndex \subseteq Pages \cup {page}
        /\ \A p \in Pages \ {page} : Undisturbed(c, c', p)
    BY <1>3, <1>5, <1>6, <1>7 DEF Pages
  <2> QED
    BY <1>2, <1>5, <1>6, <2>1, BufferStepInv
<1>9. Store!StoreNew(page, bytes)
  <2>1. Store!Store(page, bytes)
    BY <1>2, <1>5, <1>6, UserStores DEF Pages
  <2>2. page \notin DOMAIN Seen(User)
    BY <1>2, <1>6, OpenStep DEF Seen
  <2> QED
    BY <2>1, <2>2 DEF Store!StoreNew
<1> QED
  BY <1>7, <1>8, <1>9

\* The invariant is kept by the storing of a page again.
LEMMA StepStoreAgain ==
    ASSUME StorageInv, NEW page \in Pages, NEW bytes \in Data, StoreAgain(page, bytes)
    PROVE  StorageInv' /\ Store!StoreAgain(page, bytes)
<1>2. /\ phase = "open" /\ c' \in Stored(c, page, bytes, writeThrough)
      /\ touched' = touched \cup {page}
      /\ answer' = <<>> /\ UNCHANGED <<phase, writeThrough, index, data>>
  BY DEF StoreAgain
<1>3. GoodBuffer(c) /\ Pages \subseteq Page /\ writeThrough \in BOOLEAN
  BY DEF StorageInv
<1>4. bytes \in Bytes
  BY DataAreBytes
<1>5. PICK r : r = c'
  OBVIOUS
<1>6. /\ GoodBuffer(r)
      /\ DOMAIN r.d.pageIndex = DOMAIN c.d.pageIndex
      /\ c.d.nextPage <= r.d.nextPage
      /\ Cached(r, page) = bytes
      /\ \A p \in DOMAIN c.d.pageIndex \ {page} :
            Cached(r, p) = Cached(c, p) /\ Undisturbed(c, r, p)
  BY <1>2, <1>3, <1>4, <1>5, DataStored DEF Pages
<1>8. StorageInv'
  <2>1. /\ DOMAIN c'.d.pageIndex \subseteq Page
        /\ DOMAIN c'.d.pageIndex \subseteq Pages \cup {page}
        /\ \A p \in Pages \ {page} : Undisturbed(c, c', p)
    BY <1>3, <1>5, <1>6 DEF Pages
  <2> QED
    BY <1>2, <1>5, <1>6, <2>1, BufferStepInv
<1>9. Store!StoreAgain(page, bytes)
  <2>0. DOMAIN c'.d.pageIndex = Pages \cup {page}
    BY <1>5, <1>6 DEF Pages
  <2>1. Store!Store(page, bytes)
    BY <1>2, <1>5, <1>6, <2>0, UserStores DEF Pages
  <2>2. page \in DOMAIN Seen(User)
    BY <1>2, OpenStep DEF Seen, Pages
  <2> QED
    BY <2>1, <2>2 DEF Store!StoreAgain
<1> QED
  BY <1>8, <1>9

\* The invariant is kept by a load.
LEMMA StepLoad ==
    ASSUME StorageInv, NEW page \in Pages, Load(page)
    PROVE  StorageInv' /\ Store!Load(page)
<1>2. /\ phase = "open" /\ answer' = Cached(c, page) /\ c' \in Loaded(c, page)
      /\ UNCHANGED <<phase, writeThrough, index, data, touched>>
  BY DEF Load
<1>3. GoodBuffer(c) /\ Pages \subseteq Page
  BY DEF StorageInv
<1>5. PICK r : r = c'
  OBVIOUS
<1>6. /\ GoodBuffer(r)
      /\ DOMAIN r.d.pageIndex = DOMAIN c.d.pageIndex
      /\ c.d.nextPage <= r.d.nextPage
      /\ \A p \in DOMAIN c.d.pageIndex :
            Cached(r, p) = Cached(c, p) /\ Undisturbed(c, r, p)
  BY <1>2, <1>3, <1>5, DataLoaded DEF Pages
<1>8. StorageInv'
  <2>1. /\ DOMAIN c'.d.pageIndex \subseteq Page
        /\ DOMAIN c'.d.pageIndex \subseteq Pages \cup {}
        /\ \A p \in Pages \ {} : Undisturbed(c, c', p)
        /\ touched' = touched \cup {}
    BY <1>2, <1>3, <1>5, <1>6 DEF Pages
  <2> QED
    BY <1>2, <1>5, <1>6, <2>1, BufferStepInv
<1>9. Store!Load(page)
  <2>1. Seen(c') = Seen(c)
    BY <1>5, <1>6 DEF Seen
  <2>2. page \in DOMAIN Seen(c) /\ Seen(c)[page] = Cached(c, page)
    BY DEF Seen, Pages
  <2>3. /\ Seen(User) = Seen(c) /\ Seen(User)' = Seen(c') /\ Mode = "open" /\ Mode' = "open"
        /\ index' = index
    BY <1>2, OpenStep
  <2> QED
    BY <1>2, <2>1, <2>2, <2>3 DEF Store!Load
<1> QED
  BY <1>8, <1>9

\* The invariant is kept by a deletion.
LEMMA StepDelete ==
    ASSUME StorageInv, NEW page \in Pages, Delete(page)
    PROVE  StorageInv' /\ Store!Delete(page)
<1>2. /\ phase = "open" /\ c' = Deleted(c, page)
      /\ touched' = touched \cup {page}
      /\ answer' = <<>> /\ UNCHANGED <<phase, writeThrough, index, data>>
  BY DEF Delete
<1>3. GoodBuffer(c) /\ Pages \subseteq Page /\ c.d.nextPage \in Nat
  BY DiskFields DEF StorageInv, GoodBuffer, GoodDisk
<1>5. PICK r : r = c'
  OBVIOUS
<1>6. /\ GoodBuffer(r)
      /\ DOMAIN r.d.pageIndex = DOMAIN c.d.pageIndex \ {page}
      /\ c.d.nextPage = r.d.nextPage
      /\ \A p \in DOMAIN c.d.pageIndex \ {page} :
            Cached(r, p) = Cached(c, p) /\ Undisturbed(c, r, p)
  BY <1>2, <1>3, <1>5, DataDeleted DEF Pages
<1>8. StorageInv'
  <2>1. /\ DOMAIN c'.d.pageIndex \subseteq Page
        /\ DOMAIN c'.d.pageIndex \subseteq Pages \cup {page}
        /\ \A p \in Pages \ {page} : Undisturbed(c, c', p)
        /\ c.d.nextPage <= c'.d.nextPage
    BY <1>3, <1>5, <1>6 DEF Pages
  <2> QED
    BY <1>2, <1>5, <1>6, <2>1, BufferStepInv
<1>9. Store!Delete(page)
  <2>1. Seen(c') = [p \in DOMAIN Seen(c) \ {page} |-> Seen(c)[p]]
    BY <1>5, <1>6 DEF Seen
  <2>2. page \in DOMAIN Seen(c)
    BY DEF Seen, Pages
  <2>3. /\ Seen(User) = Seen(c) /\ Seen(User)' = Seen(c') /\ Mode = "open" /\ Mode' = "open"
        /\ index' = index
    BY <1>2, OpenStep
  <2> QED
    BY <1>2, <2>1, <2>2, <2>3 DEF Store!Delete
<1> QED
  BY <1>8, <1>9

\* The invariant is kept when the storage begins to be closed.
LEMMA StepClose ==
    ASSUME StorageInv, Close
    PROVE  StorageInv' /\ Store!Close
<1>1. /\ phase = "open" /\ phase' = "closing" /\ answer' = <<>>
      /\ UNCHANGED <<c, writeThrough, index, data, touched>>
  BY DEF Close
<1>2. StorageInv'
  BY <1>1 DEF StorageInv, FilesInv, Pages
<1>3. Store!Close
  <2>1. Seen(User)' = Seen(User) /\ Mode = "open" /\ Mode' = "closing"
    BY <1>1 DEF User, Seen, Mode
  <2> QED
    BY <1>1, <2>1 DEF Store!Close
<1> QED
  BY <1>2, <1>3

\* The invariant is kept when an entry is written, which nobody sees.
LEMMA StepWriteEntry ==
    ASSUME StorageInv, WriteEntry
    PROVE  StorageInv' /\ UNCHANGED Store!vars
<1>1. PICK v : v = Min(DOMAIN c.entries)
  OBVIOUS
<1>2. /\ phase = "closing" /\ DOMAIN c.entries # {} /\ c' = removeEntry(c, v)
      /\ UNCHANGED <<phase, writeThrough, index, data, answer, touched>>
  BY <1>1 DEF WriteEntry
<1>3. GoodBuffer(c) /\ Pages \subseteq Page
  BY DEF StorageInv
<1>4. v \in DOMAIN c.entries
  <2>1. DOMAIN c.entries \subseteq Nat
    BY <1>3, DiskFields DEF GoodBuffer, GoodDisk
  <2> QED
    BY <1>1, <1>2, <2>1, LeastElement
<1>5. PICK r : r = c'
  OBVIOUS
<1>6. /\ GoodBuffer(r)
      /\ DOMAIN r.d.pageIndex = DOMAIN c.d.pageIndex
      /\ c.d.nextPage <= r.d.nextPage
      /\ \A p \in DOMAIN c.d.pageIndex : Cached(r, p) = Cached(c, p)
      /\ \A p \in DOMAIN c.d.pageIndex : Undisturbed(c, r, p)
  BY <1>2, <1>3, <1>4, <1>5, EntryRemoved
<1>7. StorageInv'
  <2>1. /\ DOMAIN c'.d.pageIndex \subseteq Page
        /\ DOMAIN c'.d.pageIndex \subseteq Pages \cup {}
        /\ \A p \in Pages \ {} : Undisturbed(c, c', p)
        /\ touched' = touched \cup {}
    BY <1>2, <1>3, <1>5, <1>6 DEF Pages
  <2> QED
    BY <1>2, <1>5, <1>6, <2>1, BufferStepInv
<1>8. UNCHANGED Store!vars
  <2>1. Seen(c') = Seen(c)
    BY <1>5, <1>6 DEF Seen
  <2>2. Seen(User) = Seen(c) /\ Seen(User)' = Seen(c') /\ Mode' = Mode
    BY <1>2 DEF User, Seen, Mode
  <2> QED
    BY <1>2, <2>1, <2>2 DEF Store!vars
<1> QED
  BY <1>7, <1>8

\* The invariant is kept when the index file begins to be written over.
LEMMA StepRewriteIndex ==
    ASSUME StorageInv, RewriteIndex
    PROVE  StorageInv' /\ Store!Tear
<1>1. /\ phase = "closing" /\ index' = NoIndex
      /\ UNCHANGED <<phase, c, writeThrough, data, answer, touched>>
  BY DEF RewriteIndex
<1>2. /\ GoodIndex(index') /\ index'.nextPage = 0 /\ DOMAIN index'.pageIndex = {}
      /\ index'.written = FALSE
  BY <1>1, NoIndexIsGood DEF NoIndex
<1>3. c.d.nextPage \in Nat
  BY DiskFields DEF StorageInv, GoodBuffer, GoodDisk
<1>4. FilesInv'
  BY <1>1, <1>2, <1>3 DEF StorageInv, FilesInv, Pages
<1>5. StorageInv'
  BY <1>1, <1>2, <1>4 DEF StorageInv, Pages
<1>6. Store!Tear
  <2>1. Seen(User)' = Seen(User) /\ Mode = "closing" /\ Mode' = "closing"
    BY <1>1 DEF User, Seen, Mode
  <2> QED
    BY <1>1, <1>2, <2>1 DEF Store!Tear
<1> QED
  BY <1>5, <1>6

\* The invariant is kept when the new index file is complete.
LEMMA StepFlushIndex ==
    ASSUME StorageInv, FlushIndex
    PROVE  StorageInv' /\ Store!Sync
<1>1. /\ phase = "closing" /\ DOMAIN c.entries = {} /\ phase' = "indexed"
      /\ index' = IndexOf(c.d)
      /\ UNCHANGED <<c, writeThrough, data, answer, touched>>
  BY DEF FlushIndex
<1>2. /\ c.d \in GoodDisk /\ Pages \subseteq Page /\ c.d.nextPage \in Nat
  BY DiskFields DEF StorageInv, GoodBuffer, GoodDisk
<1>3. /\ GoodIndex(index') /\ index'.nextPage = c.d.nextPage
      /\ index'.pageIndex = c.d.pageIndex /\ index'.written = TRUE
  BY <1>1, <1>2, IndexIsGood DEF IndexOf, Pages
<1>4. FilesInv'
  BY <1>1, <1>2, <1>3 DEF StorageInv, FilesInv, Pages
<1>5. StorageInv'
  BY <1>1, <1>3, <1>4 DEF StorageInv, Pages
<1>6. Store!Sync
  <2>1. /\ Seen(User) = Seen(c) /\ Seen(User)' = Seen(User)
        /\ Mode = "closing" /\ Mode' = "closing"
    BY <1>1 DEF User, Seen, Mode
  <2>2. DOMAIN index'.pageIndex = DOMAIN Seen(c)
    BY <1>3 DEF Seen
  <2> QED
    BY <1>1, <1>3, <2>1, <2>2 DEF Store!Sync
<1> QED
  BY <1>5, <1>6

\* A buffer without entries over a storage that is in both files: opening these
\* gives the same pages.
LEMMA StepFlushData ==
    ASSUME StorageInv, FlushData
    PROVE  StorageInv' /\ Store!Closed
<1> DEFINE e == LoadedStorage(index, data')
<1>1. /\ phase = "indexed" /\ phase' = "down"
      /\ data' = DataFile(index, c.d.blocks) /\ c' = NewBuffer(NewStorage)
      /\ touched' = {} /\ UNCHANGED <<writeThrough, index, answer>>
  BY DEF FlushData
<1>2. /\ GoodBuffer(c) /\ c.d \in GoodDisk /\ Pages \subseteq Page
      /\ writeThrough \in BOOLEAN /\ GoodIndex(index)
      /\ DOMAIN c.entries = {} /\ index = IndexOf(c.d)
  BY <1>1 DEF StorageInv, GoodBuffer
<1>3. /\ index.nextPage = c.d.nextPage /\ index.emptyPages = c.d.emptyPages
      /\ index.pageIndex = c.d.pageIndex /\ index.written
      /\ index.nextPage \in Nat
  BY <1>2, IndexIsGood DEF Pages, GoodIndex
<1>4. c.d.blocks \in DataFiles /\ DOMAIN c.d.blocks = 0..(c.d.nextPage - 1)
  BY <1>2, DiskFields DEF GoodDisk, Accounted, DataFiles
<1>5. /\ data' \in DataFiles /\ DOMAIN data' = 0..(index.nextPage - 1)
      /\ \A b \in (0..(index.nextPage - 1)) \ index.emptyPages : data'[b] = c.d.blocks[b]
  <2>1. PICK file : file = data'
    OBVIOUS
  <2> QED
    BY <1>1, <1>3, <1>4, <2>1, DataFileBlocks
<1>6. /\ GoodBuffer(c') /\ DOMAIN c'.d.pageIndex = {}
  BY <1>1, NewStorageIsGood, NewBufferIsGood
<1>7. StorageInv'
  BY <1>1, <1>2, <1>5, <1>6 DEF StorageInv, Pages
<1>8. e \in GoodDisk /\ e.pageIndex = c.d.pageIndex
  BY <1>2, <1>3, <1>5, LoadedIsGood, LoadedFields
<1>9. ASSUME NEW p \in DOMAIN c.d.pageIndex
      PROVE  SamePage(c.d, e, p)
  BY <1>2, <1>3, <1>5, <1>9, PageReached
<1> HIDE DEF e
<1>10. Seen(NewBuffer(e)) = Seen(c)
  <2>1. NewBuffer(e).d = e
    BY <1>8, NewBufferIsGood
  <2>2. ASSUME NEW p \in DOMAIN c.d.pageIndex PROVE Cached(NewBuffer(e), p) = Cached(c, p)
    <3>1. Cached(NewBuffer(e), p) = loadByteArray(e, p)
      BY <1>8, <2>2, NewBufferIsGood
    <3>2. Cached(c, p) = loadByteArray(c.d, p)
      BY <1>2 DEF Cached
    <3>3. loadByteArray(e, p) = loadByteArray(c.d, p)
      BY <1>9, <2>2, SamePageLoads
    <3> QED
      BY <3>1, <3>2, <3>3
  <2> QED
    BY <1>8, <2>1, <2>2 DEF Seen
<1>11. Store!Closed
  <2>1. /\ Seen(User) = Seen(c) /\ Seen(User)' = Seen(NewBuffer(e))
        /\ Mode = "closing" /\ Mode' = "down"
    BY <1>1 DEF User, Seen, Mode, e
  <2>2. DOMAIN index.pageIndex = DOMAIN Seen(c)
    BY <1>3 DEF Seen
  <2> QED
    BY <1>1, <1>3, <1>10, <2>1, <2>2 DEF Store!Closed
<1> QED
  BY <1>7, <1>11

\* The invariant is kept by a crash, whatever of the data reached the file.
LEMMA StepCrash ==
    ASSUME StorageInv, Crash
    PROVE  StorageInv' /\ Store!Crash
<1> DEFINE e == LoadedStorage(index, data')
<1>1. /\ phase # "down" /\ phase' = "down"
      /\ data' \in Reached(c.d, index, data) /\ c' = NewBuffer(NewStorage)
      /\ touched' = {} /\ answer' = <<>> /\ UNCHANGED <<writeThrough, index>>
  BY DEF Crash
<1>2. /\ GoodBuffer(c) /\ c.d \in GoodDisk /\ Pages \subseteq Page
      /\ writeThrough \in BOOLEAN /\ GoodIndex(index) /\ index.nextPage \in Nat
      /\ data \in DataFiles
      /\ \A p \in Pages \ touched : InFile(c, data, p)
      /\ \A p \in DOMAIN index.pageIndex \ touched :
            p \in Pages /\ c.d.pageIndex[p] = index.pageIndex[p]
  BY <1>1 DEF StorageInv, FilesInv, GoodBuffer, GoodIndex
<1>3. /\ data' \in DataFiles /\ DOMAIN data' = 0..(index.nextPage - 1)
      /\ \A b \in (0..(index.nextPage - 1)) \ index.emptyPages :
            b \in DOMAIN data /\ data[b] = c.d.blocks[b] => data'[b] = c.d.blocks[b]
  <2>1. PICK file : file = data'
    OBVIOUS
  <2> QED
    BY <1>1, <1>2, <2>1, ReachedBlocks
<1>4. GoodBuffer(c') /\ DOMAIN c'.d.pageIndex = {}
  BY <1>1, NewStorageIsGood, NewBufferIsGood
<1>5. StorageInv'
  BY <1>1, <1>2, <1>3, <1>4 DEF StorageInv, Pages
<1>6. e \in GoodDisk /\ e.pageIndex = index.pageIndex
  BY <1>2, <1>3, LoadedIsGood, LoadedFields
<1>7. ASSUME NEW p \in DOMAIN index.pageIndex, p \notin touched
      PROVE  p \in Pages /\ SamePage(c.d, e, p) /\ Unwritten(c, p)
  <2>1. p \in Pages /\ c.d.pageIndex[p] = index.pageIndex[p] /\ InFile(c, data, p)
    BY <1>2, <1>7
  <2>2. \A i \in DOMAIN c.d.pageIndex[p] :
           c.d.pageIndex[p][i] \in (0..(index.nextPage - 1)) \ index.emptyPages =>
              data'[c.d.pageIndex[p][i]] = c.d.blocks[c.d.pageIndex[p][i]]
    BY <1>3, <2>1 DEF InFile
  <2>3. SamePage(c.d, e, p)
    BY <1>2, <1>3, <2>1, <2>2, PageReached DEF Pages
  <2> QED
    BY <2>1, <2>3 DEF InFile
<1> HIDE DEF e
<1>8. NewBuffer(e).d = e /\ DOMAIN Seen(NewBuffer(e)) = DOMAIN index.pageIndex
  BY <1>6, NewBufferIsGood DEF Seen
<1>9. ASSUME NEW p \in DOMAIN index.pageIndex, p \notin touched
      PROVE  p \in DOMAIN Seen(c) /\ Seen(NewBuffer(e))[p] = Seen(c)[p]
  <2>1. p \in Pages /\ SamePage(c.d, e, p) /\ Unwritten(c, p)
    BY <1>7, <1>9
  <2>2. Cached(c, p) = loadByteArray(c.d, p)
    BY <1>2, <2>1 DEF Cached, Unwritten, GoodBuffer
  <2>3. Cached(NewBuffer(e), p) = loadByteArray(e, p)
    BY <1>6, <1>9, NewBufferIsGood
  <2>4. loadByteArray(e, p) = loadByteArray(c.d, p)
    BY <2>1, SamePageLoads
  <2> QED
    BY <1>6, <1>8, <1>9, <2>1, <2>2, <2>3, <2>4 DEF Seen, Pages
<1>10. Store!Crash
  <2>1. /\ Seen(User) = Seen(c) /\ Seen(User)' = Seen(NewBuffer(e))
        /\ Mode # "down" /\ Mode' = "down"
    BY <1>1 DEF User, Seen, Mode, e
  <2> QED
    BY <1>1, <1>8, <1>9, <2>1 DEF Store!Crash
<1> QED
  BY <1>5, <1>10

-----------------------------------------------------------------------------
(* The theorems                                                            *)

\* Every step keeps the invariant, and is one of PageStore or none for the user.
LEMMA StepUser ==
    ASSUME StorageInv, [Next]_vars
    PROVE  StorageInv' /\ [Store!Next]_(Store!vars)
<1>1. CASE \E bytes \in Data : StoreNew(bytes)
  <2>1. PICK bytes \in Data : StoreNew(bytes)
    BY <1>1
  <2>2. StorageInv' /\ \E p \in Page : Store!StoreNew(p, bytes)
    BY <2>1, StepStoreNew
  <2> QED
    BY <2>2 DEF Store!Next
<1>2. CASE \E page \in Pages, bytes \in Data : StoreAgain(page, bytes)
  <2>1. PICK page \in Pages, bytes \in Data : StoreAgain(page, bytes)
    BY <1>2
  <2>2. page \in Page
    BY DEF StorageInv
  <2> QED
    BY <2>1, <2>2, StepStoreAgain DEF Store!Next
<1>3. CASE \E page \in Pages : Load(page) \/ Delete(page)
  <2>1. PICK page \in Pages : Load(page) \/ Delete(page)
    BY <1>3
  <2>2. page \in Page
    BY DEF StorageInv
  <2> QED
    BY <2>1, <2>2, StepLoad, StepDelete DEF Store!Next
<1>4. CASE Create \/ Open
  BY <1>4, StepCreate, StepOpen DEF Store!Next
<1>5. CASE Close \/ WriteEntry
  BY <1>5, StepClose, StepWriteEntry DEF Store!Next
<1>6. CASE RewriteIndex \/ FlushIndex \/ FlushData
  BY <1>6, StepRewriteIndex, StepFlushIndex, StepFlushData DEF Store!Next
<1>7. CASE Crash
  BY <1>7, StepCrash DEF Store!Next
<1>8. CASE UNCHANGED vars
  <2>1. /\ phase' = phase /\ c' = c /\ writeThrough' = writeThrough
        /\ index' = index /\ data' = data
        /\ answer' = answer /\ touched' = touched
    BY <1>8 DEF vars
  <2>2. StorageInv'
    BY <2>1 DEF StorageInv, FilesInv, Pages
  <2>3. UNCHANGED Store!vars
    BY <2>1 DEF Store!vars, User, Seen, Mode
  <2> QED
    BY <2>2, <2>3
<1> QED
  BY <1>1, <1>2, <1>3, <1>4, <1>5, <1>6, <1>7, <1>8 DEF Next

\* The blocks of a storage that is accounted for, as BlocksAccounted says it.
LEMMA InvAccounts == StorageInv => BlocksAccounted
<1> SUFFICES ASSUME StorageInv PROVE BlocksAccounted
  OBVIOUS
<1>1. PICK d : d = c.d
  OBVIOUS
<1>2. d \in Disk /\ Accounted(d)
  BY <1>1 DEF StorageInv, GoodBuffer, GoodDisk
<1>3. PICK used : used = UNION {Range(d.pageIndex[p]) : p \in DOMAIN d.pageIndex}
  OBVIOUS
<1>4. /\ \A b \in used : \E p \in DOMAIN d.pageIndex : \E i \in DOMAIN d.pageIndex[p] :
            b = d.pageIndex[p][i]
      /\ \A p \in DOMAIN d.pageIndex : \A i \in DOMAIN d.pageIndex[p] :
            d.pageIndex[p][i] \in used
  BY <1>3 DEF Range
<1>5. used \cap d.emptyPages = {}
  BY <1>2, <1>4 DEF Accounted
<1>6. used \cup d.emptyPages = 0..(d.nextPage - 1)
  BY <1>2, <1>4 DEF Accounted
<1>7. /\ \A p, q \in DOMAIN d.pageIndex :
            \A i \in DOMAIN d.pageIndex[p], j \in DOMAIN d.pageIndex[q] :
               d.pageIndex[p][i] = d.pageIndex[q][j] => p = q /\ i = j
      /\ \A p \in DOMAIN d.pageIndex : d.pageIndex[p][1] = p
  BY <1>2 DEF Accounted
<1> QED
  BY <1>1, <1>3, <1>5, <1>6, <1>7 DEF BlocksAccounted, Pages

\* The invariant that the others follow from holds in every state.
THEOREM StorageIsGood == Spec => []StorageInv
<1>1. StorageInv /\ [Next]_vars => StorageInv'
  BY StepUser
<1> QED
  BY <1>1, InitInv, PTL DEF Spec

\* However the pages are stored shorter or longer, deleted, evicted, closed or
\* lost in a crash, no block of the data file leaks and no two pages share one
\* (DiskStorageManager::storeByteArray and deleteByteArray).
THEOREM BlocksAreAccounted == Spec => []BlocksAccounted
  BY StorageIsGood, InvAccounts, PTL

\* The buffer never holds a page that is not in use, nor a clean entry that
\* differs from the storage, nor more entries than its capacity (Buffer.cc).
THEOREM BufferIsCoherent == Spec => []BufferCoherent
<1>1. StorageInv => BufferCoherent
  BY DEF StorageInv, GoodBuffer, BufferCoherent, Pages
<1> QED
  BY <1>1, StorageIsGood, PTL

\* The buffer over the storage on disk implements PageStore: what is stored is
\* what is loaded, also after the storage is closed and opened again, and after a
\* crash outside the writing of the index the pages are those of the last
\* closing, with the contents of the ones left alone since.
THEOREM StorageRefinesPageStore == Spec => RefinesPageStore
<1>1. StorageInv /\ [Next]_vars => [Store!Next]_(Store!vars)
  BY StepUser
<1> QED
  BY <1>1, InitInv, StorageIsGood, PTL DEF Spec, RefinesPageStore, Store!Spec

=============================================================================
