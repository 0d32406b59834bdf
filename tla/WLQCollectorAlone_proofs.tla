---------------------- MODULE WLQCollectorAlone_proofs ----------------------
(***************************************************************************)
(* Proofs about the collector of the window-level query stage, for any     *)
(* number of windows and any order of arrival.                             *)
(***************************************************************************)
EXTENDS WLQCollectorAlone, WellFoundedInduction, SequenceTheorems, TLAPS

\* The windows 0, 1, ..., n - 1.
Prefix(n) == [i \in 1..n |-> i - 1]

-----------------------------------------------------------------------------
(* Lemmas about the operators                                              *)

\* A nonempty set of naturals has a least element.
LEMMA LeastNatural ==
    ASSUME NEW T \in SUBSET Nat, T # {}
    PROVE  \E x \in T : \A y \in T : x <= y
<1>1. \E x \in T : \A y \in T : ~(<<y, x>> \in OpToRel(<, Nat))
  BY NatLessThanWellFounded, WFMin, Zenon
<1>2. PICK x \in T : \A y \in T : ~(<<y, x>> \in OpToRel(<, Nat))
  BY <1>1
<1>3. \A y \in T : x <= y
  <2> SUFFICES ASSUME NEW y \in T, y < x PROVE FALSE
    OBVIOUS
  <2>1. <<y, x>> \in Nat \X Nat
    OBVIOUS
  <2>2. <<y, x>> \in OpToRel(<, Nat)
    BY <2>1 DEF OpToRel
  <2> QED
    BY <2>2, <1>2
<1> QED
  BY <1>3

\* The loop of WLQ_Collector::svc stops at the first free slot after the first
\* one, or at the end of the deque.
LEMMA FirstFreeSlot ==
    ASSUME NEW S, NEW s \in Seq(S), s # <<>>
    PROVE  /\ FirstFree(s) \in 2..(Len(s) + 1)
           /\ FirstFree(s) \in 1..Len(s) => s[FirstFree(s)] = NULL
           /\ \A j \in 2..(FirstFree(s) - 1) : s[j] # NULL
<1> DEFINE T == {i \in 2..(Len(s) + 1) : i \in 1..Len(s) => s[i] = NULL}
<1>1. Len(s) \in Nat \ {0}
  BY EmptySeq
<1>2. T \in SUBSET Nat /\ T # {}
  <2>1. Len(s) + 1 \in T
    BY <1>1
  <2> QED
    BY <2>1, <1>1
<1>3. PICK x \in T : \A y \in T : x <= y
  BY <1>2, LeastNatural
<1>4. \A j \in 2..(x - 1) : s[j] # NULL
  <2> SUFFICES ASSUME NEW j \in 2..(x - 1), s[j] = NULL PROVE FALSE
    OBVIOUS
  <2>1. j \in T
    BY <1>1
  <2> QED
    BY <2>1, <1>1, <1>3
<1>5. \E i \in 2..(Len(s) + 1) :
        /\ i \in 1..Len(s) => s[i] = NULL
        /\ \A j \in 2..(i - 1) : s[j] # NULL
  BY <1>3, <1>4
<1> QED
  BY <1>5 DEF FirstFree

\* A prefix of the windows followed by the next ones is a prefix.
LEMMA PrefixConcat ==
    ASSUME NEW m \in Nat, NEW n \in Nat
    PROVE  /\ Prefix(m) \in Seq(Nat)
           /\ Len(Prefix(m)) = m
           /\ [i \in 1..n |-> m + i - 1] \in Seq(Nat)
           /\ Prefix(m) \o [i \in 1..n |-> m + i - 1] = Prefix(m + n)
<1> DEFINE a == Prefix(m)
           b == [i \in 1..n |-> m + i - 1]
           c == Prefix(m + n)
<1>1. a \in Seq(Nat) /\ Len(a) = m /\ \A i \in 1..m : a[i] = i - 1
  BY DEF Prefix
<1>2. b \in Seq(Nat) /\ Len(b) = n /\ \A i \in 1..n : b[i] = m + i - 1
  OBVIOUS
<1>3. c \in Seq(Nat) /\ Len(c) = m + n /\ \A i \in 1..(m + n) : c[i] = i - 1
  BY DEF Prefix
<1> HIDE DEF a, b, c
<1>4. /\ a \o b \in Seq(Nat)
      /\ Len(a \o b) = m + n
      /\ \A i \in 1..(m + n) : (a \o b)[i] = IF i <= m THEN a[i] ELSE b[i - m]
  BY <1>1, <1>2, ConcatProperties
<1>5. \A i \in 1..(m + n) : (a \o b)[i] = c[i]
  BY <1>1, <1>2, <1>3, <1>4
<1>6. a \o b = c
  BY <1>3, <1>4, <1>5, SeqEqual
<1> QED
  BY <1>1, <1>2, <1>6 DEF a, b, c

-----------------------------------------------------------------------------
(* The inductive invariant                                                 *)

\* Each slot of the deque is free or holds the window of its offset, and the
\* first slot, that of the next window, is always free: the erase stops at a
\* free slot.
Slots ==
    /\ \A i \in 1..Len(winSet) : winSet[i] # NULL => winSet[i] = next_win_id + i - 1
    /\ winSet # <<>> => winSet[1] = NULL

Inv == TypeOK /\ InOrder /\ Slots /\ Buffered

\* The next window arrives: what leaves is the next windows without a gap, and
\* the rest of the deque moves by as many slots.
LEMMA TransmitStep ==
    ASSUME Inv, NEW id \in toArrive, Transmit(id)
    PROVE  \E n \in 1..(MaxWindow + 1 - next_win_id) :
              /\ next_win_id' = next_win_id + n
              /\ out' = out \o [i \in 1..n |-> next_win_id + i - 1]
              /\ winSet' \in Seq(Window \cup {NULL})
              /\ Len(winSet') = IF n <= Len(winSet) THEN Len(winSet) - n ELSE 0
              /\ \A i \in 1..Len(winSet') : winSet'[i] = winSet[i + n]
              /\ winSet' # <<>> => winSet'[1] = NULL
              /\ \A i \in 2..n : i \in 1..Len(winSet) /\ winSet[i] = next_win_id + i - 1
<1> DEFINE S == Window \cup {NULL}
<1>1. /\ id = next_win_id /\ id \in 0..MaxWindow /\ MaxWindow \in Nat
      /\ winSet \in Seq(S) /\ out \in Seq(Window)
  BY MaxWindowAssumption DEF Inv, TypeOK, Transmit, IsNext, Window
<1>2. Append(out, id) = out \o [i \in 1..1 |-> next_win_id + i - 1]
  <2>1. <<id>> \in Seq(Window) /\ [i \in 1..1 |-> next_win_id + i - 1] \in Seq(Window)
    BY <1>1 DEF Window
  <2>2. <<id>> = [i \in 1..1 |-> next_win_id + i - 1]
    BY <1>1
  <2>3. Append(out, id) = out \o <<id>>
    BY <1>1, AppendIsConcat DEF Window
  <2> QED
    BY <2>2, <2>3
<1>3. CASE winSet = <<>>
  <2>1. /\ next_win_id' = next_win_id + 1
        /\ out' = Append(out, id)
        /\ winSet' = <<>>
    BY <1>3 DEF Transmit
  <2>2. 1 \in 1..(MaxWindow + 1 - next_win_id)
    BY <1>1
  <2>3. Len(winSet) = 0 /\ Len(winSet') = 0
    BY <1>3, <2>1
  <2> QED
    BY <1>2, <1>1, <1>3, <2>1, <2>2, <2>3
<1>4. CASE winSet # <<>>
  <2> DEFINE it == FirstFree(winSet)
             n  == it - 1
             tl == SubSeq(winSet, 2, it - 1)
  <2>1. /\ it \in 2..(Len(winSet) + 1)
        /\ it \in 1..Len(winSet) => winSet[it] = NULL
        /\ \A j \in 2..(it - 1) : winSet[j] # NULL
    BY <1>1, <1>4, FirstFreeSlot
  <2>2. /\ next_win_id' = next_win_id + n
        /\ out' = Append(out, id) \o tl
        /\ winSet' = SubSeq(winSet, it, Len(winSet))
    BY <1>1, <1>4, <2>1 DEF Transmit
  <2> HIDE DEF it
  <2>3. Len(winSet) \in Nat \ {0}
    BY <1>1, <1>4, EmptySeq
  <2>4. \A i \in 2..n : i \in 1..Len(winSet) /\ winSet[i] = next_win_id + i - 1
    BY <2>1, <2>3 DEF Inv, Slots
  <2>5. n \in 1..(MaxWindow + 1 - next_win_id)
    <3>1. CASE it = 2
      BY <3>1, <1>1
    <3>2. CASE it # 2
      <4>1. n \in 2..n /\ n \in 1..Len(winSet)
        BY <3>2, <2>1, <2>3
      <4>2. winSet[n] = next_win_id + n - 1 /\ winSet[n] \in S /\ winSet[n] # NULL
        BY <4>1, <2>4, <1>1, <2>1, ElementOfSeq
      <4> QED
        BY <4>1, <4>2, <1>1, <2>1, <2>3 DEF Window
    <3> QED
      BY <3>1, <3>2
  <2>6. /\ winSet' \in Seq(S)
        /\ Len(winSet') = IF n <= Len(winSet) THEN Len(winSet) - n ELSE 0
        /\ \A i \in 1..Len(winSet') : winSet'[i] = winSet[i + n]
    <3>1. \A i \in it..Len(winSet) : winSet[i] \in S
      BY <1>1, <2>1, <2>3, ElementOfSeq
    <3>2. it \in Int /\ Len(winSet) \in Int
      BY <2>1, <2>3
    <3> HIDE DEF S
    <3>3. /\ SubSeq(winSet, it, Len(winSet)) \in Seq(S)
          /\ Len(SubSeq(winSet, it, Len(winSet))) =
               IF it <= Len(winSet) THEN Len(winSet) - it + 1 ELSE 0
          /\ \A i \in 1..(Len(winSet) - it + 1) :
                SubSeq(winSet, it, Len(winSet))[i] = winSet[it + i - 1]
      BY <3>1, <3>2, SubSeqProperties
    <3>4. /\ winSet' \in Seq(S)
          /\ Len(winSet') = IF it <= Len(winSet) THEN Len(winSet) - it + 1 ELSE 0
          /\ \A i \in 1..(Len(winSet) - it + 1) : winSet'[i] = winSet[it + i - 1]
      BY <2>2, <3>3
    <3>5. Len(winSet') = IF n <= Len(winSet) THEN Len(winSet) - n ELSE 0
      BY <3>4, <3>2
    <3>6. ASSUME NEW i \in 1..Len(winSet')
          PROVE  winSet'[i] = winSet[i + n]
      <4>1. i \in 1..(Len(winSet) - it + 1) /\ it + i - 1 = i + n
        BY <3>4, <3>2
      <4> QED
        BY <4>1, <3>4
    <3> QED
      BY <3>4, <3>5, <3>6
  <2>7. winSet' # <<>> => winSet'[1] = NULL
    <3> SUFFICES ASSUME winSet' # <<>> PROVE winSet'[1] = NULL
      OBVIOUS
    <3>1. Len(winSet') \in Nat \ {0}
      BY <2>6, EmptySeq
    <3>2. 1 \in 1..Len(winSet') /\ it \in 1..Len(winSet)
      BY <3>1, <2>6, <2>1, <2>3
    <3> QED
      BY <3>2, <2>6, <2>1
  <2>8. out' = out \o [i \in 1..n |-> next_win_id + i - 1]
    <3> DEFINE a == [i \in 1..1 |-> next_win_id + i - 1]
               b == [i \in 1..n |-> next_win_id + i - 1]
    <3>1. /\ tl \in Seq(Nat)
          /\ Len(tl) = n - 1
          /\ \A i \in 1..(n - 1) : tl[i] = winSet[i + 1]
      <4>1. \A i \in 2..n : winSet[i] \in Nat
        BY <2>4, <1>1, <2>1
      <4>2. 2 \in Int /\ it - 1 \in Int /\ \A i \in 2..(it - 1) : winSet[i] \in Nat
        BY <2>1, <4>1
      <4>3. /\ tl \in Seq(Nat)
            /\ Len(tl) = IF 2 <= it - 1 THEN it - 1 - 2 + 1 ELSE 0
            /\ \A i \in 1..(it - 1 - 2 + 1) : tl[i] = winSet[2 + i - 1]
        BY <4>2, SubSeqProperties
      <4> QED
        BY <4>3, <2>1, <2>3
    <3>2. /\ a \in Seq(Nat) /\ Len(a) = 1 /\ a[1] = next_win_id
          /\ b \in Seq(Nat) /\ Len(b) = n /\ \A i \in 1..n : b[i] = next_win_id + i - 1
      BY <1>1, <2>5
    <3>3. out \in Seq(Nat)
      BY <1>1, SeqMonotonic DEF Window
    <3> HIDE DEF a, b, tl
    <3>4. /\ a \o tl \in Seq(Nat) /\ Len(a \o tl) = n
          /\ \A i \in 1..n : (a \o tl)[i] = IF i <= 1 THEN a[i] ELSE tl[i - 1]
      <4>1. tl \in Seq(Nat) /\ a \in Seq(Nat)
        BY <3>1, <3>2
      <4>2. /\ a \o tl \in Seq(Nat) /\ Len(a \o tl) = Len(a) + Len(tl)
            /\ \A i \in 1..(Len(a) + Len(tl)) : (a \o tl)[i] =
                  IF i <= Len(a) THEN a[i] ELSE tl[i - Len(a)]
        BY <4>1, ConcatProperties, Zenon
      <4>3. Len(a) = 1 /\ Len(tl) = n - 1 /\ n \in Int
        BY <3>1, <3>2, <2>5, <1>1
      <4>4. Len(a) + Len(tl) = n
        BY <4>3
      <4> QED
        BY <4>2, <4>3, <4>4
    <3>5. \A i \in 1..n : (a \o tl)[i] = b[i]
      <4> SUFFICES ASSUME NEW i \in 1..n PROVE (a \o tl)[i] = b[i]
        OBVIOUS
      <4>1. CASE i = 1
        BY <4>1, <3>2, <3>4, <1>1, <2>5
      <4>2. CASE i # 1
        <5>1. i \in 2..n /\ i - 1 \in 1..(n - 1) /\ n \in Int
          BY <4>2, <1>1, <2>5
        <5>2. (a \o tl)[i] = winSet[i]
          BY <5>1, <3>1, <3>4
        <5> QED
          BY <5>1, <5>2, <2>4, <3>2
      <4> QED
        BY <4>1, <4>2
    <3>6. a \o tl = b
      BY <3>2, <3>4, <3>5, SeqEqual
    <3>7. (out \o a) \o tl = out \o (a \o tl)
      <4>1. tl \in Seq(Nat) /\ a \in Seq(Nat)
        BY <3>1, <3>2
      <4> QED
        BY <4>1, <3>3, ConcatAssociative
    <3> QED
      BY <3>6, <3>7, <2>2, <1>2 DEF a, b
  <2> QED
    BY <2>2, <2>4, <2>5, <2>6, <2>7, <2>8
<1> QED
  BY <1>3, <1>4

\* The invariant of the collector holds initially.
LEMMA InvInit == Init => Inv
<1> SUFFICES ASSUME Init PROVE Inv
  OBVIOUS
<1>1. /\ next_win_id = 0 /\ winSet = <<>> /\ out = <<>> /\ toArrive = Window
      /\ Len(winSet) = 0
  BY DEF Init, CollectorInit
<1>2. TypeOK
  BY <1>1 DEF TypeOK
<1>3. InOrder
  <2>1. /\ <<>> \in Seq(Nat) /\ Len(<<>>) = 0
        /\ [i \in 1..0 |-> i - 1] \in Seq(Nat)
        /\ Len([i \in 1..0 |-> i - 1]) = 0
    OBVIOUS
  <2>2. <<>> = [i \in 1..0 |-> i - 1]
    BY <2>1, SeqEqual
  <2> QED
    BY <1>1, <2>2 DEF InOrder
<1>4. Slots
  BY <1>1 DEF Slots
<1>5. Buffered
  BY <1>1 DEF Buffered, Window
<1> QED
  BY <1>2, <1>3, <1>4, <1>5 DEF Inv

\* The invariant is kept by the transmission of a window.
LEMMA TransmitInv ==
    ASSUME Inv, NEW id \in toArrive, Transmit(id), toArrive' = toArrive \ {id}
    PROVE  Inv'
<1>1. PICK n \in 1..(MaxWindow + 1 - next_win_id) :
              /\ next_win_id' = next_win_id + n
              /\ out' = out \o [i \in 1..n |-> next_win_id + i - 1]
              /\ winSet' \in Seq(Window \cup {NULL})
              /\ Len(winSet') = IF n <= Len(winSet) THEN Len(winSet) - n ELSE 0
              /\ \A i \in 1..Len(winSet') : winSet'[i] = winSet[i + n]
              /\ winSet' # <<>> => winSet'[1] = NULL
              /\ \A i \in 2..n : i \in 1..Len(winSet) /\ winSet[i] = next_win_id + i - 1
  BY TransmitStep
<1>2. /\ id = next_win_id /\ id \in Window
      /\ next_win_id \in Nat /\ MaxWindow \in Nat /\ Len(winSet) \in Nat
      /\ out = Prefix(next_win_id) /\ n \in Nat \ {0}
  BY <1>1, MaxWindowAssumption, LenProperties
     DEF Inv, TypeOK, InOrder, Prefix, Transmit, IsNext, Window
<1>3. InOrder'
  <2>1. out' = Prefix(next_win_id + n)
    BY <1>1, <1>2, PrefixConcat
  <2> QED
    BY <1>1, <2>1 DEF InOrder, Prefix
<1>4. TypeOK'
  <2>1. out' \in Seq(Window)
    <3>1. \A i \in 1..next_win_id' : i - 1 \in Window
      BY <1>1, <1>2 DEF Window
    <3>2. next_win_id' \in Nat
      BY <1>1, <1>2
    <3> QED
      BY <1>3, <3>1, <3>2 DEF InOrder
  <2>2. next_win_id' \in Nat
    BY <1>1, <1>2
  <2>3. toArrive' \in SUBSET Window
    BY DEF Inv, TypeOK
  <2> QED
    BY <1>1, <2>1, <2>2, <2>3 DEF TypeOK, Window
<1>5. Slots'
  <2>1. ASSUME NEW i \in 1..Len(winSet'), winSet'[i] # NULL
        PROVE  winSet'[i] = next_win_id' + i - 1
    <3>1. i + n \in 1..Len(winSet) /\ winSet'[i] = winSet[i + n]
      BY <1>1, <1>2
    <3>2. winSet[i + n] = next_win_id + (i + n) - 1
      BY <2>1, <3>1 DEF Inv, Slots
    <3> QED
      BY <1>1, <1>2, <3>1, <3>2
  <2> QED
    BY <1>1, <2>1 DEF Slots
<1>6. Buffered'
  <2> SUFFICES ASSUME NEW j \in Window
               PROVE  j \notin toArrive' <=>
                        \/ j < next_win_id'
                        \/ /\ j - next_win_id' + 1 \in 1..Len(winSet')
                           /\ winSet'[j - next_win_id' + 1] = j
    BY DEF Buffered, Window
  <2>1. j \notin toArrive <=>
            \/ j < next_win_id
            \/ /\ j - next_win_id + 1 \in 1..Len(winSet)
               /\ winSet[j - next_win_id + 1] = j
    BY DEF Inv, Buffered
  <2>2. j \in Nat
    BY DEF Window
  <2>3. CASE j < next_win_id
    BY <2>3, <2>1, <2>2, <1>1, <1>2
  <2>4. CASE j = next_win_id
    BY <2>4, <2>2, <1>1, <1>2
  <2>5. CASE j > next_win_id /\ j < next_win_id + n
    <3>1. j - next_win_id + 1 \in 2..n
      BY <2>5, <2>2, <1>2
    <3>2. /\ j - next_win_id + 1 \in 1..Len(winSet)
          /\ winSet[j - next_win_id + 1] = next_win_id + (j - next_win_id + 1) - 1
      BY <3>1, <1>1
    <3>3. next_win_id + (j - next_win_id + 1) - 1 = j
      BY <2>2, <1>2
    <3> QED
      BY <3>2, <3>3, <2>1, <2>2, <2>5, <1>1, <1>2
  <2>6. CASE j >= next_win_id + n
    <3>1. j # id /\ ~(j < next_win_id) /\ ~(j < next_win_id')
      BY <2>6, <2>2, <1>1, <1>2
    <3>2. j - next_win_id' + 1 \in 1..Len(winSet')
            <=> j - next_win_id + 1 \in 1..Len(winSet)
      BY <2>6, <2>2, <1>1, <1>2
    <3>3. ASSUME j - next_win_id' + 1 \in 1..Len(winSet')
          PROVE  winSet'[j - next_win_id' + 1] = winSet[j - next_win_id + 1]
      <4>1. winSet'[j - next_win_id' + 1] = winSet[(j - next_win_id' + 1) + n]
        BY <1>1, <3>3
      <4>2. (j - next_win_id' + 1) + n = j - next_win_id + 1
        BY <2>2, <1>1, <1>2
      <4> QED
        BY <4>1, <4>2
    <3> QED
      BY <2>1, <3>1, <3>2, <3>3
  <2> QED
    BY <2>2, <2>3, <2>4, <2>5, <2>6, <1>2
<1> QED
  BY <1>3, <1>4, <1>5, <1>6 DEF Inv

\* The invariant is kept when a window is put in the deque.
LEMMA BufferInv ==
    ASSUME Inv, NEW id \in toArrive, Buffer(id), toArrive' = toArrive \ {id}
    PROVE  Inv'
<1> DEFINE slot == Slot(id)
           size == IF slot > Len(winSet) THEN slot ELSE Len(winSet)
           ws   == [i \in 1..size |-> IF i = slot THEN id
                                      ELSE IF i <= Len(winSet) THEN winSet[i]
                                      ELSE NULL]
<1>1. /\ id \in Window /\ id \in Nat /\ next_win_id \in Nat /\ id > next_win_id
      /\ winSet \in Seq(Window \cup {NULL}) /\ Len(winSet) \in Nat
      /\ slot \in Nat /\ slot >= 2 /\ size \in Nat
      /\ slot <= size /\ Len(winSet) <= size
  BY LenProperties, MaxWindowAssumption DEF Inv, TypeOK, Buffer, Slot, Window
<1>2. /\ winSet' = ws
      /\ next_win_id' = next_win_id /\ out' = out
  BY DEF Buffer
<1>3. /\ ws \in Seq(Window \cup {NULL}) /\ Len(ws) = size
  <2>1. \A i \in 1..size : ws[i] \in Window \cup {NULL}
    BY <1>1, ElementOfSeq
  <2> QED
    BY <2>1, <1>1
<1>4. TypeOK'
  BY <1>2, <1>3 DEF Inv, TypeOK, Window
<1>5. InOrder'
  BY <1>2 DEF Inv, InOrder
<1>6. Slots'
  BY <1>1, <1>2, <1>3, EmptySeq DEF Inv, Slots, Slot
<1>7. Buffered'
  <2> SUFFICES ASSUME NEW j \in Window
               PROVE  j \notin toArrive' <=>
                        \/ j < next_win_id'
                        \/ /\ j - next_win_id' + 1 \in 1..Len(winSet')
                           /\ winSet'[j - next_win_id' + 1] = j
    BY DEF Buffered, Window
  <2>1. j \notin toArrive <=>
            \/ j < next_win_id
            \/ /\ j - next_win_id + 1 \in 1..Len(winSet)
               /\ winSet[j - next_win_id + 1] = j
    BY DEF Inv, Buffered
  <2>2. j \in Nat /\ j # NULL
    BY DEF Window, NULL
  <2>3. CASE j = id
    BY <2>3, <1>1, <1>2, <1>3 DEF Slot
  <2>4. CASE j # id
    <3> DEFINE i == j - next_win_id + 1
    <3>1. i \in Int /\ i # slot
      BY <2>2, <2>4, <1>1 DEF Slot
    <3> HIDE DEF slot
    <3>2. CASE i \in 1..Len(winSet)
      BY <3>1, <3>2, <2>1, <2>4, <1>1, <1>2, <1>3
    <3>3. CASE i \notin 1..Len(winSet)
      <4>1. ~(i \in 1..Len(ws) /\ ws[i] = j)
        BY <3>1, <3>3, <2>2, <1>1, <1>3
      <4> QED
        BY <4>1, <3>3, <2>1, <2>4, <1>2
    <3> QED
      BY <3>2, <3>3
  <2> QED
    BY <2>3, <2>4
<1> QED
  BY <1>4, <1>5, <1>6, <1>7 DEF Inv

\* The invariant is kept by every step.
LEMMA InvNext == Inv /\ [Next]_vars => Inv'
<1> SUFFICES ASSUME Inv, [Next]_vars PROVE Inv'
  OBVIOUS
<1>1. ASSUME NEW id \in Window, Receive(id) PROVE Inv'
  <2>1. id \in toArrive /\ toArrive' = toArrive \ {id}
    BY <1>1 DEF Receive
  <2>2. CASE Transmit(id)
    BY <2>1, <2>2, TransmitInv
  <2>3. CASE Buffer(id)
    BY <2>1, <2>3, BufferInv
  <2> QED
    BY <1>1, <2>2, <2>3 DEF Receive, Collect
<1>2. CASE UNCHANGED vars
  BY <1>2 DEF vars, Inv, TypeOK, InOrder, Slots, Buffered
<1> QED
  BY <1>1, <1>2 DEF Next, Finished

-----------------------------------------------------------------------------
(* Theorems                                                                *)

\* The inductive invariant holds in every state.
LEMMA Invariance == Spec => []Inv
  BY InvInit, InvNext, PTL DEF Spec

\* The collector's state keeps its types: in particular the deque never holds
\* anything but windows and free slots.
THEOREM TypeCorrect == Spec => []TypeOK
<1>1. Inv => TypeOK
  BY DEF Inv
<1> QED
  BY <1>1, Invariance, PTL

\* The client sees window 0 first and then each window right after its
\* predecessor (WLQ_Collector::svc), for any number of windows and any order
\* of arrival.
THEOREM OrderCorrect == Spec => []InOrder
<1>1. Inv => InOrder
  BY DEF Inv
<1> QED
  BY <1>1, Invariance, PTL

\* No window is lost or misplaced by the offsets of the deque: what was
\* received and not transmitted is in its slot.
THEOREM BufferCorrect == Spec => []Buffered
<1>1. Inv => Buffered
  BY DEF Inv
<1> QED
  BY <1>1, Invariance, PTL

\* A window waits only for a window that is still missing, namely the next one.
THEOREM HoldCorrect == Spec => []NothingHeldBack
<1>1. Inv => NothingHeldBack
  <2> SUFFICES ASSUME Inv, NEW i \in 1..Len(winSet), winSet[i] # NULL
               PROVE  next_win_id \in toArrive
    BY DEF NothingHeldBack
  <2>1. /\ winSet \in Seq(Window \cup {NULL}) /\ Len(winSet) \in Nat
        /\ next_win_id \in Nat /\ MaxWindow \in Nat
    BY LenProperties, MaxWindowAssumption DEF Inv, TypeOK
  <2>2. winSet # <<>> /\ 1 \in 1..Len(winSet) /\ winSet[1] = NULL
    BY <2>1, EmptySeq DEF Inv, Slots
  <2>3. next_win_id + i - 1 \in Window
    BY <2>1, ElementOfSeq DEF Inv, Slots
  <2>4. next_win_id \in Window
    BY <2>1, <2>3 DEF Window
  <2>5. next_win_id - next_win_id + 1 = 1 /\ ~(next_win_id < next_win_id)
    BY <2>1
  <2>6. next_win_id # NULL
    BY <2>1 DEF NULL
  <2> QED
    BY <2>2, <2>4, <2>5, <2>6 DEF Inv, Buffered
<1> QED
  BY <1>1, Invariance, PTL

\* Every step emits the next windows or leaves the output alone.
LEMMA StepRefines == Inv /\ [Next]_vars => [Ordered!Next]_out
<1> SUFFICES ASSUME Inv, [Next]_vars PROVE Ordered!Next \/ out' = out
  OBVIOUS
<1>1. ASSUME NEW id \in Window, id \in toArrive, Transmit(id)
      PROVE  Ordered!Next
  <2>1. PICK n \in 1..(MaxWindow + 1 - next_win_id) :
            out' = out \o [i \in 1..n |-> next_win_id + i - 1]
    BY <1>1, TransmitStep
  <2>2. Len(out) = next_win_id /\ next_win_id \in Nat /\ MaxWindow \in Nat
    BY MaxWindowAssumption, PrefixConcat DEF Inv, TypeOK, InOrder, Prefix
  <2>3. n \in 1..(MaxWindow + 1) /\ Len(out) + n <= MaxWindow + 1
    BY <2>2
  <2>4. Ordered!Emit(n)
    BY <2>1, <2>2, <2>3 DEF Ordered!Emit
  <2> QED
    BY <2>3, <2>4 DEF Ordered!Next
<1>2. ASSUME NEW id \in Window, Buffer(id) PROVE out' = out
  BY <1>2 DEF Buffer
<1>3. CASE UNCHANGED vars
  BY <1>3 DEF vars
<1> QED
  BY <1>1, <1>2, <1>3 DEF Next, Finished, Receive, Collect

\* The collector implements the abstract specification of the stage: every
\* step emits the next windows or leaves the output alone.
THEOREM CollectorRefines == Spec => RefinesOrdered
<1>1. Init => Ordered!Init
  BY DEF Init, CollectorInit, Ordered!Init
<1> QED
  BY <1>1, StepRefines, Invariance, PTL DEF Spec, RefinesOrdered, Ordered!Spec

=============================================================================
