------------------------------- MODULE KSlack -------------------------------
(***************************************************************************)
(* The K-slack algorithms of include/kslack.hpp as operators on a record:  *)
(* KSlack_Punc and KSlackPID_Punc, which derive punctuations from the      *)
(* stream, and KSlack_Buffer and KSlackPID_Buffer, which reorder it.  A    *)
(* tuple is its timestamp.                                                 *)
(***************************************************************************)
EXTENDS Integers, Sequences, FiniteSetsExt

\* tcurr: the highest timestamp seen; ts_vect: the timestamps seen since it
\* changed; K: the greatest delay found; buffer: the tuples waiting, in order.
NewKSlack == [K |-> 0, tcurr |-> 0, ts_vect |-> {}, buffer |-> <<>>]

NoPunct == -1           \* the stream made no progress

\* A tuple is seen: a new highest timestamp reveals the delays since the last.
Seen(k, ts) ==
    LET times == k.ts_vect \cup {ts}
    IN IF ts <= k.tcurr THEN [k EXCEPT !.ts_vect = times]
       ELSE [k EXCEPT !.tcurr = ts, !.ts_vect = {},
                      !.K = Max({k.K} \cup {ts - u : u \in times})]

\* The progress of the stream on the tuple ts, with the full slack K or any part
\* of it, according to the PID that adapts it to the tuples dropped so far.
Progress(k, ts) ==
    IF ts <= k.tcurr THEN {NoPunct}
    ELSE (ts - Seen(k, ts).K)..ts

\* insertTuple: before the first tuple that is not older.
Inserted(k, ts) ==
    LET older == Cardinality({i \in DOMAIN k.buffer : k.buffer[i] < ts})
    IN [Seen(k, ts) EXCEPT
          !.buffer = SubSeq(@, 1, older) \o <<ts>> \o SubSeq(@, older + 1, Len(@))]

\* The number of buffered tuples up to the limit, which are the first ones.
Ripe(k, limit) == Cardinality({i \in DOMAIN k.buffer : k.buffer[i] <= limit})

\* extractTuple until it returns NULL: the tuples up to the limit, which leave
\* the buffer.
Extracted(k, limit) == SubSeq(k.buffer, 1, Ripe(k, limit))
Remaining(k, limit) == [k EXCEPT !.buffer = SubSeq(@, Ripe(k, limit) + 1, Len(@))]

=============================================================================
