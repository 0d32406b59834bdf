--------------------------- MODULE FuzzyStrategy ---------------------------
(***************************************************************************)
(* The parallelism degrees that the fuzzy adaptation strategy asks for     *)
(* (FuzzyStrategy::evaluate of include/fuzzy.hpp).  The rules give, for    *)
(* each stage, the factor by which its degree varies: a mean of the        *)
(* constants 0.5 to 1.5, here in thousandths.  The rules themselves are    *)
(* left out: any pair of factors may come out of them.                     *)
(***************************************************************************)
EXTENDS Integers

CONSTANT NUM_WORKER_THREADS \* number of threads of the worker pool of each stage

ASSUME FuzzyAssumption == NUM_WORKER_THREADS \in Nat \ {0, 1}

AtLeastOne(n) == IF n < 1 THEN 1 ELSE n

\* round(a / b) of a quotient computed in floating point: an exact half may
\* fall below itself and go either way (up).
Rounded(a, b, up) ==
    IF 2 * (a % b) = b /\ ~up THEN a \div b ELSE (2 * a + b) \div (2 * b)

\* Mutant of Degree: a stage may lose all its workers.
Degree_Zero(nw, v) == (nw * v) \div 1000

\* The degree nw varied by the factor v, with the special cases of the small
\* degrees.
Degree(nw, v) ==
    IF nw = 1 /\ v >= 1250 THEN 2
    ELSE IF nw = 2 /\ v >= 563 /\ v < 1250 THEN 2
    ELSE IF nw = 3 /\ v >= 793 /\ v < 1170 THEN 3
    ELSE AtLeastOne(Rounded(nw * v, 1000, TRUE))

\* The degrees asked, reduced in proportion to the threads there are.
Reduced(asked, up) ==
    LET sum == asked["PLQ"] + asked["WLQ"]
        part(st) == Rounded(NUM_WORKER_THREADS * asked[st], sum, up[st])
        extra == IF part("PLQ") + part("WLQ") > NUM_WORKER_THREADS THEN 1 ELSE 0
    IN [st \in {"PLQ", "WLQ"} |->
           IF st = "PLQ" THEN part(st) - extra ELSE part(st)]

Asked(nw, v) == [st \in {"PLQ", "WLQ"} |-> Degree(nw[st], v[st])]
Fits(asked)  == asked["PLQ"] + asked["WLQ"] <= NUM_WORKER_THREADS

\* evaluate: nw and v give the degree and the factor of each stage.
evaluate(nw, v, up) ==
    IF Fits(Asked(nw, v)) THEN Asked(nw, v) ELSE Reduced(Asked(nw, v), up)

=============================================================================
