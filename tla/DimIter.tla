------------------------------ MODULE DimIter ------------------------------
(* dim_iter: iterating over the elements of a strided dimension, directly or *)
(* through a buffer that converts a chunk of them at a time. Elements are    *)
(* numbers; a chunk is what the iterator shows: count elements after from.   *)
EXTENDS Integers, Sequences, FiniteSets, SequencesExt, Calls

CONSTANTS DimSizes,    \* sizes of the dimension
          Buffers,     \* how many elements the memory for a buffer takes
          MaxScript    \* how many functions of an iterator are called

Advance == -1          \* next; other members of a script are indexes to seek

(* ---- strided_dim_iter ----------------------------------------------------*)
\* Before the first next and after a seek out of range nothing is shown: the
\* data pointer is null, as it always is for make_empty_dim_iter.
Show(it, from, count)  == [it EXCEPT !.shown = ~it.null, !.from = from, !.count = count]

StridedNext(it) ==
    IF ~it.shown THEN [Show(it, 0, it.n) EXCEPT !.ret = 1]
    ELSE [it EXCEPT !.count = 0, !.ret = 0]

StridedSeek(it, i) ==
    IF i \in 0..it.n - 1 THEN Show(it, i, it.n - i) ELSE [it EXCEPT !.shown = FALSE, !.count = 0]

(* ---- buffered_strided_dim_iter -------------------------------------------*)
\* Mutant: the last chunk is as long as the others.
BufferedNextWhole(it) ==
    IF it.next < it.n
    THEN [Show(it, it.next, it.buffer) EXCEPT !.next = @ + it.buffer, !.ret = 1]
    ELSE [it EXCEPT !.count = 0, !.ret = 0]

BufferedNext(it) ==
    LET count == IF it.next + it.buffer > it.n THEN it.n - it.next ELSE it.buffer
    IN  IF it.next < it.n
        THEN [Show(it, it.next, count) EXCEPT !.next = @ + count, !.ret = 1]
        ELSE [it EXCEPT !.count = 0, !.ret = 0]

BufferedSeek(it, i) == BufferedNext([it EXCEPT !.next = i])

(* ---- making and using one ------------------------------------------------*)
\* The elements are converted at once where they all fit into the buffer.
MakeIter(c) ==
    [n |-> c.n, null |-> c.null, shown |-> FALSE, from |-> 0, count |-> 0, ret |-> 0, next |-> 0,
     buffered |-> c.converts /\ c.fit < c.n, buffer |-> c.fit]

Do(it, step) ==
    IF it.buffered THEN IF step = Advance THEN BufferedNext(it) ELSE BufferedSeek(it, step)
    ELSE IF step = Advance THEN StridedNext(it) ELSE StridedSeek(it, step)

\* What the iterator shows after each step
Iterate(c) ==
    Tail(FoldLeft(LAMBDA its, step : Append(its, Do(Last(its), step)), <<MakeIter(c)>>, c.script))

(* ---- calls ---------------------------------------------------------------*)
\* An index to seek is one of the dimension's.
IterCall ==
    \E n \in DimSizes, fit \in Buffers, converts \in BOOLEAN, k \in 1..MaxScript :
    \E script \in [1..k -> {Advance} \cup 0..n - 1], null \in {FALSE, n = 0} :
        /\ converts => ~null
        /\ call = [op |-> "dim_iter", n |-> n, null |-> null, converts |-> converts, fit |-> fit,
                   script |-> script]

IterateDim == /\ Asked /\ call.op = "dim_iter"
              /\ outcome' = <<Iterate(call)>>

(* ---- properties ----------------------------------------------------------*)
\* next shows the elements from where it was left, each once and in order, and
\* says whether there are any; seek shows those from an index on, and next goes
\* on from there. Only an empty dimension is said to have elements, for ever
\* where its data pointer is null; and a buffer that takes no element shows none
\* for ever. (dim_iter.cpp)
IteratesElements ==
    Answered({"dim_iter"}) =>
        LET c         == call
            shows(k)  == Answer[k].count
            \* where the elements shown after step k end
            left(k)   == IF k = 0 THEN 0 ELSE Answer[k].from + shows(k)
            begins(k) == IF c.script[k] # Advance THEN c.script[k]
                         ELSE LET some == {j \in 1..k - 1 : shows(j) > 0}
                              IN  IF some = {} THEN 0 ELSE left(Max(some))
        IN  IF c.n = 0 \/ (c.fit = 0 /\ c.converts)
            THEN \A k \in DOMAIN Answer : shows(k) = 0
            ELSE \A k \in DOMAIN Answer :
                    /\ IF begins(k) < c.n THEN shows(k) > 0 /\ Answer[k].from = begins(k)
                                          ELSE shows(k) = 0
                    /\ left(k) <= c.n
                    /\ c.script[k] = Advance => (Answer[k].ret = 1 <=> shows(k) > 0)
=============================================================================
