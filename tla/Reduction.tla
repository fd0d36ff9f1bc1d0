----------------------------- MODULE Reduction -----------------------------
(* make_lifted_reduction_ckernel: the kernel that reduces some dimensions of *)
(* a strided array and broadcasts the others, one level per dimension, down  *)
(* to the kernel that accumulates one element.                               *)
(*                                                                           *)
(* A destination element is the sequence of what went into it: the identity, *)
(* or source elements by their address, each where the operation puts it.    *)
EXTENDS Integers, Sequences, FiniteSets, SequencesExt, Calls

CONSTANT Reducible   \* shapes of the arrays to reduce

Identity == -1

\* Strides of an array: zero for dimensions of at most one element
\* (fixed_dim_type::arrmeta_default_construct)
Strides(shape) ==
    [i \in DOMAIN shape |->
        IF shape[i] <= 1 THEN 0
        ELSE FoldLeft(LAMBDA n, m : n * m, 1, SubSeq(shape, i + 1, Len(shape)))]

Times(n, mem, step(_, _)) == FoldLeft(step, mem, [i \in 1..n |-> i - 1])

(* ---- the accumulating kernel ---------------------------------------------*)
\* A unary operation accumulates into the destination; a binary one is called
\* with the source for its first operand and the destination for its second
\* (binary_as_unary_left_associative_reduction_adapter)
Accumulated(binary, old, s) == IF binary THEN <<s>> \o old ELSE Append(old, s)

(* ---- the levels: [reduce, size, dst (stride), src (stride)] --------------*)
RECURSIVE First(_, _, _, _, _), FirstStrided(_, _, _, _, _, _, _, _),
          Followup(_, _, _, _, _, _, _, _)

IsInner(ks) == Len(ks) = 1

\* Followup calls accumulate only; below the last level lies the operation.
Followup(ks, c, mem, d, ds, s, ss, n) ==
    Times(n, mem, LAMBDA m, i :
        IF ks = << >>
        THEN [m EXCEPT ![d + i * ds] = Accumulated(c.binary, @, s + i * ss)]
        ELSE Followup(Tail(ks), c, m, d + i * ds, ks[1].dst, s + i * ss, ks[1].src, ks[1].size))

\* The identity in every destination element of the innermost level
Identities(k, mem, d) ==
    Times(IF k.reduce THEN 1 ELSE k.size, mem, LAMBDA m, i : [m EXCEPT ![d + i * k.dst] = <<Identity>>])

\* A first call initialises the destination elements it meets first: with the
\* identity, or with the source element (the dst_init kernel, below the last
\* level). Mutant: the followup calls begin at the first element again.
FirstFromStart(ks, c, mem, d, s) ==
    IF ks = << >> THEN [mem EXCEPT ![d] = <<s>>]
    ELSE LET k == ks[1] IN
    IF c.identity /\ IsInner(ks)
    THEN Followup(<< >>, c, Identities(k, mem, d), d, k.dst, s, k.src, k.size)
    ELSE IF k.reduce
    THEN Followup(Tail(ks), c, First(Tail(ks), c, mem, d, s), d, 0, s, k.src, k.size - 1)
    ELSE FirstStrided(Tail(ks), c, mem, d, k.dst, s, k.src, k.size)

First(ks, c, mem, d, s) ==
    IF ks = << >> THEN [mem EXCEPT ![d] = <<s>>]
    ELSE LET k == ks[1] IN
    IF c.identity /\ IsInner(ks)
    THEN Followup(<< >>, c, Identities(k, mem, d), d, k.dst, s, k.src, k.size)
    ELSE IF k.reduce
    THEN Followup(Tail(ks), c, First(Tail(ks), c, mem, d, s), d, 0, s + k.src, k.src, k.size - 1)
    ELSE FirstStrided(Tail(ks), c, mem, d, k.dst, s, k.src, k.size)

\* A destination stride of zero says that all n calls meet the same elements:
\* one first call, which is made even when n is zero, then followup calls.
FirstStrided(ks, c, mem, d, ds, s, ss, n) ==
    IF ks = << >> \/ ds # 0
    THEN Times(n, mem, LAMBDA m, i : First(ks, c, m, d + i * ds, s + i * ss))
    ELSE IF c.identity /\ IsInner(ks)
    THEN Followup(ks, c, Identities(ks[1], mem, d), d, 0, s, ss, n)
    ELSE Followup(ks, c, First(ks, c, mem, d, s), d, 0, s + ss, ss, n - 1)

(* ---- building the levels -------------------------------------------------*)
Axes(c)    == DOMAIN c.src
Reduced(c) == {i \in Axes(c) : c.reduce[i]}

\* The shape lift_reduction_arrfunc gives the result
LiftedShape(src, reduce, keepdims) ==
    LET axes == SelectSeq([i \in DOMAIN src |-> i], LAMBDA i : keepdims \/ ~reduce[i])
    IN  [j \in DOMAIN axes |-> IF reduce[axes[j]] THEN 1 ELSE src[axes[j]]]

\* Are reduced dimensions kept? The number of destination dimensions tells.
KeepDims(c) == Len(c.dst) = Len(c.src)

\* The destination dimension that goes with source dimension i
DstAxis(c, i) == IF KeepDims(c) THEN i ELSE Cardinality((1..i) \ Reduced(c))

\* Why a kernel is not built: nothing to reduce, an operation that may not be
\* regrouped, a destination of other dimensions, an empty dimension without an
\* identity, a destination of another size
Refused(c) ==
    \/ Reduced(c) = {} /\ c.src # << >>
    \/ Cardinality(Reduced(c)) > 1 /\ ~c.regroups
    \/ Len(c.dst) \notin {Len(c.src), Len(c.src) - Cardinality(Reduced(c))}
    \/ \E i \in Reduced(c) : c.src[i] = 0 /\ ~c.identity
    \/ \E i \in Reduced(c) : KeepDims(c) /\ c.dst[i] # 1
    \/ \E i \in Axes(c) \ Reduced(c) : c.dst[DstAxis(c, i)] # c.src[i]

\* No dimension at all is a reduction of one element
Levels(c) ==
    IF c.src = << >> THEN IF c.identity THEN <<[reduce |-> TRUE, size |-> 1, dst |-> 0, src |-> 0]>>
                          ELSE << >>
    ELSE [i \in Axes(c) |->
             [reduce |-> c.reduce[i], size |-> c.src[i], src |-> Strides(c.src)[i],
              dst |-> IF c.reduce[i] THEN 0 ELSE Strides(c.dst)[DstAxis(c, i)]]]

SizeOf(shape) == FoldLeft(LAMBDA n, m : n * m, 1, shape)

\* Destination elements and one more behind the last
Before(n) == [p \in 0..n |-> << >>]

\* The outcome of building the kernel and calling it once, or count times along
\* one more dimension of source and destination
Reduce(c) ==
    IF Refused(c) THEN [built |-> FALSE, dst |-> << >>]
    ELSE LET n == SizeOf(c.dst)
             m == SizeOf(c.src)
         IN  [built |-> TRUE,
              dst   |-> IF c.count = -1 THEN First(Levels(c), c, Before(n), 0, 0)
                        ELSE FirstStrided(Levels(c), c, Before(n * c.count), 0,
                                          IF c.count <= 1 THEN 0 ELSE n, 0, m, c.count)]

(* ---- what a reduction is -------------------------------------------------*)
\* All index tuples of a shape
Places(shape) == FoldLeft(LAMBDA S, n : {Append(t, i) : t \in S, i \in 0..n - 1}, {<< >>}, shape)

\* The address of an index tuple
Address(shape, t) ==
    FoldLeft(LAMBDA a, i : a + t[i] * Strides(shape)[i], 0, [i \in DOMAIN shape |-> i])

\* The source elements that go into the destination element at an index, in order
Fiber(c, t) ==
    LET matches == {Address(c.src, u) : u \in
                       {p \in Places(c.src) : \A i \in Axes(c) \ Reduced(c) : p[i] = t[DstAxis(c, i)]}}
    IN  SelectSeq([k \in 1..SizeOf(c.src) |-> k - 1], LAMBDA a : a \in matches)

(* ---- calls ---------------------------------------------------------------*)
\* The destination has the shape lift_reduction_arrfunc computes, or one that does
\* not fit. Only the last dimension may be empty: of an empty outer one the kernel
\* reads and writes elements that are not there
ReduceCall ==
    \E src \in {s \in Reducible : \A i \in 1..Len(s) - 1 : s[i] # 0} :
    \E reduce \in [DOMAIN src -> BOOLEAN] :
    \E dst \in {LiftedShape(src, reduce, keep) : keep \in BOOLEAN}
               \cup (IF src = << >> THEN {} ELSE {src, Append(src, 1)}),
       identity, regroups, binary \in BOOLEAN, count \in {-1, 1, 2} :
        call = [op |-> "reduce", src |-> src, reduce |-> reduce, dst |-> dst, identity |-> identity,
                regroups |-> regroups, binary |-> binary, count |-> count]

ReduceArray == /\ Asked /\ call.op = "reduce"
               /\ outcome' = <<Reduce(call)>>

(* ---- properties ----------------------------------------------------------*)
\* The destination elements of a call: the first element of each repetition
\* and an index tuple into it
Elements == {<<r, t>> : r \in 0..(IF call.count = -1 THEN 1 ELSE call.count) - 1,
                        t \in Places(call.dst)}
Offset(r, shape, t) == r * SizeOf(shape) + Address(shape, t)

\* What a destination element has to be made of, in the order of the source
Folded(r, t) ==
    LET fiber == Fiber(call, t)
    IN  (IF call.identity THEN <<Identity>> ELSE << >>)
        \o [j \in DOMAIN fiber |-> r * SizeOf(call.src) + fiber[j]]

\* A reduction makes every destination element from the identity, if there is
\* one, and exactly the source elements of its fiber, each once and in order,
\* and writes nothing else. The element itself is the right operand of a binary
\* operation, so that one sees its operands in the opposite order. It is refused
\* when the destination is not what lifting gives, and only for cause.
\* (make_lifted_reduction_ckernel, lift_reduction_arrfunc)
ReducesAsFold ==
    Answered({"reduce"}) =>
        IF Answer.built
        THEN /\ \A e \in Elements :
                    LET got == Answer.dst[Offset(e[1], call.dst, e[2])]
                    IN  Folded(e[1], e[2]) = IF call.binary THEN Reverse(got) ELSE got
             /\ Answer.dst[Max(DOMAIN Answer.dst)] = << >>
             /\ \E keep \in BOOLEAN : call.dst = LiftedShape(call.src, call.reduce, keep)
        ELSE \/ call.src # << >> /\ TRUE \notin {call.reduce[i] : i \in DOMAIN call.reduce}
             \/ ~call.regroups
             \/ 0 \in {call.src[i] : i \in DOMAIN call.src} /\ ~call.identity
             \/ call.dst \notin {LiftedShape(call.src, call.reduce, keep) : keep \in BOOLEAN}
=============================================================================
