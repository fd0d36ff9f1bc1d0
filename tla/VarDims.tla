------------------------------ MODULE VarDims ------------------------------
(* One element of a var dimension and the kernels that write it: assignment  *)
(* from a scalar, a strided or a var dimension, elementwise functions of two *)
(* operands, masked take, rolling windows, and var_dim_element_initialize    *)
(* and var_dim_element_resize, which the parsers grow elements with.         *)
(*                                                                           *)
(* An element is a begin pointer (null until memory is allocated for it) and *)
(* a size.  The memory block gives memory or throws; for no bytes it may     *)
(* give the null pointer, which a POD block does before its first chunk.     *)
EXTENDS Integers, FiniteSets, FiniteSetsExt

CONSTANTS MaxSize,    \* bound on sizes
          Window      \* window of the rolling kernel

ASSUME VarDimsAssumption == MaxSize \in Nat /\ Window \in Nat \ {0}

VARIABLES
    null,     \* begin = NULL
    size,
    offset,   \* is the offset in the destination's arrmeta not zero?
    data,     \* what each element of the destination was computed from
    op,       \* the call being executed or executed last
    pc,       \* where it is: "idle" after it returned
    error,    \* how it ended: "none", "broadcast", "uninitialized", "memory", "element"
    i, from, to  \* loop variables of masked take: position, source, destination

vars == <<null, size, offset, data, op, pc, error, i, from, to>>

\* A source, its stride counted in elements.  The layout of a dimension of size
\* one has a stride of zero, but a slice of one element keeps the stride of the
\* dimension it was cut from, whose other elements lie around it.
Source(kind, n, stride) == [kind |-> kind, size |-> n, stride |-> stride, null |-> FALSE]
Fixed(n)  == Source("fixed", n, IF n > 1 THEN 1 ELSE 0)
Slice     == Source("fixed", 1, 1)
Var(n)    == Source("var", n, 1)
NullVar   == [Var(0) EXCEPT !.null = TRUE]
Sizes     == 0..MaxSize
Sources   == {Fixed(n) : n \in Sizes} \cup {Var(n) : n \in Sizes} \cup {Slice, NullVar}

\* Element k of the destination is the function of these elements of the sources
Old     == <<-1>>   \* untouched by the call
NAValue == <<-2>>   \* filled in by a rolling window
Fresh   == <<-3>>   \* allocated, not assigned

Init ==
    /\ null = TRUE /\ size = 0 /\ offset \in BOOLEAN /\ data = << >>
    /\ op = [kernel |-> "none"] /\ pc = "idle" /\ error = "none"
    /\ i = 0 /\ from = 0 /\ to = 0

(* ---- how a kernel chooses size and strides -------------------------------*)
\* Broadcasting the sources one after the other onto a size; -1 if they do not fit
Onto(n, s) == IF s.size \in {1, n} THEN n ELSE IF n = 1 THEN s.size ELSE -1

\* elwise_ck<var, ...>: the operands give the size of a new destination ...
NewSize(srcs) ==
    LET first == Onto(1, srcs[1])
    IN  IF first = -1 THEN -1 ELSE Onto(first, srcs[2])

\* ... and must fit the size of an existing one
FitsExisting(srcs) == \A s \in {srcs[1], srcs[2]} : s.size \in {1, size}

\* The assignment kernels have one source
FitsAssigned(s) == s.size \in {1, size}

\* Mutant: a source of one element is read with the stride it has.
IndexOwnStride(s, k) == k * s.stride

\* The element of source s that goes to element k where the kernel replaces the
\* stride of a source of size one by zero: elwise_ck and var_assign_ck
Index(s, k) == IF s.size = 1 THEN 0 ELSE k * s.stride

\* strided_to_var_assign_ck steps by the stride the source has, whatever its size
Stepped(s, n) == [k \in 0..n - 1 |-> <<k * s.stride>>]

Computed(srcs, n) == [k \in 0..n - 1 |-> [j \in DOMAIN srcs |-> Index(srcs[j], k)]]

(* ---- ends of a call ------------------------------------------------------*)
Fails(kernel, srcs, e) ==
    /\ op' = [kernel |-> kernel, srcs |-> srcs] /\ error' = e /\ pc' = "idle"
    /\ UNCHANGED <<null, size, offset, i, from, to>>
    /\ data' = [k \in 0..size - 1 |-> Old]

\* The child kernel assigns f to the n elements of the destination in order and
\* may throw at one of them.
ChildAssigns(kernel, srcs, before, f, n) ==
    \E k \in 0..n :
        /\ op' = [kernel |-> kernel, srcs |-> srcs]
        /\ error' = IF k < n THEN "element" ELSE "none"
        /\ data' = [j \in 0..n - 1 |-> IF j < k THEN f[j] ELSE before]
        /\ pc' = "idle"
        /\ UNCHANGED <<offset, i, from, to>>

\* Memory for n elements; the size is set before anything is assigned
Allocate(n) ==
    /\ null' \in IF n = 0 THEN BOOLEAN ELSE {FALSE}
    /\ size' = n

\* Mutant: an element that has memory gets the size of its source.
ExistingResized(kernel, srcs, f) ==
    /\ null' = null /\ size' = IF srcs = << >> THEN size ELSE srcs[1].size
    /\ ChildAssigns(kernel, srcs, Old, Computed(srcs, size'), size')

Existing(kernel, srcs, f) ==
    UNCHANGED <<null, size>> /\ ChildAssigns(kernel, srcs, Old, f, size)

New(kernel, srcs, n, f) ==
    \/ Fails(kernel, srcs, "memory")
    \/ Allocate(n) /\ ChildAssigns(kernel, srcs, Fresh, f, n)

(* ---- the kernels ---------------------------------------------------------*)
Idle == pc = "idle"

\* broadcast_to_var_assign_ck: one source element
BroadcastToVar ==
    LET srcs == <<Fixed(1)>> IN
    /\ Idle
    /\ \/ ~null /\ Existing("broadcast", srcs, Computed(srcs, size))
       \/ null /\ offset /\ Fails("broadcast", srcs, "uninitialized")
       \/ null /\ ~offset /\ New("broadcast", srcs, 1, Computed(srcs, 1))

\* strided_to_var_assign_ck
StridedToVar(s) ==
    /\ Idle /\ s.kind = "fixed"
    /\ \/ ~null /\ FitsAssigned(s) /\ Existing("strided", <<s>>, Stepped(s, size))
       \/ ~null /\ ~FitsAssigned(s) /\ Fails("strided", <<s>>, "broadcast")
       \/ null /\ offset /\ Fails("strided", <<s>>, "uninitialized")
       \/ null /\ ~offset /\ New("strided", <<s>>, s.size, Stepped(s, s.size))

\* var_assign_ck; nothing to nothing is allowed and does nothing
VarToVar(s) ==
    /\ Idle /\ s.kind = "var"
    /\ \/ ~null /\ s.null /\ Fails("var", <<s>>, "uninitialized")
       \/ ~null /\ ~s.null /\ ~FitsAssigned(s) /\ Fails("var", <<s>>, "broadcast")
       \/ ~null /\ ~s.null /\ FitsAssigned(s) /\ Existing("var", <<s>>, Computed(<<s>>, size))
       \/ null /\ offset /\ Fails("var", <<s>>, "uninitialized")
       \/ null /\ ~offset /\ s.null /\ Fails("var", <<s>>, "none")
       \/ null /\ ~offset /\ ~s.null /\ New("var", <<s>>, s.size, Computed(<<s>>, s.size))

\* elwise_ck<var_dim_type_id, fixed_dim_type_id, 2>; a null var source has size 0
Elwise(s1, s2) ==
    LET srcs == <<s1, s2>>
        n    == NewSize(srcs)
    IN
    /\ Idle
    /\ \/ ~null /\ FitsExisting(srcs) /\ Existing("elwise", srcs, Computed(srcs, size))
       \/ ~null /\ ~FitsExisting(srcs) /\ Fails("elwise", srcs, "broadcast")
       \/ null /\ offset /\ Fails("elwise", srcs, "uninitialized")
       \/ null /\ ~offset /\ n = -1 /\ Fails("elwise", srcs, "broadcast")
       \/ null /\ ~offset /\ n # -1 /\ New("elwise", srcs, n, Computed(srcs, n))

\* elwise_ck<var_dim_type_id, fixed_dim_type_id, 0>: a function of no operands
ElwiseNullary ==
    /\ Idle
    /\ \/ ~null /\ Existing("elwise", << >>, Computed(<< >>, size))
       \/ null /\ offset /\ Fails("elwise", << >>, "uninitialized")
       \/ null /\ ~offset /\ New("elwise", << >>, 1, Computed(<< >>, 1))

\* var_rolling_ck: NA until a window is full, then one strided call in which
\* element k reads the window that begins at k - Window + 1
RollingElement(k) == IF k < Window - 1 THEN NAValue ELSE <<k - Window + 1>>

Rolling(s) ==
    /\ Idle /\ s.kind = "var"
    /\ \/ (~null \/ offset) /\ Fails("rolling", <<s>>, "uninitialized")
       \/ null /\ ~offset /\ New("rolling", <<s>>, s.size,
                                 [k \in 0..s.size - 1 |-> RollingElement(k)])

(* ---- masked_take_ck ------------------------------------------------------*)
\* The destination begins with as many elements as the source ...
TakeBegin(s, mask) ==
    /\ Idle /\ s.kind = "fixed" /\ mask \subseteq 0..s.size - 1
    /\ op' = [kernel |-> "take", srcs |-> <<s>>, mask |-> mask]
    /\ \/ /\ ~null \/ offset
          /\ error' = "uninitialized"
          /\ data' = [k \in 0..size - 1 |-> Old]
          /\ UNCHANGED <<null, size, pc, i, from, to>>
       \/ /\ null /\ ~offset
          /\ error' = "memory"
          /\ data' = [k \in 0..size - 1 |-> Old]
          /\ UNCHANGED <<null, size, pc, i, from, to>>
       \/ /\ null /\ ~offset
          /\ Allocate(s.size)
          /\ error' = "none"
          /\ data' = [k \in 0..s.size - 1 |-> Fresh]
          /\ pc' = "take" /\ i' = 0 /\ from' = 0 /\ to' = 0
    /\ UNCHANGED offset

\* Mutant: the source is not moved over the elements that are left out.
TakeRunKeepsSource ==
    LET n     == op.srcs[1].size
        begin == Min({k \in i..n - 1 : k \in op.mask} \cup {n})
        end   == Min({k \in begin..n - 1 : k \notin op.mask} \cup {n})
        run   == end - begin
    IN
    /\ pc = "take" /\ i < n
    /\ data' = [j \in 0..size - 1 |->
                   IF j \in to..to + run - 1 THEN <<from + j - to>> ELSE data[j]]
    /\ i' = end /\ from' = from + run /\ to' = to + run
    /\ UNCHANGED <<null, size, offset, op, error, pc>>

\* ... takes runs of elements where the mask is true ...
TakeRun ==
    LET n     == op.srcs[1].size
        begin == Min({k \in i..n - 1 : k \in op.mask} \cup {n})
        end   == Min({k \in begin..n - 1 : k \notin op.mask} \cup {n})
        run   == end - begin
        first == from + (begin - i)
    IN
    /\ pc = "take" /\ i < n
    /\ \E k \in 0..run :
          /\ data' = [j \in 0..size - 1 |->
                         IF j \in to..to + k - 1 THEN <<first + j - to>> ELSE data[j]]
          /\ error' = IF k < run THEN "element" ELSE "none"
          /\ pc'    = IF k < run THEN "idle" ELSE "take"
    /\ i' = end /\ from' = first + run /\ to' = to + run
    /\ UNCHANGED <<null, size, offset, op>>

\* ... and is trimmed to what was taken. A null element would be initialised. The
\* range is the last one its block gave and shrinks: this resize does not throw.
TakeEnd ==
    /\ pc = "take" /\ i = op.srcs[1].size
    /\ IF null THEN Allocate(to) ELSE size' = to /\ UNCHANGED null
    /\ data' = [k \in 0..to - 1 |-> data[k]]
    /\ pc' = "idle"
    /\ UNCHANGED <<offset, op, error, i, from, to>>

(* ---- var_dim_element_resize ----------------------------------------------*)
\* Nothing changes when the element cannot be initialised, there is no memory, or
\* its block has given other memory since and refuses.
Resize(n) ==
    /\ Idle
    /\ op' = [kernel |-> "resize", srcs |-> << >>] /\ pc' = "idle"
    /\ \/ /\ error' = IF null /\ offset THEN "uninitialized" ELSE "memory"
          /\ data' = [k \in 0..size - 1 |-> Old]
          /\ UNCHANGED <<null, size>>
       \/ /\ ~(null /\ offset)
          /\ error' = "none"
          /\ IF null THEN Allocate(n) ELSE size' = n /\ UNCHANGED null
          /\ data' = [k \in 0..n - 1 |-> IF k < size THEN Old ELSE Fresh]
    /\ UNCHANGED <<offset, i, from, to>>

Next ==
    \/ BroadcastToVar \/ ElwiseNullary
    \/ \E s \in Sources : StridedToVar(s) \/ VarToVar(s) \/ Rolling(s)
    \/ \E s1, s2 \in Sources : Elwise(s1, s2)
    \/ \E s \in Sources : \E mask \in SUBSET (0..s.size - 1) : TakeBegin(s, mask)
    \/ TakeRun \/ TakeEnd
    \/ \E n \in Sizes : Resize(n)

Spec == Init /\ [][Next]_vars

(* ---- properties ----------------------------------------------------------*)
Returned(kernels) == pc = "idle" /\ error = "none" /\ op.kernel \in kernels

Broadcasting == {"broadcast", "strided", "var", "elwise"}
SizesOf      == {op.srcs[j].size : j \in DOMAIN op.srcs}

\* strided_to_var_assign_ck reads what lies behind a slice of one element
Overruns(kernel, srcs, k) == kernel = "strided" /\ srcs[1] = Slice /\ k > 0

\* After an assignment or an elementwise function that returns, every element of
\* the destination was computed from the elements of the sources that
\* broadcasting pairs with it: sizes other than one agree with the destination's.
\* (single of elwise_ck and of the *_to_var kernels) The elements computed from
\* what lies behind a slice are left out; OnesRepeated is about those too.
Broadcasted ==
    Returned(Broadcasting) /\ ~null =>
        /\ SizesOf \subseteq {1, size}
        /\ \A k \in 0..size - 1 : \A j \in DOMAIN op.srcs :
               ~Overruns(op.kernel, op.srcs, k) => data[k][j] = k % op.srcs[j].size

\* A source of size one gives its one element to every element of the destination:
\* "one of them has size 1, it is broadcast to match the size of the other"
\* (docs/multidim_kernels.md), "size one dimensions have zero stride"
\* (fixed_dim_type.cpp). strided_to_var_assign_ck relies on the second.
OnesRepeated ==
    Returned(Broadcasting) /\ ~null =>
        \A j \in DOMAIN op.srcs : op.srcs[j].size = 1 =>
            \A k \in 0..size - 1 : data[k][j] = 0

\* Taking by a mask keeps exactly the masked elements, in their order: element k
\* of the result is the one with k masked elements before it (masked_take_ck).
\* A rolling window never leaves the source and ends at the element it is for
\* (var_rolling_ck).
SelectsInOrder ==
    /\ Returned({"take"}) =>
        /\ size = Cardinality(op.mask)
        /\ \A k \in 0..size - 1 :
               /\ data[k][1] \in op.mask
               /\ Cardinality({m \in op.mask : m < data[k][1]}) = k
    /\ Returned({"rolling"}) => \A k \in 0..size - 1 :
        IF data[k] = NAValue THEN k < Window - 1
        ELSE data[k][1] >= 0 /\ data[k][1] + Window - 1 = k

\* Once an element has memory only resizing changes its size: other views of the
\* same var dimension see it. A call that fails to broadcast or to get memory leaves
\* everything as it was.
SizeKept ==
    [][/\ ~null /\ op'.kernel \notin {"resize", "take"} => ~null' /\ size' = size
       /\ error' \in {"broadcast", "memory"} => null' = null /\ size' = size]_vars
=============================================================================
