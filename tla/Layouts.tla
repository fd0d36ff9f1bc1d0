------------------------------ MODULE Layouts ------------------------------
(* Shapes and strides: indexing with ranges, broadcasting shapes together,   *)
(* the layout of a new array like another, and viewing an array as bytes.    *)
(* Strides count elements, and an element is one byte.                       *)
EXTENDS Reduction

CONSTANTS Shapes,      \* of the arrays to index and to lay out
          Indexes,     \* ranges for the dimensions of an array
          Steps,       \* strides an array may have
          Inputs       \* shapes to broadcast together, -1 for var

Magnitude(x) == IF x < 0 THEN -x ELSE x

(* ---- apply_single_linear_index -------------------------------------------*)
\* The limits of intptr_t, which stand for a range open at one end
Begin == -100
End   == 100

OutOfBounds == [thrown |-> TRUE]
Picked(remove, start, stride, size) ==
    [thrown |-> FALSE, remove |-> remove, start |-> start, stride |-> stride, size |-> size]

\* Mutant: a step that does not divide the size is not counted.
SteppingWhole(start, finish, step) ==
    LET size == IF step > 0 THEN finish - start ELSE start - finish
    IN  IF size > 0 THEN Picked(FALSE, start, step, size \div Magnitude(step))
        ELSE Picked(FALSE, 0, 1, 0)

\* From start towards finish, which is left out
Stepping(start, finish, step) ==
    LET size == IF step > 0 THEN finish - start ELSE start - finish
    IN  IF size > 0
        THEN Picked(FALSE, start, step, (size + Magnitude(step) - 1) \div Magnitude(step))
        ELSE Picked(FALSE, 0, 1, 0)

ApplyRange(r, n) ==
    LET start  == IF r.start < 0 /\ r.start >= -n THEN r.start + n ELSE r.start
        finish == IF r.finish < 0 /\ r.finish >= -n THEN r.finish + n ELSE r.finish
    IN  IF r.step = 0
        THEN IF start \in 0..n - 1 THEN Picked(TRUE, start, 1, 1) ELSE OutOfBounds
        ELSE IF r.step > 0
        THEN IF start >= n \/ finish < 0 THEN OutOfBounds
             ELSE Stepping(IF start < 0 THEN 0 ELSE start, IF finish > n THEN n ELSE finish, r.step)
        ELSE IF start >= n \/ (start < 0 /\ r.start # Begin) \/ (finish >= n /\ r.finish # End)
             THEN OutOfBounds
             ELSE Stepping(IF r.start = Begin THEN n - 1 ELSE start,
                           IF finish < 0 \/ r.finish = End THEN -1 ELSE finish, r.step)

(* ---- fixed_dim_type::apply_linear_index ----------------------------------*)
\* The stride of a dimension stays what it was, also where one element is left
ApplyIndex(ranges, shape, strides) ==
    LET at(i) == IF i <= Len(ranges) THEN ApplyRange(ranges[i], shape[i])
                 ELSE Picked(FALSE, 0, 1, shape[i])
        kept  == SelectSeq([i \in DOMAIN shape |-> i], LAMBDA i : ~at(i).remove)
    IN  IF \E i \in DOMAIN shape : at(i).thrown THEN OutOfBounds
        ELSE [thrown  |-> FALSE,
              offset  |-> FoldLeft(LAMBDA o, i : o + strides[i] * at(i).start, 0,
                                   [i \in DOMAIN shape |-> i]),
              shape   |-> [k \in DOMAIN kept |-> at(kept[k]).size],
              strides |-> [k \in DOMAIN kept |-> strides[kept[k]] * at(kept[k]).stride]]

(* ---- broadcast_input_shapes ----------------------------------------------*)
Variable == -1      \* the size of a var dimension
Clashing == 101     \* broadcast_error

\* Mutant: a size is not compared with that of a shape a var has joined.
JoinedVarWins(shape, size) ==
    IF shape = 1 THEN size
    ELSE IF size < 0 THEN IF shape > 0 THEN -shape ELSE -1
    ELSE IF shape >= 0 THEN IF size # 1 /\ shape # size THEN Clashing ELSE shape
    ELSE shape

\* The size of an input joins that of the shape, which is negative once a var
\* dimension has joined
Joined(shape, size) ==
    IF shape = Clashing THEN Clashing
    ELSE IF shape = 1 THEN size
    ELSE IF size < 0 THEN IF shape > 0 THEN -shape ELSE -1
    ELSE IF shape >= 0 THEN IF size # 1 /\ shape # size THEN Clashing ELSE shape
    ELSE IF shape = -1 /\ size > 0 THEN -size
    ELSE IF size > 1 /\ shape # -size THEN Clashing ELSE shape

\* The inputs are aligned at their last dimensions
SizesAt(inputs, n, k) ==
    LET long == SelectSeq(inputs, LAMBDA s : Len(s) > n - k)
    IN  [i \in DOMAIN long |-> long[i][Len(long[i]) - (n - k)]]

BroadcastShapes(inputs) ==
    LET n      == FoldLeft(LAMBDA m, s : IF Len(s) > m THEN Len(s) ELSE m, 0, inputs)
        joined == [k \in 1..n |-> FoldLeft(Joined, 1, SizesAt(inputs, n, k))]
    IN  IF \E k \in 1..n : joined[k] = Clashing THEN <<Clashing>> ELSE joined

(* ---- strides_to_axis_perm, of up to three dimensions ---------------------*)
\* Mutant: the axes in the order of the source instead of that of its strides.
AxisPermAsIs(strides) == [i \in DOMAIN strides |-> i]

\* By the magnitude of the stride, the last axis first where they are the same
AxisPerm(strides) ==
    SortSeq([i \in DOMAIN strides |-> Len(strides) + 1 - i],
            LAMBDA i, j : \/ Magnitude(strides[i]) < Magnitude(strides[j])
                          \/ Magnitude(strides[i]) = Magnitude(strides[j]) /\ i > j)

(* ---- fixed_dim_type::reorder_default_constructed_strides ------------------*)
\* No stride gets bigger than the one before, zeros aside and with their signs
InCOrder(strides) ==
    LET some == SelectSeq(strides, LAMBDA s : s # 0)
    IN  \A i \in 1..Len(some) - 1 : some[i] >= some[i + 1]

NeverEnds == << >>

\* Strides along the axes of perm, the first one innermost
Along(perm, shape, stride) ==
    [i \in DOMAIN shape |->
        IF shape[i] <= 1 THEN 0
        ELSE FoldLeft(LAMBDA s, j : s * shape[j], stride,
                      SelectSeq(perm, LAMBDA j : \E k \in DOMAIN perm :
                          perm[k] = i /\ \E l \in 1..k - 1 : perm[l] = j))]

\* The smallest stride of the new array is that of its last dimension, or of
\* the one before if that is zero: the loop that looks further stays there
SmallestStride(strides) ==
    LET n == Len(strides) IN IF strides[n] # 0 THEN strides[n] ELSE strides[n - 1]

\* The strides of empty_like an array of that shape and strides
EmptyLike(shape, strides) ==
    LET default == Strides(shape) IN
    IF Len(shape) < 2 \/ InCOrder(strides) THEN default
    ELSE IF SmallestStride(default) = 0 THEN NeverEnds
    ELSE Along(AxisPerm(strides), shape, SmallestStride(default))

(* ---- refine_bytes_view ---------------------------------------------------*)
\* The size in bytes of an array that can be viewed as bytes
NoView == -1

\* The dimensions that say something about the extent
Spans(shape, i) == shape[i] # 1

BytesView(shape, strides) ==
    LET n      == Len(shape)
        sorted == \A i \in 1..n - 1 : strides[i + 1] <= strides[i]
        perm   == IF sorted THEN [i \in 1..n |-> i] ELSE Reverse(AxisPerm(strides))
        dims   == SelectSeq(perm, LAMBDA i : Spans(shape, i))
    IN  IF dims = << >> THEN 1
        ELSE IF /\ \A k \in 1..Len(dims) - 1 :
                       shape[dims[k + 1]] * strides[dims[k + 1]] = strides[dims[k]]
                /\ strides[Last(dims)] = 1
        THEN FoldLeft(LAMBDA m, i : m * shape[i], 1, dims)
        ELSE NoView

(* ---- calls ---------------------------------------------------------------*)
\* The strides of views of an array: no dimension reaches into the next one
Nested(shape, strides) ==
    \A i, j \in DOMAIN shape :
        strides[i] = 0 \/ i = j \/ Magnitude(strides[i]) > Magnitude(strides[j])
        \/ shape[i] * Magnitude(strides[i]) <= Magnitude(strides[j])

LayoutCall ==
    \/ \E shape \in Shapes, ranges \in Indexes :
           /\ Len(ranges) = Len(shape)
           /\ call = [op |-> "index", shape |-> shape, ranges |-> ranges]
    \/ \E inputs \in Inputs : call = [op |-> "broadcast", inputs |-> inputs]
    \/ \E op \in {"empty_like", "view_bytes"}, shape \in Shapes \ {<< >>} :
       \E strides \in {s \in [DOMAIN shape -> Steps] : Nested(shape, s)} :
           call = [op |-> op, shape |-> shape, strides |-> strides]

IndexArray    == /\ Asked /\ call.op = "index"
                 /\ outcome' = <<ApplyIndex(call.ranges, call.shape, Strides(call.shape))>>
JoinShapes    == /\ Asked /\ call.op = "broadcast"
                 /\ outcome' = <<BroadcastShapes(call.inputs)>>
MakeEmptyLike == /\ Asked /\ call.op = "empty_like"
                 /\ outcome' = <<EmptyLike(call.shape, call.strides)>>
ViewBytes     == /\ Asked /\ call.op = "view_bytes"
                 /\ outcome' = <<BytesView(call.shape, call.strides)>>

(* ---- properties ----------------------------------------------------------*)
\* Where the elements of an array are, from where its data pointer points
At(strides, t)     == FoldLeft(LAMBDA a, i : a + t[i] * strides[i], 0, [i \in DOMAIN t |-> i])
Extent(shape, strides) == {At(strides, t) : t \in Places(shape)}

\* The indices "{start, start + step, ...}" up to the finish (irange.hpp), where
\* negative ones count from the end
Chosen(r, n) ==
    LET from(x) == IF x \in -n..-1 THEN x + n ELSE x
        first   == IF r.start = Begin THEN (IF r.step > 0 THEN 0 ELSE n - 1)
                   ELSE IF from(r.start) < 0 THEN 0 ELSE from(r.start)
    IN  IF r.step = 0 THEN {from(r.start)}
        ELSE {i \in 0..n - 1 : /\ \E k \in 0..n : i = first + k * r.step
                               /\ IF r.step > 0 THEN i < from(r.finish)
                                  ELSE r.finish = End \/ i > from(r.finish)}

WithinBounds(r, n) == /\ r.start \in -n..n - 1 \cup {Begin}
                /\ IF r.step = 0 THEN r.start # Begin
                   ELSE r.finish \in (IF r.step > 0 THEN -n..n ELSE -n..n - 1) \cup {End}

\* Indexing gives the elements its ranges choose, each once and in the order of
\* the steps, and nothing outside the array; it throws for no range that lies
\* inside. (apply_single_linear_index, fixed_dim_type::apply_linear_index)
SlicesSelect ==
    Answered({"index"}) =>
        LET kept     == SelectSeq([i \in DOMAIN call.shape |-> i], LAMBDA i : call.ranges[i].step # 0)
            selected == {Address(call.shape, t) : t \in
                            {u \in Places(call.shape) :
                                \A i \in DOMAIN u : u[i] \in Chosen(call.ranges[i], call.shape[i])}}
        IN  /\ Answer.thrown => \E i \in DOMAIN call.shape : ~WithinBounds(call.ranges[i], call.shape[i])
            /\ ~Answer.thrown =>
                  /\ {Answer.offset + a : a \in Extent(Answer.shape, Answer.strides)} = selected
                  /\ SizeOf(Answer.shape) = Cardinality(selected)
                  /\ \A k \in DOMAIN kept : Answer.shape[k] > 1 /\ selected # {} =>
                         (Answer.strides[k] > 0 <=> call.ranges[kept[k]].step > 0)

\* Shapes broadcast together to the size each axis has besides ones, negative
\* where an input has a var dimension, and clash exactly where two sizes do; but
\* for a second var at an axis, or none with an empty one.
\* (broadcast_input_shapes)
BroadcastsTogether ==
    Answered({"broadcast"}) =>
        LET n        == Max({Len(call.inputs[i]) : i \in DOMAIN call.inputs})
            at(k)    == SizesAt(call.inputs, n, k)
            fixed(k) == Range(at(k)) \ {1, Variable}
            vars_(k) == {i \in DOMAIN at(k) : at(k)[i] = Variable}
            odd(k)   == Cardinality(vars_(k)) > 1 \/ (vars_(k) # {} /\ 0 \in fixed(k))
        IN  (\A k \in 1..n : ~odd(k)) =>
            IF \E k \in 1..n : Cardinality(fixed(k)) > 1 THEN Answer = <<Clashing>>
            ELSE Answer = [k \in 1..n |->
                    LET size == IF fixed(k) = {} THEN 1 ELSE Max(fixed(k))
                    IN  IF vars_(k) = {} THEN size ELSE -size]

\* An array like another one fills its memory, with its axes in the order of the
\* other's strides. (reorder_default_constructed_strides)
KeepsOrder ==
    Answered({"empty_like"}) /\ Answer # NeverEnds =>
        /\ Extent(call.shape, Answer) = 0..SizeOf(call.shape) - 1
        /\ \A i, j \in {k \in DOMAIN call.shape : call.shape[k] > 1} :
               SizeOf(call.shape) > 0 /\ 0 < call.strides[i] /\ call.strides[i] < call.strides[j]
                   => Answer[i] < Answer[j]

\* "Because of the rule that size one dimensions have zero stride, may have to
\* look further" (fixed_dim_type.cpp): looking further ends.
LooksFurther == Answered({"empty_like"}) => Answer # NeverEnds

\* An array is viewed as bytes exactly when they are all its elements, without a
\* gap from where its data pointer points. (view_as_bytes, refine_bytes_view)
BytesViewed ==
    Answered({"view_bytes"}) =>
        LET extent == Extent(call.shape, call.strides) IN
        IF Answer = NoView THEN SizeOf(call.shape) = 0 \/ extent # 0..SizeOf(call.shape) - 1
        ELSE Answer = SizeOf(call.shape) /\ extent = 0..Answer - 1

\* The layouts the library makes and the ones it looks through: a new array like
\* another keeps its order, and bytes are viewed where there is no gap.
\* (reorder_default_constructed_strides, view_as_bytes)
LaidOut == KeepsOrder /\ BytesViewed
=============================================================================
