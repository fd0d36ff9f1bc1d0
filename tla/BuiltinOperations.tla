------------------------- MODULE BuiltinOperations -------------------------
(* Assigning, comparing and promoting builtin types: a call picks its types  *)
(* and values, its outcome is one of those the code may have.                *)
EXTENDS BuiltinAssignment, BuiltinComparison, TypePromotion, Calls

CONSTANTS Samples,       \* real values, counted in halves, to take samples from
          Promotable     \* types to promote

\* A few values of each type
Values(t) ==
    CASE t.kind = "bool" -> {Zero, One}
      [] IsInt(t)        -> {Value(x) : x \in Samples \cap IntsOf(t)}
      [] t.kind = "real" -> {Value(x) : x \in {y \in Samples : Round(t.size, y) = y}}
      [] t.kind = "complex" -> {Value(x) : x \in {y \in Samples : Round(RealSize(t), y) = y}}
                               \cup (Samples \cap {0, 3, NaN}) \X {3, NaN}

BuiltinCall ==
    \/ \E mode \in Modes, dst, src \in BuiltinTypes : \E v \in Values(src) :
           call = [op |-> "assign", mode |-> mode, dst |-> dst, src |-> src, v |-> v]
    \/ \E op \in Comparisons, t0, t1 \in BuiltinTypes : \E v0 \in Values(t0), v1 \in Values(t1) :
           /\ op \in Orderings => Orderable(t0, t1)
           /\ call = [op |-> op, t0 |-> t0, t1 |-> t1, v0 |-> v0, v1 |-> v1]
    \/ \E t0, t1 \in Promotable : call = [op |-> "promote", t0 |-> t0, t1 |-> t1]

AssignValue   == /\ Asked /\ call.op = "assign"
                 /\ outcome' \in {<<a>> : a \in Assign(call.mode, call.dst, call.src, call.v)}
CompareValues == /\ Asked /\ call.op \in Comparisons
                 /\ outcome' \in {<<b>> : b \in Compare(call.op, call.t0, call.t1, call.v0, call.v1)}
PromoteTypes  == /\ Asked /\ call.op = "promote"
                 /\ outcome' = <<Promote(call.t0, call.t1)>>

(* ---- properties ----------------------------------------------------------*)
\* An assignment throws exactly when the value is not acceptable under the error
\* mode; when it returns, the destination has the nearest value of its type, and
\* when it throws, the old one, unless the kernel looked at the floating point
\* status of what it had written. (assign_error_mode, typed_data_assign.hpp)
AssignAsPromised ==
    Answered({"assign"}) /\ call.mode # "nocheck"
    /\ ~Gap(call.mode, call.dst, call.src, call.v) =>
        LET ok == call.dst = call.src \/ Acceptable(call.mode, call.dst, call.v) IN
        /\ Answer.thrown = ~ok
        /\ ok => Answer.dst = Nearest(call.dst, call.v)
        /\ ~ok => \/ Answer.dst = Untouched
                  \/ WritesFirst(call.mode, call.dst, call.src)

\* Where is_lossless_assignment says that the destination type can represent all
\* values of the source type, no mode throws and the value comes back unchanged;
\* for a NaN that only holds of the modes that do not compare it.
LosslessKeepsValue ==
    Answered({"assign"}) /\ IsLossless(call.dst, call.src)
    /\ (call.mode = "inexact" => NaN \notin {call.v[1], call.v[2]}) =>
        Answer = Outcome(FALSE, call.v)

\* An integer is ordered with a real in their big type. Where that cannot hold
\* the values of both, one of them is rounded or cut off.
CutOff(t0, t1) ==
    ~IsLossless(BigType(t0, t1), t0) \/ ~IsLossless(BigType(t0, t1), t1)

\* A real just above the integers of the type it is compared with is converted
\* to it all the same
JustAbove(t0, t1, x) ==
    /\ IsInt(t0) /\ t1.kind \in {"real", "complex"}
    /\ x = Round(RealSize(t1), IntMax(t0)) /\ x > IntMax(t0)

\* Where comparing does not follow the numbers
Miscompares(c) ==
    \/ c.op \notin {"equal", "not_equal"} /\ {c.t0.kind, c.t1.kind} \cap {"real", "complex"} # {}
       /\ (IsInt(c.t0) \/ IsInt(c.t1)) /\ CutOff(c.t0, c.t1)
    \/ c.op \in {"equal", "not_equal"}
       /\ (JustAbove(c.t0, c.t1, c.v1[1]) \/ JustAbove(c.t1, c.t0, c.v0[1]))
    \/ c.op = "not_equal" /\ c.t0.kind = "sint" /\ c.t1.kind = "complex"

\* Comparisons answer as the numbers compare, whatever the types: signed with
\* unsigned, wider with narrower, integers with reals. (single_comparison_builtin)
ComparedByValue ==
    /\ Answered(Comparisons \ {"sorting_less"})
    /\ ~Miscompares(call)
    =>
    LET same == Eq(call.v0[1], call.v1[1]) /\ Eq(call.v0[2], call.v1[2]) IN
    Answer = CASE call.op = "equal"     -> same
                [] call.op = "not_equal" -> ~same
                [] call.op \in Orderings -> Test(call.op, call.v0[1], call.v1[1])

\* The pairs that sorting_less puts in order, type by type
InOrder == [t \in BuiltinTypes |->
    {p \in Values(t) \X Values(t) : TRUE \in Compare("sorting_less", t, t, p[1], p[2])}]

\* sorting_less orders the values of a type as a sort requires: irreflexive and
\* transitive, also for values that are not less either way, NaNs last.
SortsWeakly ==
    Answered({"sorting_less"}) /\ call.t0 = call.t1 =>
        \A before \in {InOrder[call.t0]} :
            LET tied(x, y) == {<<x, y>>, <<y, x>>} \cap before = {}
            IN  /\ Answer => <<call.v1, call.v0>> \notin before
                /\ \A w \in Values(call.t0) :
                       /\ Answer /\ <<call.v1, w>> \in before => <<call.v0, w>> \in before
                       /\ tied(call.v0, call.v1) /\ tied(call.v1, w) => tied(call.v0, w)
                /\ ~Answer /\ tied(call.v0, call.v1) /\ NaN \notin {call.v0[1], call.v0[2]} =>
                       call.v0 = call.v1

\* Comparisons follow the numbers, and the order used for sorting is one a sort
\* can use. (single_comparison_builtin, sorting_less of every builtin type)
ComparedAndSorted == ComparedByValue /\ SortsWeakly

\* float16, which an integer widens only when it comes first, and float128,
\* which a complex number of floats absorbs
Odd(t) == LET b == IF "of" \in DOMAIN t THEN t.of ELSE t
          IN  b.kind = "real" /\ b.size \in {2, 16}

\* The type of a result depends neither on the order of the operands nor on how
\* three of them are grouped (promote_types_arithmetic)
PromotedAlike ==
    Answered({"promote"}) /\ ~Odd(call.t0) /\ ~Odd(call.t1) =>
        /\ Answer = Promote(call.t1, call.t0)
        /\ Answer # NoType => \A t \in {u \in Promotable : ~Odd(u)} :
               LET p == Promote(call.t1, t)
               IN  p # NoType => Promote(Answer, t) = Promote(call.t0, p)
=============================================================================
