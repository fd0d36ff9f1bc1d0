------------------------- MODULE BuiltinComparison -------------------------
(* The comparison kernels between builtin types: those of                    *)
(* make_builtin_type_comparison_kernel (op_sort_lt, op_lt, ... op_gt).       *)
(* A comparison yields the set of the truth values it may have, which are    *)
(* both where the code converts a real to an integer it does not fit.        *)
EXTENDS BuiltinValues

Comparisons == {"sorting_less", "less", "less_equal", "equal", "not_equal",
                "greater_equal", "greater"}
Orderings   == {"less", "less_equal", "greater_equal", "greater"}

\* big_type: the type with more bytes, the second of two equally large
BigType(t0, t1) == IF t0.size > t1.size THEN t0 ELSE t1

\* Complex and bool values have no order: not_comparable_error
Orderable(t0, t1) == {t0.kind, t1.kind} \cap {"bool", "complex"} = {}

Test(op, x, y) ==
    CASE op \in {"less", "sorting_less"} -> Lt(x, y)
      [] op = "less_equal"    -> Le(x, y)
      [] op = "equal"         -> Eq(x, y)
      [] op = "not_equal"     -> ~Eq(x, y)
      [] op = "greater_equal" -> Le(y, x)
      [] op = "greater"       -> Lt(y, x)

\* The general kernel: both values converted to the big type
InBigType(op, t0, t1, v0, v1) ==
    LET t == BigType(t0, t1) IN
    {Test(op, x[1], y[1]) : x \in Cast(t, t0, v0), y \in Cast(t, t1, v1)}

\* Mutant: the sign is looked at after the conversion.
SignedUnsignedLate(op, t0, t1, x, y) == Test(op, Wrap(t1, x), y)

\* A signed and an unsigned integer that is no smaller: the sign decides first
SignedUnsigned(op, t0, t1, x, y) ==
    LET z == Wrap(t1, x) IN
    CASE op \in {"less", "sorting_less"} -> x < 0 \/ z < y
      [] op = "less_equal"    -> x <= 0 \/ z <= y
      [] op = "equal"         -> x >= 0 /\ z = y
      [] op = "not_equal"     -> x < 0 \/ z # y
      [] op = "greater_equal" -> x >= 0 /\ z >= y
      [] op = "greater"       -> x > 0 /\ z > y

UnsignedSigned(op, t0, t1, x, y) ==
    LET z == Wrap(t0, y) IN
    CASE op \in {"less", "sorting_less"} -> y > 0 /\ x < z
      [] op = "less_equal"    -> y >= 0 /\ x <= z
      [] op = "equal"         -> y >= 0 /\ x = z
      [] op = "not_equal"     -> y < 0 \/ x # z
      [] op = "greater_equal" -> y <= 0 \/ x >= z
      [] op = "greater"       -> y < 0 \/ x > z

(* ---- equality ------------------------------------------------------------*)
\* "Slower, but more rigorous test": integer i of type t equals real r of type u
\* when it does in both types
IntEqualsReal(t, u, i, r) == {i = c /\ Eq(Round(u, i), r) : c \in RealToInt(t, r)}

\* A bool is converted to the type of the other
BoolEquals(t, v0, v1) ==
    LET c == CHOOSE c \in Cast(t, Bool, v0) : TRUE IN Eq(c[1], v1[1]) /\ Eq(c[2], v1[2])

\* A real or complex number equals a complex one in both parts
ComplexEquals(v0, v1) == Eq(v0[1], v1[1]) /\ Eq(v0[2], v1[2])

Equal(t0, t1, v0, v1) ==
    CASE t0.kind = "bool" /\ t1.kind # "bool" -> {BoolEquals(t1, v0, v1)}
      [] t1.kind = "bool" /\ t0.kind # "bool" -> {BoolEquals(t0, v1, v0)}
      [] IsInt(t0) /\ t1.kind \in {"real", "complex"} ->
             {Eq(v1[2], 0) /\ b : b \in IntEqualsReal(t0, RealSize(t1), v0[1], v1[1])}
      [] IsInt(t1) /\ t0.kind \in {"real", "complex"} ->
             {Eq(v0[2], 0) /\ b : b \in IntEqualsReal(t1, RealSize(t0), v1[1], v0[1])}
      [] {t0.kind, t1.kind} \subseteq {"real", "complex"} -> {ComplexEquals(v0, v1)}
      [] OTHER -> {v0 = v1}   \* integers of one sign, or of both (by value)

\* op_ne is the negation, but for a signed integer and a complex number, where
\* it asks whether the integer *is* the real part
NotEqual(t0, t1, v0, v1) ==
    IF t0.kind = "sint" /\ t1.kind = "complex"
    THEN {\/ ~Eq(v1[2], 0)
          \/ v0[1] = c
          \/ ~Eq(Round(RealSize(t1), v0[1]), v1[1]) : c \in RealToInt(t0, v1[1])}
    ELSE {~b : b \in Equal(t0, t1, v0, v1)}

(* ---- sorting_less --------------------------------------------------------*)
\* Complex numbers in the order [R + Rj, R + nanj, nan + Rj, nan + nanj]
ComplexSortingLess(v0, v1) ==
    CASE Lt(v0[1], v1[1]) -> v0[2] # NaN \/ v1[2] = NaN
      [] Lt(v1[1], v0[1]) -> v1[2] = NaN /\ v0[2] # NaN
      [] v0[1] = v1[1]    -> Lt(v0[2], v1[2]) \/ (v1[2] = NaN /\ v0[2] # NaN)
      [] OTHER            -> v1[1] = NaN

\* A number and a complex number: the reals in their big type, then the imaginary part
PartSortingLess(t0, t1, v0, v1) ==
    LET p(t) == IF t.kind = "complex" THEN Real(RealSize(t)) ELSE t
        t == IF t0.kind = "bool" THEN p(t1) ELSE IF t1.kind = "bool" THEN p(t0)
             ELSE BigType(p(t0), p(t1))
    IN  {\/ Lt(x[1], y[1])
         \/ Eq(x[1], y[1]) /\ IF t0.kind = "complex" THEN Lt(v0[2], 0) ELSE Lt(0, v1[2]) :
             x \in Cast(t, p(t0), Value(v0[1])), y \in Cast(t, p(t1), Value(v1[1]))}

SortingLess(t0, t1, v0, v1) ==
    IF t0.kind = "complex" /\ t1.kind = "complex" THEN {ComplexSortingLess(v0, v1)}
    ELSE IF "complex" \in {t0.kind, t1.kind}       THEN PartSortingLess(t0, t1, v0, v1)
    \* NaNs at the end
    ELSE IF t0.kind = "real" /\ t1.kind = "real"
         THEN {Lt(v0[1], v1[1]) \/ (v1[1] = NaN /\ v0[1] # NaN)}
    ELSE IF "bool" \in {t0.kind, t1.kind} THEN {Lt(v0[1], v1[1])}
    ELSE InBigType("sorting_less", t0, t1, v0, v1)

\* single_comparison_builtin<t0, t1>
Compare(op, t0, t1, v0, v1) ==
    IF t0.kind = "sint" /\ t1.kind = "uint" /\ t0.size <= t1.size
    THEN {SignedUnsigned(op, t0, t1, v0[1], v1[1])}
    ELSE IF t0.kind = "uint" /\ t1.kind = "sint" /\ t0.size >= t1.size
    THEN {UnsignedSigned(op, t0, t1, v0[1], v1[1])}
    ELSE CASE op = "sorting_less" -> SortingLess(t0, t1, v0, v1)
           [] op = "equal"        -> Equal(t0, t1, v0, v1)
           [] op = "not_equal"    -> NotEqual(t0, t1, v0, v1)
           [] op \in Orderings    -> InBigType(op, t0, t1, v0, v1)
=============================================================================
