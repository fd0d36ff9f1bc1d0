------------------------- MODULE BuiltinAssignment -------------------------
(* Assignment between builtin types under the four error modes, and the test *)
(* whether an assignment can lose anything.                                  *)
EXTENDS BuiltinValues

Modes == {"nocheck", "overflow", "fractional", "inexact"}

\* An assignment may throw; what is then in the destination may be the old value
Untouched     == << >>
Outcome(e, d) == [thrown |-> e, dst |-> d]

(* ---- the tests of the kernels --------------------------------------------*)
\* Mutant: the negative values of a signed source no wider than the destination
IsOverflowSizeOnly(dst, src, x) ==
    dst.size < src.size /\ (x < IntMin(dst) \/ x > IntMax(dst))

\* is_overflow<dst>(x): one template for each pair of signs and order of sizes
IsOverflow(dst, src, x) ==
    \/ /\ dst.size < src.size
       /\ x < IntMin(dst) \/ x > IntMax(dst)
    \/ /\ dst.size >= src.size /\ dst.kind = "uint" /\ src.kind = "sint"
       /\ x < 0

\* The floating point unit's overflow status after rounding
FpOverflow(s, x) == IsFinite(x) /\ ~IsFinite(Round(s, x))

\* A real outside the range of an integer type: the greatest value is converted
\* to the type of the real, and a NaN is in no order
OutsideInts(dst, src, x) ==
    Lt(x, IntMin(dst)) \/ Lt(Round(RealSize(src), IntMax(dst)), x)

LosesImaginary(v)  == ~Eq(v[2], 0)
LosesFraction(x)   == ~Eq(Floor(x), x)
Narrows(dst, src)  == RealSize(dst) < RealSize(src)

(* ---- overflow checking, for each pair of kinds that has a kernel of its own *)
BoolOverflows(v) == v \notin {Zero, One}

ComplexToIntOverflows(dst, src, v) == LosesImaginary(v) \/ OutsideInts(dst, src, v[1])

ComplexToRealOverflows(dst, v) == LosesImaginary(v) \/ FpOverflow(dst.size, v[1])

RealToComplexOverflows(dst, v) == FpOverflow(RealSize(dst), v[1])

ComplexOverflows(dst, v) == FpOverflow(RealSize(dst), v[1]) \/ FpOverflow(RealSize(dst), v[2])

Overflows(dst, src, v) ==
    \/ dst.kind = "bool" /\ src.kind # "bool" /\ BoolOverflows(v)
    \/ IsInt(dst) /\ IsInt(src) /\ IsOverflow(dst, src, v[1])
    \/ IsInt(dst) /\ src.kind = "real" /\ OutsideInts(dst, src, v[1])
    \/ IsInt(dst) /\ src.kind = "complex" /\ ComplexToIntOverflows(dst, src, v)
    \/ dst.kind = "real" /\ src.kind = "real" /\ FpOverflow(dst.size, v[1])
    \/ dst.kind = "real" /\ src.kind = "complex" /\ ComplexToRealOverflows(dst, v)
    \/ dst.kind = "complex" /\ src.kind = "real" /\ RealToComplexOverflows(dst, v)
    \/ dst.kind = "complex" /\ src.kind = "complex" /\ ComplexOverflows(dst, v)

(* ---- fractional and inexact checking -------------------------------------*)
\* Fractional checking looks at a fraction only for integers
LosesFractional(dst, src, v) ==
    IsInt(dst) /\ src.kind \in {"real", "complex"} /\ LosesFraction(v[1])

\* An integer is converted back, which may be undefined; a real is compared as it is
ConvertsBack(dst, src, v) ==
    {b = v[1] : b \in RealToInt(src, Round(RealSize(dst), v[1]))}

\* Of a complex source with an imaginary part overflow checking has thrown before
RealChanges(dst, v) == ~Eq(Round(RealSize(dst), v[1]), v[1])

ComplexChanges(dst, v) == RealChanges(dst, v) \/ ~Eq(Round(RealSize(dst), v[2]), v[2])

LosesExactness(dst, src, v) ==
    IF dst.kind \in {"real", "complex"} /\ IsInt(src)
    THEN {~b : b \in ConvertsBack(dst, src, v)}
    ELSE IF \/ dst.kind = "real" /\ src.kind \in {"real", "complex"} /\ Narrows(dst, src)
            \/ dst.kind = "complex" /\ src.kind = "real"
    THEN {RealChanges(dst, v)}
    ELSE IF dst.kind = "complex" /\ src.kind = "complex" /\ Narrows(dst, src)
    THEN {ComplexChanges(dst, v)}
    ELSE {LosesFractional(dst, src, v)}

\* Whether the kernel for the mode throws
Throws(mode, dst, src, v) ==
    CASE mode = "nocheck"    -> {FALSE}
      [] mode = "overflow"   -> {Overflows(dst, src, v)}
      [] mode = "fractional" -> {Overflows(dst, src, v) \/ LosesFractional(dst, src, v)}
      [] mode = "inexact"    -> {Overflows(dst, src, v) \/ b : b \in LosesExactness(dst, src, v)}

\* Three kernels test the status after they have written the destination
WritesFirst(mode, dst, src) ==
    /\ mode \in {"overflow", "fractional"}
    /\ dst.kind = src.kind /\ dst.kind \in {"real", "complex"} /\ Narrows(dst, src)

\* assignment_kernel<dst, src, mode>::single. Two of the same type are copied.
Assign(mode, dst, src, v) ==
    IF dst = src THEN {Outcome(FALSE, v)}
    ELSE LET throws == Throws(mode, dst, src, v) IN
         (IF FALSE \in throws THEN {Outcome(FALSE, d) : d \in Cast(dst, src, v)} ELSE {})
         \cup (IF TRUE \notin throws THEN {}
               ELSE IF WritesFirst(mode, dst, src)
               THEN {Outcome(TRUE, d) : d \in Cast(dst, src, v)}
               ELSE {Outcome(TRUE, Untouched)})

(* ---- is_lossless_assignment ----------------------------------------------*)
\* Mutant: reals of the size of the integer are taken to hold it.
IntIsLosslessSameSize(dst, src) ==
    \/ dst.kind = "real" /\ dst.size >= src.size
    \/ dst.kind = "complex" /\ dst.size >= 2 * src.size

\* An integer to a real or complex type, which must have larger reals
IntIsLossless(dst, src) ==
    \/ dst.kind = "real" /\ dst.size > src.size
    \/ dst.kind = "complex" /\ dst.size > 2 * src.size

IsLossless(dst, src) ==
    CASE src.kind = "bool"    -> TRUE
      [] src.kind = "sint"    -> \/ dst.kind = "sint" /\ dst.size >= src.size
                                 \/ IntIsLossless(dst, src)
      [] src.kind = "uint"    -> \/ dst.kind = "uint" /\ dst.size >= src.size
                                 \/ dst.kind = "sint" /\ dst.size > src.size
                                 \/ IntIsLossless(dst, src)
      [] src.kind = "real"    -> \/ dst.kind = "real" /\ dst.size >= src.size
                                 \/ dst.kind = "complex" /\ dst.size >= 2 * src.size
      [] src.kind = "complex" -> dst.kind = "complex" /\ dst.size >= src.size

(* ---- what the modes promise ----------------------------------------------*)
\* The value of v in the destination, if it has one: numbers outside its range
\* have none
InRange(dst, v) ==
    CASE dst.kind = "bool"    -> v \in {Zero, One}
      [] IsInt(dst)           -> Eq(v[2], 0) /\ Le(IntMin(dst), v[1]) /\ Le(v[1], IntMax(dst))
      [] dst.kind = "real"    -> Eq(v[2], 0) /\ (IsFinite(v[1]) => Abs(Round(dst.size, v[1])) <= MaxReal(dst.size))
      [] dst.kind = "complex" -> \A i \in {1, 2} :
                                    IsFinite(v[i]) => Abs(Round(RealSize(dst), v[i])) <= MaxReal(RealSize(dst))

Nearest(dst, v) ==
    IF dst.kind = "bool" THEN v ELSE IF IsInt(dst) THEN Value(Trunc(v[1]))
    ELSE <<Round(RealSize(dst), v[1]), Round(RealSize(dst), v[2])>>

\* overflow: "Check overflow, but allow precision loss. Checks loss of imaginary
\* component"; fractional: "Overflow and loss of fractional part (for float ->
\* int) checking"; inexact: "Overflow and floating point precision loss checking"
Acceptable(mode, dst, v) ==
    /\ InRange(dst, v)
    /\ mode \in {"fractional", "inexact"} /\ IsInt(dst) => Nearest(dst, v) = v
    /\ mode = "inexact" => Nearest(dst, v) = v /\ NaN \notin {v[1], v[2]}

\* Assignments whose kernels do not keep the promise
Gap(mode, dst, src, v) ==
    \* is_overflow takes an unsigned source of the same size to fit
    \/ dst.kind = "sint" /\ src.kind = "uint" /\ dst.size = src.size /\ v[1] > IntMax(dst)
    \* the greatest integer, rounded up to a real, lets one more value through,
    \* and so does NaN where no fraction is looked for
    \/ IsInt(dst) /\ src.kind \in {"real", "complex"}
       /\ (v[1] = Round(RealSize(src), IntMax(dst)) \/ (v[1] = NaN /\ mode = "overflow"))
    \* the same, when an integer is converted to a real and back
    \/ IsInt(src) /\ dst.kind \in {"real", "complex"} /\ mode = "inexact"
       /\ Round(RealSize(dst), v[1]) > IntMax(src)
    \* NaN keeps its value in a copy, or in a wider real
    \/ NaN \in {v[1], v[2]} /\ mode = "inexact" /\ ~Narrows(dst, src)
=============================================================================
