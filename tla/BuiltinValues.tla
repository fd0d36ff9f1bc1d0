--------------------------- MODULE BuiltinValues ---------------------------
(* The builtin scalar types, their values and the C++ conversions between    *)
(* them, on a scaled-down number line: an integer of 1, 2, 4 or 8 bytes has  *)
(* Width bits, a real of 4 or 8 bytes has Precision bits of significand, and *)
(* every number is counted in halves, so that 3 is the real 1.5.             *)
EXTENDS Integers, FiniteSets, FiniteSetsExt

CONSTANTS Width,      \* of the integers, by size in bytes
          Precision,  \* of the reals, by size in bytes
          Exponent    \* the largest exponent of the reals, by size in bytes

\* What the conversions between the real widths depend on: an integer fits a
\* real twice its size, and no other real of at most its size.
ASSUME WidthAssumption ==
    /\ \A s \in {1, 2, 4} : Width[s] < Width[2 * s]
    /\ Precision[4] < Precision[8] /\ Exponent[4] < Exponent[8]
    /\ \A s \in {4, 8} : Width[s \div 2] <= Precision[s] /\ Precision[s] < Width[s] - 1
    /\ \A s \in {4, 8} : Width[8] < Exponent[s] + Precision[s] - 1

Bool       == [kind |-> "bool", size |-> 1]
SInt(s)    == [kind |-> "sint", size |-> s]
UInt(s)    == [kind |-> "uint", size |-> s]
Real(s)    == [kind |-> "real", size |-> s]
Complex(s) == [kind |-> "complex", size |-> s]   \* of two reals of half the size

BuiltinTypes == {Bool} \cup {SInt(s) : s \in {1, 2, 4, 8}} \cup {UInt(s) : s \in {1, 2, 4, 8}}
                \cup {Real(s) : s \in {4, 8}} \cup {Complex(s) : s \in {8, 16}}

IsInt(t) == t.kind \in {"sint", "uint"}

\* The size of the reals of a real or complex type
RealSize(t) == IF t.kind = "complex" THEN t.size \div 2 ELSE t.size

(* ---- numbers -------------------------------------------------------------*)
Inf == 1000000
NaN == 2000000

Abs(x)      == IF x < 0 THEN -x ELSE x
IsFinite(x) == Abs(x) < Inf

\* Comparisons of reals: a NaN compares with nothing
Eq(x, y) == x # NaN /\ x = y
Lt(x, y) == x # NaN /\ y # NaN /\ x < y
Le(x, y) == x # NaN /\ y # NaN /\ x <= y

IntMin(t) == IF t.kind = "sint" THEN -2 * 2^(Width[t.size] - 1) ELSE 0
IntMax(t) == 2 * ((IF t.kind = "sint" THEN 2^(Width[t.size] - 1) ELSE 2^Width[t.size]) - 1)
IntsOf(t) == {2 * n : n \in (IntMin(t) \div 2)..(IntMax(t) \div 2)}

MaxReal(s) == (2^Precision[s] - 1) * 2^Exponent[s]

\* Rounding to the nearest real of size s, to an even significand if there are
\* two, to infinity if there is none
Round(s, x) ==
    LET e == Min({n \in 0..Exponent[8] + Precision[8] : Abs(x) < 2^(Precision[s] + n)})
        q == Abs(x) \div 2^e
        r == Abs(x) % 2^e
        m == IF 2 * r > 2^e \/ (2 * r = 2^e /\ q % 2 = 1) THEN (q + 1) * 2^e ELSE q * 2^e
        y == IF m > MaxReal(s) THEN Inf ELSE m
    IN  IF ~IsFinite(x) THEN x ELSE IF x < 0 THEN -y ELSE y

Trunc(x) == IF x < 0 THEN -(2 * (-x \div 2)) ELSE 2 * (x \div 2)
Floor(x) == IF IsFinite(x) THEN 2 * (x \div 2) ELSE x

\* Wrapping an integer to those of type t
Wrap(t, x) ==
    LET n == 2 * 2^Width[t.size]
        y == x % n
    IN  IF t.kind = "sint" /\ y > IntMax(t) THEN y - n ELSE y

(* ---- values: a real and an imaginary part --------------------------------*)
Value(re)   == <<re, 0>>
Zero        == Value(0)
One         == Value(2)

\* static_cast of a real to an integer type: undefined unless the whole part is
\* one of its values
RealToInt(t, x) ==
    IF IsFinite(x) /\ Trunc(x) \in IntMin(t)..IntMax(t) THEN {Trunc(x)} ELSE IntsOf(t)

\* static_cast<dst>(v) for v of type src: the set of the values it may give
Cast(dst, src, v) ==
    CASE dst.kind = "bool"    -> {IF v = Zero THEN Zero ELSE One}
      [] IsInt(dst)           -> IF src.kind \in {"real", "complex"}
                                 THEN {Value(x) : x \in RealToInt(dst, v[1])}
                                 ELSE {Value(Wrap(dst, v[1]))}
      [] dst.kind = "real"    -> {Value(Round(dst.size, v[1]))}
      [] dst.kind = "complex" -> {<<Round(RealSize(dst), v[1]), Round(RealSize(dst), v[2])>>}
=============================================================================
