--------------------------- MODULE TypePromotion ---------------------------
(* promote_types_arithmetic: the type of the result of an operation on two   *)
(* types, for builtin types, options, strings, types, void and dimensions.   *)
EXTENDS Integers, FiniteSets

\* Types in the order of their ids, each with its kind and size
Builtin(k, s) == [kind |-> k, size |-> s]
VoidType      == Builtin("void", 0)
CInt           == Builtin("sint", 4)
Float16       == Builtin("real", 2)
Float32       == Builtin("real", 4)
Complex128    == Builtin("complex", 16)
Complex64     == Builtin("complex", 8)

BuiltinIds ==
    {VoidType, Builtin("bool", 1), Complex64, Complex128}
    \cup {Builtin(k, s) : k \in {"sint", "uint"}, s \in {1, 2, 4, 8, 16}}
    \cup {Builtin("real", s) : s \in {2, 4, 8, 16}}

String        == [kind |-> "string", size |-> 16]
FixedString   == [kind |-> "fixed_string", size |-> 4]
TypeType      == [kind |-> "type", size |-> 8]
Option(t)     == [kind |-> "option", of |-> t]
VarDim(t)     == [kind |-> "var_dim", of |-> t]
FixedDim(t)   == [kind |-> "fixed_dim", of |-> t]

IsString(t) == t.kind \in {"string", "fixed_string"}
IsDim(t)    == t.kind \in {"var_dim", "fixed_dim"}
IsIntKind(t)== t.kind \in {"sint", "uint"}
IsBuiltin(t) == t \in BuiltinIds
NoType      == [kind |-> "error"]   \* type_error

Larger(s, t) == IF s.size >= t.size THEN s ELSE t

\* Mutant: the first type wins when the sizes are equal.
PromoteIntsFirst(t0, t1) ==
    IF t0.size < CInt.size /\ t1.size < CInt.size THEN CInt ELSE Larger(t0, t1)

\* Integers smaller than int become int; of two sizes the larger wins, of equal
\* ones the unsigned
PromoteInts(t0, t1) ==
    IF t0.size < CInt.size /\ t1.size < CInt.size THEN CInt
    ELSE IF t0.size # t1.size THEN Larger(t0, t1)
    ELSE IF t0.kind = "uint" THEN t0 ELSE t1

\* "require at least float32", which holds for a float16 that comes second
AtLeastFloat32(t) == IF t = Float16 THEN Float32 ELSE t

\* A real and a complex number: as precise as the real of either
PromoteComplex(r, c) == IF r = Builtin("real", 8) /\ c = Complex64 THEN Complex128 ELSE c

PromoteBuiltin(t0, t1) ==
    CASE t0.kind = "void" -> t1
      [] t0.kind # "void" /\ t1.kind = "void" -> t0
      [] t0.kind = "bool" /\ t1.kind = "bool" -> CInt
      [] t0.kind = "bool" /\ IsIntKind(t1) -> Larger(t1, CInt)
      [] IsIntKind(t0) /\ t1.kind = "bool" -> Larger(t0, CInt)
      [] IsIntKind(t0) /\ IsIntKind(t1) -> PromoteInts(t0, t1)
      [] t0.kind \in {"bool", "sint", "uint"} /\ t1.kind = "real" -> AtLeastFloat32(t1)
      [] t0.kind = "real" /\ t1.kind \in {"bool", "sint", "uint"} -> t0
      [] t0.kind = "real" /\ t1.kind = "real" -> Larger(Larger(t0, t1), Float32)
      [] t0.kind = "real" /\ t1.kind = "complex" -> PromoteComplex(t0, t1)
      [] t0.kind = "complex" /\ t1.kind = "real" -> PromoteComplex(t1, t0)
      [] t0.kind \in {"bool", "sint", "uint"} /\ t1.kind = "complex" -> t1
      [] t0.kind = "complex" /\ t1.kind \in {"bool", "sint", "uint"} -> t0
      [] t0.kind = "complex" /\ t1.kind = "complex" -> Larger(t0, t1)

\* Types without a type of their own inside
PromoteScalar(t0, t1) ==
    IF IsBuiltin(t0) /\ IsBuiltin(t1) THEN PromoteBuiltin(t0, t1)
    ELSE IF IsString(t0) /\ IsString(t1) THEN String
    ELSE IF t0.kind = "type" /\ IsString(t1) THEN t0
    ELSE IF IsString(t0) /\ t1.kind = "type" THEN t1
    ELSE IF t0 = VoidType THEN t1
    ELSE IF t1 = VoidType THEN t0
    ELSE NoType

Inside(f, t) == IF t = NoType THEN NoType ELSE [kind |-> f, of |-> t]

\* An option of the types inside, or a var dimension of the element types; the
\* error of the types inside passes on
Promote(t0, t1) ==
    LET inner(t) == IF t.kind = "option" THEN t.of ELSE t IN
    IF "option" \in {t0.kind, t1.kind}
    THEN Inside("option", PromoteScalar(inner(t0), inner(t1)))
    ELSE IF IsDim(t0) /\ IsDim(t1) /\ "var_dim" \in {t0.kind, t1.kind}
    THEN Inside("var_dim", PromoteScalar(t0.of, t1.of))
    ELSE PromoteScalar(t0, t1)
=============================================================================
