---------------------------- MODULE TypeMatching ----------------------------
(* Matching a pattern type against a concrete type, which binds the type     *)
(* variables of the pattern, and substituting bindings into a pattern.       *)
(*                                                                           *)
(* A type is its dimensions followed by a dtype.  Dimensions are fixed, var, *)
(* the symbolic Fixed, a type variable, a power (a dimension and the name of *)
(* its exponent) or an ellipsis ("" if it has no name); dtypes are builtin,  *)
(* options, tuples, type variables and Any.                                  *)
EXTENDS Integers, Sequences, FiniteSets, TLC, SequencesExt, Calls

CONSTANTS Patterns,       \* types to match ...
          Candidates      \* ... against these, which are concrete

Type(dims, dtype)   == [dims |-> dims, dtype |-> dtype]
FixedOf(n)          == [is |-> "fixed", n |-> n]
VarOf               == [is |-> "var"]
FixedSym            == [is |-> "Fixed"]
DimVar(name)        == [is |-> "typevar", name |-> name]
Pow(base, exp)      == [is |-> "pow", base |-> base, exp |-> exp]
Ellipsis(name)      == [is |-> "ellipsis", name |-> name]
Garbage             == [is |-> "garbage"]           \* read from memory never written

Dtype(id)           == [is |-> "builtin", id |-> id]
TypeVar(name)       == [is |-> "typevar", name |-> name]
AnySym              == [is |-> "any"]
OptionOf(d)         == [is |-> "option", value |-> d]
TupleType(fields, variadic) == [is |-> "tuple", fields |-> fields, variadic |-> variadic]
Void                == Dtype("void")

Rest(t)    == Type(Tail(t.dims), t.dtype)
Drop(t, n) == Type(SubSeq(t.dims, n + 1, Len(t.dims)), t.dtype)
Ndim(t)    == Len(t.dims)

(* ---- bindings: of a name to a type or to a fragment of dimensions --------*)
Bound(vars, name)    == name \in DOMAIN vars
Bind(vars, name, b)  == vars @@ (name :> b)
AType(t)             == [is |-> "type", type |-> t]
Fragment(dims)       == [is |-> "fragment", dims |-> dims]
Repeats(n)           == AType(Type(<<FixedOf(n)>>, Void))

Yes(vars) == [ok |-> TRUE, vars |-> vars]
No        == [ok |-> FALSE, vars |-> << >>]

NoDim     == [is |-> "none"]

\* The first dimension of what a name is bound to, if it is a type with one
BoundDim(vars, name) ==
    IF vars[name].is = "type" /\ vars[name].type.dims # << >>
    THEN vars[name].type.dims[1] ELSE NoDim

(* ---- dim_fragment_type::broadcast_with_type ------------------------------*)
\* What a dimension of a type changes one of a fragment to, if it does
Combine(f, c) == IF c # VarOf /\ f \in {VarOf, FixedSym, FixedOf(1)} THEN <<c>> ELSE << >>

Clash(f, c) == Combine(f, c) = << >> /\ c # VarOf /\ c # f /\ c # FixedOf(1)

\* The leading dimensions of the longer one, then both together; << >> for a
\* clash. When the two differ in length, a dimension of the fragment that does
\* not change is not copied to the result.
BroadcastWith(f, cs) ==
    LET n      == Len(cs)
        m      == Len(f)
        common == IF n < m THEN n ELSE m
        both   == [i \in 1..common |-> <<f[m - common + i], cs[n - common + i]>>]
    IN  IF n = 0 THEN <<f>>
        ELSE IF \E i \in 1..common : Clash(both[i][1], both[i][2]) THEN << >>
        ELSE <<SubSeq(IF n > m THEN cs ELSE f, 1, (IF n > m THEN n ELSE m) - common)
               \o [i \in 1..common |->
                      LET new == Combine(both[i][1], both[i][2])
                      IN  IF new # << >> THEN new[1]
                          ELSE IF n = m THEN both[i][1] ELSE Garbage]>>

(* ---- match ---------------------------------------------------------------*)
RECURSIVE Match(_, _, _), MatchDtype(_, _, _), MatchFields(_, _, _)

MatchFields(fs, cs, vars) ==
    IF fs = << >> THEN Yes(vars)
    ELSE LET r == Match(fs[1], cs[1], vars)
         IN  IF r.ok THEN MatchFields(Tail(fs), Tail(cs), r.vars) ELSE No

\* A name stands for one dtype
MatchTypeVar(name, c, vars) ==
    IF c.dims # << >> THEN No
    ELSE IF ~Bound(vars, name) THEN Yes(Bind(vars, name, AType(c)))
    ELSE IF vars[name] = AType(c) THEN Yes(vars) ELSE No

MatchOption(value, c, vars) ==
    IF c.dims = << >> /\ c.dtype.is = "option"
    THEN MatchDtype(value, Type(<< >>, c.dtype.value), vars) ELSE No

\* The candidate of a tuple is a tuple: it is not looked at whether it is
MatchTuple(d, c, vars) ==
    IF \/ Len(d.fields) = Len(c.dtype.fields) /\ ~c.dtype.variadic
       \/ Len(d.fields) <= Len(c.dtype.fields) /\ d.variadic
    THEN MatchFields(d.fields, c.dtype.fields, vars) ELSE No

MatchDtype(d, c, vars) ==
    CASE d.is = "any"     -> Yes(vars)
      [] d.is = "builtin" -> IF c = Type(<< >>, d) THEN Yes(vars) ELSE No
      [] d.is = "typevar" -> MatchTypeVar(d.name, c, vars)
      [] d.is = "option"  -> MatchOption(d.value, c, vars)
      [] d.is = "tuple"   -> MatchTuple(d, c, vars)

\* Mutant: what the name is bound to is not compared.
MatchTypevarDimOnce(p, c, vars) ==
    IF c.dims = << >> THEN No
    ELSE Match(Rest(p), Rest(c), IF Bound(vars, p.dims[1].name) THEN vars
                                 ELSE Bind(vars, p.dims[1].name, AType(c)))

\* typevar_dim_type: the same dimension every time
MatchTypevarDim(p, c, vars) ==
    LET name == p.dims[1].name IN
    IF c.dims = << >> THEN No
    ELSE IF ~Bound(vars, name) THEN Match(Rest(p), Rest(c), Bind(vars, name, AType(c)))
    ELSE IF BoundDim(vars, name) = c.dims[1] THEN Match(Rest(p), Rest(c), vars) ELSE No

\* Mutant: the name of an ellipsis is bound once.
MatchEllipsisOnce(p, c, vars) ==
    LET name == p.dims[1].name
        n    == IF c.dims = << >> THEN 0 ELSE Ndim(c) - Ndim(p) + 1
    IN  IF n < 0 THEN No
        ELSE Match(Rest(p), Drop(c, n),
                   IF name = "" \/ Bound(vars, name) THEN vars
                   ELSE Bind(vars, name, Fragment(SubSeq(c.dims, 1, n))))

\* ellipsis_dim_type: all dimensions but those that follow, each of which
\* counts as one; together with those of another occurrence they broadcast
MatchEllipsis(p, c, vars) ==
    LET name == p.dims[1].name
        n    == IF c.dims = << >> THEN 0 ELSE Ndim(c) - Ndim(p) + 1
        cs   == SubSeq(c.dims, 1, n)
    IN  IF n < 0 THEN No
        ELSE IF name = "" THEN Match(Rest(p), Drop(c, n), vars)
        ELSE IF ~Bound(vars, name)
        THEN Match(Rest(p), Drop(c, n), Bind(vars, name, Fragment(cs)))
        ELSE IF vars[name].is # "fragment" \/ BroadcastWith(vars[name].dims, cs) = << >> THEN No
        ELSE Match(Rest(p), Drop(c, n),
                   [vars EXCEPT ![name] = Fragment(BroadcastWith(@.dims, cs)[1])])

\* How many dimensions n repetitions of a base take, -1 if they do not fit: a
\* dimension that is not var is not taken by var
Taken(base, c, n) ==
    IF base = VarOf THEN Cardinality({i \in 1..n : \A j \in 1..i : c.dims[j] = VarOf})
    ELSE IF \A i \in 1..n : IF base = FixedSym THEN c.dims[i].is = "fixed" ELSE c.dims[i] = base
    THEN n ELSE -1

\* pow_dimsym_type: the exponent is the number of dimensions that are left
MatchPow(p, c, vars) ==
    LET d     == p.dims[1]
        n     == Ndim(c) - Ndim(Rest(p))
        with  == IF Bound(vars, d.exp) THEN vars ELSE Bind(vars, d.exp, Repeats(n))
        named == d.base.is = "typevar"
        first == named /\ ~Bound(with, d.base.name)
        base  == IF first THEN c.dims[1] ELSE IF named THEN BoundDim(with, d.base.name) ELSE d.base
    IN  IF n < 0 \/ BoundDim(with, d.exp) # FixedOf(n) THEN No
        ELSE IF n = 0 THEN Match(Rest(p), c, with)
        ELSE IF base = NoDim \/ Taken(base, c, n) = -1 THEN No
        ELSE Match(Rest(p), Drop(c, Taken(base, c, n)),
                   IF first THEN Bind(with, d.base.name, AType(c)) ELSE with)

\* The symbolic Fixed takes any fixed dimension, fixed and var the same one
TakesSymbolic(c) == c.is = "fixed"
MatchDim(p, c, vars) ==
    IF /\ c.dims # << >>
       /\ IF p.dims[1] = FixedSym THEN TakesSymbolic(c.dims[1]) ELSE c.dims[1] = p.dims[1]
    THEN Match(Rest(p), Rest(c), vars) ELSE No

Match(p, c, vars) ==
    IF p.dims = << >> THEN MatchDtype(p.dtype, c, vars)
    ELSE CASE p.dims[1].is = "typevar"  -> MatchTypevarDim(p, c, vars)
           [] p.dims[1].is = "pow"      -> MatchPow(p, c, vars)
           [] p.dims[1].is = "ellipsis" -> MatchEllipsis(p, c, vars)
           [] OTHER                     -> MatchDim(p, c, vars)

(* ---- substitute ----------------------------------------------------------*)
RECURSIVE Substitute(_, _, _), SubstituteDtype(_, _, _)

Error == [is |-> "error"]   \* invalid_argument

Prepend(dims, t) == IF t = Error THEN Error ELSE Type(dims \o t.dims, t.dtype)

\* A name must be bound to a dtype
SubstituteTypeVar(d, vars, concrete) ==
    IF ~Bound(vars, d.name) THEN IF concrete THEN Error ELSE Type(<< >>, d)
    ELSE IF vars[d.name].is = "type" /\ Ndim(vars[d.name].type) = 0
    THEN vars[d.name].type ELSE Error

\* The result is a tuple of exactly these fields, whatever the pattern was
SubstituteFields(fields, vars, concrete) ==
    LET fs == [i \in DOMAIN fields |-> Substitute(fields[i], vars, concrete)]
    IN  IF \E i \in DOMAIN fs : fs[i] = Error THEN Error
        ELSE Type(<< >>, TupleType(fs, FALSE))

SubstituteOption(value, vars, concrete) ==
    LET t == SubstituteDtype(value, vars, concrete)
    IN  IF t = Error THEN Error ELSE Type(<< >>, OptionOf(t.dtype))

SubstituteDtype(d, vars, concrete) ==
    CASE d.is = "builtin" -> Type(<< >>, d)
      [] d.is = "any"     -> IF concrete THEN Error ELSE Type(<< >>, d)
      [] d.is = "typevar" -> SubstituteTypeVar(d, vars, concrete)
      [] d.is = "option"  -> SubstituteOption(d.value, vars, concrete)
      [] d.is = "tuple"   -> SubstituteFields(d.fields, vars, concrete)

\* A power: an exponent that is not bound stays, even where the result is to be
\* concrete
SubstitutePow(d, rest, vars, concrete) ==
    LET exp   == IF Bound(vars, d.exp) THEN BoundDim(vars, d.exp) ELSE NoDim
        named == d.base.is = "typevar"
        base  == IF named /\ Bound(vars, d.base.name) THEN BoundDim(vars, d.base.name) ELSE d.base
    IN  IF Bound(vars, d.exp) /\ exp.is # "fixed" THEN Error
        ELSE IF exp = FixedOf(0) THEN rest
        ELSE IF base = NoDim \/ (concrete /\ base.is = "typevar") THEN Error
        ELSE IF exp = NoDim THEN Prepend(<<Pow(base, d.exp)>>, rest)
        ELSE IF base = FixedSym /\ concrete THEN Error
        ELSE Prepend([i \in 1..exp.n |-> base], rest)

\* A name must be bound to a type with a dimension, which is what it stands for
SubstituteTypevarDim(d, rest, vars, kept) ==
    IF ~Bound(vars, d.name) THEN kept
    ELSE IF BoundDim(vars, d.name) = NoDim THEN Error
    ELSE Prepend(<<BoundDim(vars, d.name)>>, rest)

SubstituteEllipsis(d, rest, vars, kept) ==
    IF d.name = "" THEN Error
    ELSE IF ~Bound(vars, d.name) THEN kept
    ELSE IF vars[d.name].is = "fragment" THEN Prepend(vars[d.name].dims, rest) ELSE Error

Substitute(p, vars, concrete) ==
    IF p.dims = << >> THEN SubstituteDtype(p.dtype, vars, concrete)
    ELSE LET d    == p.dims[1]
             rest == Substitute(Rest(p), vars, concrete)
             kept == IF concrete THEN Error ELSE Prepend(<<d>>, rest)
    IN
    CASE d.is \in {"fixed", "var"} -> Prepend(<<d>>, rest)
      [] d = FixedSym       -> kept
      [] d.is = "typevar"   -> SubstituteTypevarDim(d, rest, vars, kept)
      [] d.is = "pow"       -> SubstitutePow(d, rest, vars, concrete)
      [] d.is = "ellipsis"  -> SubstituteEllipsis(d, rest, vars, kept)

(* ---- calls ---------------------------------------------------------------*)
\* A tuple is matched against tuples only: the code casts what it is given to one
MatchCall ==
    \E p \in Patterns, c \in Candidates :
        /\ p.dtype.is = "tuple" => c.dims = << >> /\ c.dtype.is = "tuple"
        /\ call = [op |-> "match", pattern |-> p, candidate |-> c]

MatchTypes == /\ Asked /\ call.op = "match"
              /\ outcome' = <<Match(call.pattern, call.candidate, << >>)>>

(* ---- properties ----------------------------------------------------------*)
\* What a pattern is made of, and what stands for its names in a candidate
Parts(t)  == {t} \cup (IF t.dtype.is = "tuple" THEN Range(t.dtype.fields) ELSE {})
Dims(t)   == UNION {Range(q.dims) : q \in Parts(t)}
Leaves(t) == {IF q.dtype.is = "option" THEN q.dtype.value ELSE q.dtype : q \in Parts(t)}
Of(things, is) == {x \in things : x.is = is}
DtypeNames(p)    == {d.name : d \in Of(Leaves(p), "typevar")}
DimNames(p)      == {d.name : d \in Of(Dims(p), "typevar")
                                    \cup Of({d.base : d \in Of(Dims(p), "pow")}, "typevar")}
ExponentNames(p) == {d.exp : d \in Of(Dims(p), "pow")}
EllipsisNames(p) == {d.name : d \in Of(Dims(p), "ellipsis")}

Assignments(p, c) ==
    {a @@ b @@ e @@ f :
        a \in [DtypeNames(p) -> {AType(Type(<< >>, d)) : d \in Leaves(c) \cup {q.dtype : q \in Parts(c)}}],
        b \in [DimNames(p) -> {AType(Type(<<d>>, Void)) : d \in Dims(c) \cup {VarOf}}],
        e \in [ExponentNames(p) -> {Repeats(n) : n \in 0..3}],
        f \in [EllipsisNames(p) -> UNION {{Fragment(SubSeq(q.dims, i, j)) :
                      i \in 1..Len(q.dims) + 1, j \in 0..Len(q.dims)} : q \in Parts(c)}]}

Variadic(p)   == p.dtype.is = "tuple" /\ p.dtype.variadic
Anonymous(p)  == "" \in EllipsisNames(p)
Concrete(p)   == /\ FixedSym \notin Dims(p) \cup {d.base : d \in Of(Dims(p), "pow")}
                 /\ AnySym \notin Leaves(p)
Broadcasts(p) == p.dtype.is = "tuple" /\ \A i \in DOMAIN p.dtype.fields :
                     p.dtype.fields[i].dims # << >> /\ p.dtype.fields[i].dims[1] = Ellipsis("A")

\* A pattern matches exactly the types that its names can be replaced to give,
\* and binds them to what gives back the candidate. What a pattern with a
\* symbolic Fixed or Any was matched to makes a pattern that still matches, and
\* is refused where a concrete type is required, unless none is left of it.
\* (type::match, ndt::substitute)
MatchesInstances ==
    Answered({"match"}) /\ ~Broadcasts(call.pattern) =>
        LET p      == call.pattern
            c      == call.candidate
            given  == Substitute(p, Answer.vars, TRUE)
            again  == Substitute(p, Answer.vars, FALSE)
        IN  IF Concrete(p) /\ ~Variadic(p) /\ ~Anonymous(p)
            THEN /\ Answer.ok <=> \E s \in Assignments(p, c) : Substitute(p, s, TRUE) = c
                 /\ Answer.ok => given = c
            ELSE Answer.ok =>
                 /\ ~Concrete(p) => given \in {Error, c}
                 /\ ~Variadic(p) /\ ~Anonymous(p) => Match(again, c, << >>).ok

\* Types that share an ellipsis match when what follows it matches and the
\* dimensions it stands for broadcast together; it is bound to what they
\* broadcast to. Only the dimensions that an argument shares with more or fewer
\* before it may come from memory never written; var is lost where it meets a one.
\* (ellipsis_dim_type::match, dim_fragment_type::broadcast_with_type)
EllipsisBroadcasts ==
    Answered({"match"}) /\ Broadcasts(call.pattern) =>
        LET ps       == call.pattern.dtype.fields
            cs       == call.candidate.dtype.fields
            held(i)  == Ndim(cs[i]) - Ndim(ps[i]) + 1
            head(i)  == SubSeq(cs[i].dims, 1, held(i))
            rests    == Type(<< >>, TupleType([i \in DOMAIN ps |-> Rest(ps[i])], FALSE))
            tails    == Type(<< >>, TupleType([i \in DOMAIN cs |-> Drop(cs[i], held(i))], FALSE))
            fit      == Len(cs) = Len(ps) /\ \A i \in DOMAIN cs : held(i) >= 0
            longest  == Max({held(i) : i \in DOMAIN cs})
            at(k)    == {head(i)[held(i) - k] : i \in {j \in DOMAIN cs : held(j) > k}}
            sizes(k) == at(k) \ {VarOf, FixedOf(1)}
            before(i) == Max({held(j) : j \in 1..i - 1})
            mixed(k) == \E i \in 2..Len(cs) : held(i) # before(i) /\ k < held(i) /\ k < before(i)
        IN  IF fit /\ Match(rests, tails, << >>).ok
            THEN /\ Answer.ok <=> \A k \in 0..longest - 1 : Cardinality(sizes(k)) <= 1
                 /\ Answer.ok =>
                       LET dims == Answer.vars["A"].dims IN
                       /\ Len(dims) = longest
                       /\ \A k \in 0..longest - 1 :
                              \/ dims[longest - k] \in IF sizes(k) = {} THEN at(k) ELSE sizes(k)
                              \/ dims[longest - k] = Garbage /\ mixed(k)
            ELSE ~Answer.ok
=============================================================================
