---------------------------- MODULE MCFunctions ----------------------------
(* Arguments for TLC: integers of 2, 3, 5 and 7 bits, reals of 3 and 5        *)
(* significant bits with values at every boundary of a type; arrays of up to *)
(* three dimensions; patterns of every kind against types of up to three     *)
(* dimensions; strings of the code points at which a form changes its length; *)
(* iterators of up to five elements; types made of up to four others, every    *)
(* kind within every kind; days, times and texts of them at every exception of  *)
(* the calendar.                                                              *)
EXTENDS PureFunctions

MCWidth     == [s \in {1, 2, 4, 8} |-> CASE s = 1 -> 2 [] s = 2 -> 3 [] s = 4 -> 5 [] s = 8 -> 7]
MCPrecision == [s \in {4, 8} |-> IF s = 4 THEN 3 ELSE 5]
MCExponent  == [s \in {4, 8} |-> IF s = 4 THEN 6 ELSE 7]

Boundaries == {0} \cup {IntMin(t) : t \in {u \in BuiltinTypes : IsInt(u)}}
                  \cup {IntMax(t) : t \in {u \in BuiltinTypes : IsInt(u)}}
MCSamples ==
    {b + d : b \in Boundaries, d \in {-1, 0, 2}} \cup {3, 36, 200}
    \cup {MaxReal(4), -MaxReal(4), MaxReal(4) + 32, MaxReal(8), Inf, -Inf, NaN}

MCPromotable ==
    BuiltinIds \cup {String, FixedString, TypeType}
    \cup {Option(t) : t \in {CInt, Float32, String}}
    \cup {VarDim(CInt), VarDim(Float32), FixedDim(CInt)}

MCShapes == UNION {[1..k -> 0..3] : k \in 0..3}

IRange(start, finish, step) == [start |-> start, finish |-> finish, step |-> step]
IRanges == {IRange(a, b, k) : a \in {Begin} \cup -4..3, b \in -4..4 \cup {End}, k \in -2..2}
Few     == {IRange(1, 3, 0), IRange(Begin, End, -1), IRange(-2, End, 2), IRange(0, -1, 1), IRange(2, 0, -2)}
MCIndexes == {<<r>> : r \in IRanges} \cup {<<q, r>> : q, r \in Few}
MCSteps   == {-6, -3, -1, 0, 1, 2, 3, 4, 6, 9}

\* An array of Fortran order with two trailing dimensions of one element
Trailing      == {<<2, 3, 1, 1>>}
TrailingSteps == {0, 1, 2}
None          == {}

MCInputs  == LET some == UNION {[1..k -> {Variable, 0, 1, 2, 3}] : k \in 0..2}
             IN  {<<a, b>> : a, b \in some}
                 \cup {<<a, b, c>> : a, b, c \in {<<n>> : n \in {Variable, 0, 1, 2, 3}} \cup {<<2, 1>>, << >>}}

DimsOf(ds, lens) == UNION {[1..k -> ds] : k \in lens}
Sizes            == {FixedOf(1), FixedOf(2), FixedOf(3), VarOf}
Tuple(types)     == Type(<< >>, TupleType(types, FALSE))

MN     == {FixedOf(2), VarOf, FixedSym, DimVar("M"), DimVar("N")}
Powers == {Pow(b, "E") : b \in {FixedOf(2), VarOf, FixedSym, DimVar("M")}}
Dots   == {Ellipsis("A"), Ellipsis("")}

MCPatterns ==
    {Type(ds, t) : ds \in DimsOf(MN, {0, 1, 2}), t \in {Dtype("int"), TypeVar("T"), AnySym}}
    \cup {Type(a \o <<d>> \o b, TypeVar("T")) : d \in Powers \cup Dots,
                                               a, b \in DimsOf({FixedOf(2), DimVar("M")}, {0, 1})}
    \cup {Type(<<Pow(DimVar("M"), "E"), DimVar("M")>>, OptionOf(TypeVar("T")))}
    \cup {Type(<< >>, TupleType(<<Type(<<d>>, TypeVar("T")), Type(<<e>>, TypeVar("S"))>>, v)) :
              d, e \in {FixedSym, DimVar("M"), Pow(DimVar("M"), "E"), Pow(FixedOf(2), "E")},
              v \in BOOLEAN}
    \cup {Tuple([i \in 1..n |-> Type(<<Ellipsis("A")>> \o ds, TypeVar("T"))]) :
              n \in 2..3, ds \in DimsOf({DimVar("M")}, {0, 1})}

Scalar(dims) == Type(dims, Dtype("int"))
MCCandidates ==
    {Type(ds, t) : ds \in DimsOf(Sizes, {0, 1, 2}), t \in {Dtype("int"), OptionOf(Dtype("int"))}}
    \cup {Scalar(ds) : ds \in DimsOf({FixedOf(2), FixedOf(3), VarOf}, {3})}
    \cup {Tuple(<<Scalar(a), Type(b, t)>>) : a, b \in DimsOf(Sizes, {0, 1, 2}),
                                            t \in {Dtype("int")}}
    \cup {Tuple(<<Scalar(<<d>>), Type(<<d>>, Dtype("real"))>>) : d \in Sizes}
    \cup {Tuple([i \in 1..3 |-> Scalar(<<ds[i]>>)]) : ds \in [1..3 -> Sizes]}

\* The code points at which the forms change in length, as Unicode gives them
Character(cp, utf8, utf16) ==
    [ascii |-> IF cp < 128 THEN <<cp>> ELSE << >>, ucs2 |-> IF Len(utf16) = 1 THEN utf16 ELSE << >>,
     utf8  |-> utf8, utf16 |-> utf16, utf32 |-> <<cp>>]
Table ==
    {Character(0, <<0>>, <<0>>),                        Character(65, <<65>>, <<65>>),
     Character(127, <<127>>, <<127>>),                  Character(128, <<194, 128>>, <<128>>),
     Character(2047, <<223, 191>>, <<2047>>),           Character(2048, <<224, 160, 128>>, <<2048>>),
     Character(8364, <<226, 130, 172>>, <<8364>>),      Character(65535, <<239, 191, 191>>, <<65535>>),
     Character(65536, <<240, 144, 128, 128>>, <<55296, 56320>>),
     Character(1114111, <<244, 143, 191, 191>>, <<56319, 57343>>)}
CodePoints   == {ch.utf32[1] : ch \in Table}
MCCharacters == [cp \in CodePoints |-> CHOOSE ch \in Table : ch.utf32 = <<cp>>]

MCMalformed ==
    [ascii |-> {<<128>>, <<255, 65>>},
     ucs2  |-> {<<55296>>, <<57343, 65>>},
     utf8  |-> {<<128>>, <<255>>, <<195>>, <<195, 65>>, <<192, 128>>, <<226, 130>>, <<226, 130, 65>>,
                <<237, 160, 128>>, <<244, 144, 128, 128>>, <<240, 159, 65>>, <<224, 128, 128>>},
     utf16 |-> {<<55296>>, <<57343>>, <<56320, 55296>>, <<55296, 65>>, <<65, 55296>>},
     utf32 |-> {<<55296>>, <<1114112>>, <<57343, 65>>}]

\* Nine code points of three octets make the memory of the destination grow.
MCTexts ==
    {<< >>} \cup {<<a>> : a \in CodePoints} \cup {<<a, b>> : a, b \in {0, 65, 2047, 8364, 65536}}
    \cup {<<65, 8364, a>> : a \in {0, 65, 65536}} \cup {[i \in 1..9 |-> a] : a \in {65, 8364}}

\* Types for datashapes: every simple one, with those there is no datashape for
SimpleTypes ==
    {Plain(n) : n \in PlainNames \cup KindNames} \cup {ComplexOf(n) : n \in {"float32", "float64"}}
    \cup {Coded("string", enc) : enc \in DOMAIN EncodingNames}
    \cup {Coded("char", enc) : enc \in {"ascii", "ucs2", "utf32", "latin1"}}
    \cup {SizedString(n, enc) : n \in {1, 10}, enc \in DOMAIN EncodingNames}
    \cup {BytesOf(a) : a \in {1, 2, 16}} \cup {SizedBytes(n, a) : n \in {8, 16}, a \in {1, 4, 8}}
    \cup {Zoned(k, tz) : k \in {"time", "datetime"}, tz \in {"abstract", "UTC"}}
    \cup {Var(n) : n \in {"T", "Int", "C", "Fixed"}}
    \cup {Over("unaligned", Plain(n)) : n \in {"int16", "float64"}}
    \cup {Over("byteswap", t) : t \in {Plain("int32"), ComplexOf("float32")}}
    \cup {Viewing(k, Plain("int32"), Over("byteswap", Plain("float32"))) : k \in {"view", "byteswap over"}}
    \cup {Adapt(Plain("int32"), t, <<"days since 2012-01-01">>) :
              t \in {Plain("date"), Over("option", Plain("date"))}}

\* What is made of other types
Dimensioned(types) ==
    LET ds == {<<"fixed", 0>>, <<"fixed", 3>>, <<"var">>, <<"Fixed">>, <<"typevar", "M">>,
               <<"typevar", "Fixed">>, <<"typevar", "Int">>}
    IN  {DimOver(d, t) : d \in ds, t \in types} \cup {PowOver(d, "E", t) : d \in ds, t \in types}
        \cup {DotsOver(n, t) : n \in {"", "A"}, t \in types}
Wrapped(types) ==
    ({MakeOption(t) : t \in types} \cup {MakePointer(t) : t \in types} \cup {MakeC(t) : t \in types}
     \cup {Over("type", t) : t \in types}
     \cup {VarOver(n, t) : n \in {"A", "C", "Real"}, t \in types}) \ {Rejected}
Fields(types, n) == UNION {{FieldsOf(f, v) : f \in [1..k -> types], v \in BOOLEAN} : k \in 0..n}
Structs(names, types, n) ==
    UNION {{StructOf(ns, f, v) : ns \in [1..k -> names], f \in [1..k -> types], v \in BOOLEAN} : k \in 0..n}

Names == {Lower("x"), Lower("type"), Quoted(<<"x", "'", "\"", "\\", "newline", "0001", "00e9">>),
          Quoted(<<"0001f600">>)}
Two   == {Plain("int32"), Plain("type")}
Some  == {Plain(n) : n \in {"int32", "type", "date", "Int"}}
         \cup {ComplexOf("float64"), Coded("string", "utf8"), Var("T"), Zoned("time", "UTC")}
Inner == Dimensioned(Two) \cup Wrapped(Dimensioned(Two) \cup Two) \cup Fields(Two, 1)
         \cup Structs(Names, {Plain("int32")}, 2)
         \cup {Func(p, k, r) : p \in Fields(Two, 1), k \in Structs(Names, Two, 1), r \in Two}
MCTypes ==
    SimpleTypes \cup Dimensioned(Some) \cup Wrapped(Some \cup Dimensioned(Some))
    \cup Inner \cup Dimensioned(Inner) \cup Wrapped(Inner) \cup Fields(Inner, 1)
    \cup {FieldsOf(<<Plain("int32"), t>>, v) : t \in Inner, v \in BOOLEAN}
    \cup {StructOf(<<Lower("x")>>, <<t>>, v) : t \in Inner, v \in BOOLEAN}
    \cup {Func(FieldsOf(p, FALSE), StructOf(<< >>, << >>, FALSE), Plain("int32")) : p \in {<<t>> : t \in Inner}}
    \cup {Func(FieldsOf(<< >>, FALSE), StructOf(<<Lower("x"), Lower("y")>>, <<t, t>>, FALSE), t) : t \in Inner}

\* Days of years at every exception of the calendar, and of the first and last
\* years of 16 bits; instants around the epoch that 32 bits can count
MCDays ==
    UNION {{DaysBefore(y) + k : k \in 0..365} : y \in -401..-399 \cup -101..-100 \cup -4..4 \cup {1600, 1700, 2099, 2100}
                                                   \cup 1899..1901 \cup 1968..1972 \cup 2000..2001 \cup 2399..2400}
    \cup {DaysBefore(y) + k : y \in {-32768, 32767, 32768}, k \in {-1, 0, 59}} \cup {NA}
MCDateFields ==
    {Date(y, m, d) : y \in {-400, -100, -1, 0, 4, 1600, 1900, 1969, 1970, 1972, 2000, 2001, 32767},
                     m \in {-128, 0, 13} \cup 1..12, d \in {0, 1, 28, 29, 30, 31, 32}}
MCTimeInputs ==
    {Time(h, m, s, t) : h \in {-1, 0, 12, 23, 24, 256}, m \in {0, 59, 60}, s \in {-1, 0, 59, 60, 61},
                        t \in {0, 5, 99, 100, 10000}}
MCInstants ==
    -200..200 \cup {a + b : a \in {PerMinute, PerHour, PerDay, -PerHour, -PerDay, 59 * PerDay, -200 * PerDay, 240 * PerDay},
                            b \in {-PerMinute, -PerSecond, -1, 0, 1, 59, PerSecond}}
MCReplacements ==
    {[days |-> n, with |-> Date(y, m, d)] :
        n \in {k \in MCDays : k = NA \/ (SetFromDays(k).month <= 2 /\ SetFromDays(k).day >= 28)},
        y \in {Same, 2001}, m \in {Same, -13, -11, 0, 2, 12}, d \in {Same, -29, -1, 0, 31}}
MCDatetimes ==
    {[date |-> d, time |-> t] : d \in {Date(1969, 12, 31), Date(1970, 2, 29), Date(1970, 3, 1)}, t \in MCTimeInputs}
MCConversions ==
    {[value |-> n, unit |-> u, epoch |-> e] :
        n \in {NA} \cup {i \in MCInstants : i \in -1000..1000}, u \in Units, e \in {-PerSecond - 1, 0, 7}}

MCWrittenDates ==
    {Date(1995, 2, 3), Date(2000, 2, 29), Date(1, 1, 1), Date(9999, 12, 31), Date(2003, 5, 12), Date(1912, 5, 31),
     Date(1945, 10, 11), Date(1944, 11, 10), Date(1998, 12, 19), Date(0, 2, 29), Date(-1, 2, 5), Date(12345, 6, 7),
     Date(-32768, 1, 1), Date(40000, 2, 3), DateNA}
MCWrittenTimes ==
    {Time(0, 0, 0, 0), Time(0, 5, 3, 0), Time(9, 7, 3, 5), Time(12, 0, 3, 0), Time(12, 30, 59, 99), Time(15, 10, 3, 10),
     Time(23, 59, 60, 0), Time(24, 0, 0, 0), Time(10, 60, 3, 0), Time(10, 10, 61, 0), TimeNA}
MCEnvironments == [order : AllOrders, window : {0, 70, 1950}, check : BOOLEAN]
=============================================================================
