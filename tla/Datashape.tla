----------------------------- MODULE Datashape -----------------------------
(* Types written as datashapes, and the recursive descent parser that reads  *)
(* them. A datashape is a sequence of tokens; a quoted one is a sequence of  *)
(* characters, of which those of Unnamed and Wide stand for code points.     *)
EXTENDS Integers, Sequences, SequencesExt, Calls

CONSTANT WrittenTypes    \* types to write and to read

(* ---- tokens --------------------------------------------------------------*)
Sym(s)       == <<"symbol", s>>
Lower(s)     == <<"lower", s>>    \* a name, by the case of its first letter
Upper(s)     == <<"upper", s>>
Num(n)       == <<"number", n>>
Quoted(text) == <<"quoted", text>>

IsName(tok) == tok[1] \in {"lower", "upper"}

(* ---- types ---------------------------------------------------------------*)
Plain(name)          == [is |-> "plain", name |-> name]
ComplexOf(name)      == [is |-> "complex", name |-> name]
Coded(kind, enc)     == [is |-> kind, enc |-> enc]              \* string, char
SizedString(n, enc)  == [is |-> "fixed_string", size |-> n, enc |-> enc]
BytesOf(align)       == [is |-> "bytes", align |-> align]
SizedBytes(n, align) == [is |-> "fixed_bytes", size |-> n, align |-> align]
Zoned(kind, tz)      == [is |-> kind, tz |-> tz]                \* time, datetime
Over(kind, t)        == [is |-> kind, of |-> t]
Viewing(kind, t, o)  == [is |-> kind, of |-> t, operand |-> o]  \* view, byteswap
Var(name)            == [is |-> "typevar", name |-> name]
VarOver(name, t)     == [is |-> "typevar_constructed", name |-> name, of |-> t]
DimOver(dim, t)      == [is |-> "dim", dim |-> dim, of |-> t]
DotsOver(name, t)    == [is |-> "ellipsis", name |-> name, of |-> t]
PowOver(dim, e, t)   == [is |-> "power", dim |-> dim, exponent |-> e, of |-> t]
FieldsOf(types, variadic)         == [is |-> "tuple", types |-> types, variadic |-> variadic]
StructOf(names, types, variadic) ==
    [is |-> "struct", names |-> names, types |-> types, variadic |-> variadic]
Func(pos, kwd, ret)  == [is |-> "func", pos |-> pos, kwd |-> kwd, ret |-> ret]
Adapt(o, v, op)      == [is |-> "adapt", operand |-> o, value |-> v, op |-> op]

\* A dim is <<"fixed", n>>, <<"var">>, <<"Fixed">> (fixed_dim_kind) or <<"typevar", name>>.

KindNames == {"Any", "Categorical", "FixedBytes", "FixedString", "Bool", "Int", "UInt", "SInt",
              "Real", "Complex"}
PlainNames == {"void", "bool", "int8", "int16", "int32", "int64", "int128", "uint8", "uint16",
               "uint32", "uint64", "uint128", "float16", "float32", "float64", "float128",
               "json", "date", "type", "ndarrayarg"}

\* Constructors that refuse some types
Rejected  == [is |-> "rejected"]
ExprKinds == {"unaligned", "view", "byteswap", "byteswap over", "adapt", "pointer"}
MakeOption(t)   == IF t.is = "option" THEN Rejected ELSE Over("option", t)
MakePointer(t)  == IF t.is \in ExprKinds \ {"pointer"} THEN Rejected ELSE Over("pointer", t)
MakeByteswap(t) == IF t.is \in {"plain", "complex"} THEN Over("byteswap", t) ELSE Rejected
MakeC(t)        == IF t.is = "dim" /\ t.dim[1] \in {"fixed", "Fixed"} THEN Over("C", t) ELSE Rejected
MakeUnaligned(t) == IF t \in {Plain(n) : n \in {"void", "bool", "int8", "uint8"}} THEN t
                    ELSE Over("unaligned", t)
Aligned(align, t) == IF align \in {1, 2, 4, 8, 16} THEN t ELSE Rejected

(* ---- characters between quotes -------------------------------------------*)
Controls == [backspace |-> "b", formfeed |-> "f", newline |-> "n", return |-> "r", tab |-> "t"]
Unnamed  == {"0001", "00e9"}      \* written with four hexadecimal digits
Wide     == {"0001f600"}          \* and with eight

Escape(ch) == CASE ch \in DOMAIN Controls -> <<"\\", Controls[ch]>>
                [] ch \in {"\\", "'"}     -> <<"\\", ch>>
                [] ch \in Unnamed         -> <<"\\", "u", ch>>
                [] ch \in Wide            -> <<"\\", "U", ch>>
                [] OTHER                  -> <<ch>>

InQuotes(text) == Quoted(FlattenSeq([i \in DOMAIN text |-> Escape(text[i])]))

\* parse_quoted_string, a character at a time
ReadCharacter(st, ch) ==
    CASE st.mode = "text" /\ ch = "\\"  -> [st EXCEPT !.mode = "escape"]
      [] st.mode = "text" /\ ch = "'"   -> [st EXCEPT !.mode = "wrong"]    \* the string ends here
      [] st.mode \in {"text", "digits"} -> [mode |-> "text", text |-> Append(st.text, ch)]
      [] st.mode = "escape" /\ ch = "u" -> [st EXCEPT !.mode = "digits"]
      [] st.mode = "escape" /\ ch \in {"\"", "'", "\\", "/"} ->
             [mode |-> "text", text |-> Append(st.text, ch)]
      [] st.mode = "escape" /\ \E k \in DOMAIN Controls : Controls[k] = ch ->
             [mode |-> "text", text |-> Append(st.text, CHOOSE k \in DOMAIN Controls : Controls[k] = ch)]
      [] OTHER -> [st EXCEPT !.mode = "wrong"]

ReadQuoted(tok) == FoldLeft(ReadCharacter, [mode |-> "text", text |-> << >>], tok[2])
Readable(tok)   == tok[1] = "quoted" /\ ReadQuoted(tok).mode = "text"

(* ---- print_type ----------------------------------------------------------*)
Bracketed(toks) == <<Sym("[")>> \o toks \o <<Sym("]")>>
Commas(parts)   == FlattenSeq([i \in DOMAIN parts |->
                                  IF i = 1 THEN parts[i] ELSE <<Sym(",")>> \o parts[i]])
DotsIf(written)   == IF written THEN <<Sym(","), Sym("...")>> ELSE << >>

DimToken(dim) == CASE dim[1] = "fixed"   -> Num(dim[2])
                   [] dim[1] = "var"     -> Lower("var")
                   [] dim[1] = "Fixed"   -> Upper("Fixed")
                   [] dim[1] = "typevar" -> Upper(dim[2])

\* A field's name is a token or, where it is no simple name, quoted characters.
NameToken(name) == IF IsName(name) THEN name ELSE InQuotes(name[2])

PrintSimple(t) ==
    CASE t.is = "plain"    -> <<IF t.name \in KindNames THEN Upper(t.name) ELSE Lower(t.name)>>
      [] t.is = "complex"  -> <<Lower("complex")>> \o Bracketed(<<Lower(t.name)>>)
      [] t.is \in {"string", "char"} ->
             <<Lower(t.is)>> \o (IF t.enc = (IF t.is = "char" THEN "utf32" ELSE "utf8") THEN << >>
                                 ELSE Bracketed(<<Quoted(<<t.enc>>)>>))
      [] t.is = "fixed_string" ->
             <<Lower(t.is)>> \o Bracketed(<<Num(t.size)>> \o (IF t.enc = "utf8" THEN << >>
                                          ELSE <<Sym(","), Quoted(<<t.enc>>)>>))
      [] t.is = "bytes" ->
             <<Lower(t.is)>> \o (IF t.align = 1 THEN << >>
                                 ELSE Bracketed(<<Lower("align"), Sym("="), Num(t.align)>>))
      [] t.is = "fixed_bytes" ->
             <<Lower(t.is)>> \o Bracketed(<<Num(t.size)>> \o (IF t.align = 1 THEN << >>
                                          ELSE <<Sym(","), Lower("align"), Sym("="), Num(t.align)>>))
      [] t.is \in {"time", "datetime"} ->
             <<Lower(t.is)>> \o (IF t.tz = "abstract" THEN << >>
                                 ELSE Bracketed(<<Lower("tz"), Sym("="), Quoted(<<t.tz>>)>>))
      [] t.is = "typevar" -> <<Upper(t.name)>>

Simple == {"plain", "complex", "string", "char", "fixed_string", "bytes", "fixed_bytes", "time",
           "datetime", "typevar"}

RECURSIVE PrintType(_)

PrintFunc(t) ==
    LET npos == Len(t.pos.types)
        item(i) == <<NameToken(t.kwd.names[i]), Sym(":")>> \o PrintType(t.kwd.types[i])
    IN  <<Sym("(")>> \o Commas([i \in DOMAIN t.pos.types |-> PrintType(t.pos.types[i])])
        \o (IF npos > 0 THEN DotsIf(t.pos.variadic)
            ELSE IF t.pos.variadic THEN <<Sym("...")>> ELSE << >>)
        \o FlattenSeq([i \in DOMAIN t.kwd.types |->
                          (IF i > 1 \/ npos > 0 THEN <<Sym(",")>> ELSE << >>) \o item(i)])
        \o (IF Len(t.kwd.types) > 0 /\ t.kwd.variadic THEN <<Sym("...")>> ELSE << >>)
        \o <<Sym(")"), Sym("->")>> \o PrintType(t.ret)

PrintType(t) ==
    CASE t.is \in Simple  -> PrintSimple(t)
      [] t.is = "option"  -> <<Sym("?")>> \o PrintType(t.of)
      [] t.is = "type"    -> <<Lower("type"), Sym("|")>> \o PrintType(t.of)
      [] t.is = "C"       -> <<Upper("C")>> \o Bracketed(PrintType(t.of))
      [] t.is \in {"pointer", "unaligned", "byteswap"} ->
                             <<Lower(t.is)>> \o Bracketed(PrintType(t.of))
      [] t.is = "view"    ->
             <<Lower("view")>> \o Bracketed(<<Lower("as"), Sym("=")>> \o PrintType(t.of)
                 \o <<Sym(","), Lower("original"), Sym("=")>> \o PrintType(t.operand))
      [] t.is = "byteswap over" ->
             <<Lower("byteswap")>> \o Bracketed(PrintType(t.of) \o <<Sym(",")>> \o PrintType(t.operand))
      [] t.is = "typevar_constructed" -> <<Upper(t.name)>> \o Bracketed(PrintType(t.of))
      [] t.is = "dim"      -> <<DimToken(t.dim), Sym("*")>> \o PrintType(t.of)
      [] t.is = "ellipsis" -> (IF t.name = "" THEN << >> ELSE <<Upper(t.name)>>)
                              \o <<Sym("..."), Sym("*")>> \o PrintType(t.of)
      [] t.is = "power"    -> <<DimToken(t.dim), Sym("**"), Upper(t.exponent), Sym("*")>>
                              \o PrintType(t.of)
      [] t.is = "tuple"    ->
             <<Sym("(")>> \o Commas([i \in DOMAIN t.types |-> PrintType(t.types[i])])
             \o DotsIf(t.variadic) \o <<Sym(")")>>
      [] t.is = "struct"   ->
             <<Sym("{")>> \o Commas([i \in DOMAIN t.types |->
                                <<NameToken(t.names[i]), Sym(":")>> \o PrintType(t.types[i])])
             \o DotsIf(t.variadic) \o <<Sym("}")>>
      [] t.is = "func"     -> PrintFunc(t)
      [] t.is = "adapt"    ->
             <<Lower("adapt")>> \o Bracketed(<<Sym("(")>> \o PrintType(t.operand)
                 \o <<Sym(")"), Sym("->")>> \o PrintType(t.value) \o <<Sym(","), InQuotes(t.op)>>)

(* ---- the parser ----------------------------------------------------------*)
\* It reads from a place p of c.tokens; c.names are the types named so far. A
\* function finds a type and where to go on, or nothing it knows, or it throws.
\* What a datashape is depends only on the tokens from its place on: c.found is
\* what parse_datashape finds at the places behind p.
Parsed(t, p) == [is |-> "type", tp |-> t, at |-> p]
Nothing      == [is |-> "nothing"]
ParseError   == [is |-> "error"]
Built(t, p)  == IF t = Rejected THEN ParseError ELSE Parsed(t, p)

Tok(c, p)           == IF p <= Len(c.tokens) THEN c.tokens[p] ELSE Sym("end")
Follows(c, p, toks) == \A i \in DOMAIN toks : Tok(c, p + i - 1) = toks[i]

ParseDatashape(c, p) == IF p \in DOMAIN c.found THEN c.found[p] ELSE Nothing

\* A type must follow, or one in brackets
Element(c, p) == LET r == ParseDatashape(c, p) IN IF r.is = "type" THEN r ELSE ParseError

Argument(c, p) ==
    LET r == ParseDatashape(c, p + 1)
    IN  IF Tok(c, p) = Sym("[") /\ r.is = "type" /\ Tok(c, r.at) = Sym("]")
        THEN Parsed(r.tp, r.at + 1)
        ELSE ParseError

\* What is made of the type that was found, if any
Made(r, Make(_)) == IF r.is = "type" THEN Built(Make(r.tp), r.at) ELSE r

(* parameters of strings, bytes and times *)
EncodingNames == [ascii |-> {"ascii", "A", "us-ascii"}, utf8 |-> {"utf8", "U8", "utf-8", "utf_8"},
                  utf16 |-> {"utf16", "U16", "utf-16", "utf_16"},
                  utf32 |-> {"utf32", "U32", "utf-32", "utf_32"}, ucs2 |-> {"ucs2", "ucs-2", "ucs_2"}]

IsEncoding(tok) ==
    \E enc \in DOMAIN EncodingNames : tok \in {Quoted(<<s>>) : s \in EncodingNames[enc]}
StringToEncoding(tok) == CHOOSE enc \in DOMAIN EncodingNames : tok[2][1] \in EncodingNames[enc]

ParseCoded(c, p, kind, default) ==
    IF Tok(c, p) # Sym("[") THEN Parsed(Coded(kind, default), p)
    ELSE IF IsEncoding(Tok(c, p + 1)) /\ Tok(c, p + 2) = Sym("]")
    THEN LET enc == StringToEncoding(Tok(c, p + 1))
         IN  IF kind = "char" /\ enc \notin {"ascii", "ucs2", "utf32"} THEN ParseError
             ELSE Parsed(Coded(kind, enc), p + 3)
    ELSE ParseError

\* A size, an encoding, or both
ParseFixedString(c, p) ==
    LET sized  == Tok(c, p + 1)[1] = "number"
        size   == IF sized THEN Tok(c, p + 1)[2] ELSE 0
        comma  == sized /\ Tok(c, p + 2) = Sym(",")
        q      == IF comma THEN p + 3 ELSE p + 1      \* where the encoding is
        coded  == comma \/ ~sized
        close  == IF coded THEN q + 1 ELSE p + 2
    IN  IF \/ Tok(c, p) # Sym("[") \/ Tok(c, close) # Sym("]")
           \/ sized /\ size = 0
           \/ coded /\ ~IsEncoding(Tok(c, q))
        THEN ParseError
        ELSE Parsed(SizedString(size, IF coded THEN StringToEncoding(Tok(c, q)) ELSE "utf8"), close + 1)

AlignIs(c, p) == Follows(c, p, <<Lower("align"), Sym("=")>>) /\ Tok(c, p + 2)[1] = "number"
                 /\ Tok(c, p + 3) = Sym("]")

ParseBytes(c, p) ==
    IF Tok(c, p) # Sym("[") THEN Parsed(BytesOf(1), p)
    ELSE IF AlignIs(c, p + 1)
    THEN Built(Aligned(Tok(c, p + 3)[2], BytesOf(Tok(c, p + 3)[2])), p + 5)
    ELSE ParseError

ParseFixedBytes(c, p) ==
    LET size == Tok(c, p + 1)[2]
        sized(align) == IF size % align = 0 /\ align <= size
                        THEN Aligned(align, SizedBytes(size, align)) ELSE Rejected
    IN  IF Tok(c, p) # Sym("[") \/ Tok(c, p + 1)[1] # "number" THEN ParseError
        ELSE IF Tok(c, p + 2) = Sym("]") THEN Built(sized(1), p + 3)
        ELSE IF Tok(c, p + 2) = Sym(",") /\ AlignIs(c, p + 3) THEN Built(sized(Tok(c, p + 5)[2]), p + 7)
        ELSE ParseError

ParseZoned(c, p, kind) ==
    IF Tok(c, p) # Sym("[") THEN Parsed(Zoned(kind, "abstract"), p)
    ELSE IF /\ Follows(c, p + 1, <<Lower("tz"), Sym("=")>>) /\ Tok(c, p + 4) = Sym("]")
            /\ Tok(c, p + 3) \in {Quoted(<<"abstract">>), Quoted(<<"UTC">>)}
    THEN Parsed(Zoned(kind, Tok(c, p + 3)[2][1]), p + 5)
    ELSE ParseError

(* parameters that are types *)
ParseComplex(c, p) ==
    IF Tok(c, p) # Sym("[") THEN Parsed(ComplexOf("float64"), p)
    ELSE Made(Argument(c, p), LAMBDA t : IF t \in {Plain("float32"), Plain("float64")}
                                   THEN ComplexOf(t.name) ELSE Rejected)

ParseFixed(c, p) ==
    IF /\ Tok(c, p) = Sym("[") /\ Tok(c, p + 1)[1] = "number"
       /\ Follows(c, p + 2, <<Sym("]"), Sym("*")>>)
    THEN Made(Element(c, p + 4), LAMBDA t : DimOver(<<"fixed", Tok(c, p + 1)[2]>>, t))
    ELSE ParseError

\* A function of one argument, which stands for the operand and the value
ParseAdapt(c, p) ==
    LET r == ParseDatashape(c, p + 1)
    IN  IF /\ Tok(c, p) = Sym("[") /\ r.is = "type" /\ r.tp.is = "func"
           /\ Len(r.tp.pos.types) = 1 /\ r.tp.kwd.types = << >>
           /\ Tok(c, r.at) = Sym(",") /\ Readable(Tok(c, r.at + 1)) /\ Tok(c, r.at + 2) = Sym("]")
        THEN Parsed(Adapt(r.tp.pos.types[1], r.tp.ret, ReadQuoted(Tok(c, r.at + 1)).text), r.at + 3)
        ELSE ParseError

(* structs, tuples and functions *)
\* Fields up to the closing token, with a comma more if one likes. Those of a
\* struct may have quoted names.
Named(name) == IF IsName(name) THEN name ELSE Quoted(ReadQuoted(name).text)

RECURSIVE ParseFields(_, _, _, _, _)
NextField(c, p, names, types, close) ==
    CASE Tok(c, p) = close                      -> Parsed(StructOf(names, types, FALSE), p + 1)
      [] Follows(c, p, <<Sym(","), close>>)     -> Parsed(StructOf(names, types, FALSE), p + 2)
      [] Tok(c, p) = Sym(",") /\ Tok(c, p + 1) # close -> ParseFields(c, p + 1, names, types, close)
      [] Tok(c, p) \notin {Sym(","), close}      -> ParseError

ParseFields(c, p, names, types, close) ==
    LET name == Tok(c, p)
        r    == ParseDatashape(c, p + 2)
    IN  IF name = Sym("...")
        THEN IF Tok(c, p + 1) = close THEN Parsed(StructOf(names, types, TRUE), p + 2) ELSE ParseError
        ELSE IF \/ ~(IsName(name) \/ (close = Sym("}") /\ Readable(name)))
                \/ Tok(c, p + 1) # Sym(":") \/ r.is # "type"
        THEN ParseError
        ELSE NextField(c, r.at, Append(names, Named(name)), Append(types, r.tp), close)

ParseStruct(c, p) ==
    IF Tok(c, p) # Sym("{") THEN Nothing
    ELSE IF Tok(c, p + 1) = Sym("}") THEN Parsed(StructOf(<< >>, << >>, FALSE), p + 2)
    ELSE ParseFields(c, p + 1, << >>, << >>, Sym("}"))

\* Keywords k have been read; without an arrow they are forgotten.
ParseKeywords(c, k, types, variadic) ==
    IF k.is # "type" THEN ParseError
    ELSE IF Tok(c, k.at) # Sym("->") THEN Parsed(FieldsOf(types, FALSE), k.at)
    ELSE Made(Element(c, k.at + 1), LAMBDA ret : Func(FieldsOf(types, variadic), k.tp, ret))

\* Mutant: a variadic function takes no keywords.
ParseArrowPlain(c, p, tuple) ==
    IF Tok(c, p) # Sym("->") THEN Parsed(tuple, p)
    ELSE Made(Element(c, p + 1), LAMBDA ret : Func(tuple, StructOf(<< >>, << >>, FALSE), ret))

\* A variadic function takes any keywords.
ParseArrow(c, p, tuple) ==
    IF Tok(c, p) # Sym("->") THEN Parsed(tuple, p)
    ELSE Made(Element(c, p + 1), LAMBDA ret : Func(tuple, StructOf(<< >>, << >>, tuple.variadic), ret))

\* Looking ahead for "name :" and "... , name :", then for "... )"
RECURSIVE ParseItems(_, _, _)
NextItem(c, p, types) ==
    CASE Tok(c, p) = Sym(")")                 -> ParseArrow(c, p + 1, FieldsOf(types, FALSE))
      [] Follows(c, p, <<Sym(","), Sym(")")>>) -> ParseArrow(c, p + 2, FieldsOf(types, FALSE))
      [] Tok(c, p) = Sym(",") /\ Tok(c, p + 1) # Sym(")") -> ParseItems(c, p + 1, types)
      [] Tok(c, p) \notin {Sym(","), Sym(")")} -> ParseError

ParseItems(c, p, types) ==
    LET dots == Follows(c, p, <<Sym("..."), Sym(",")>>)
        kwds == IF dots THEN p + 2 ELSE p
        r    == ParseDatashape(c, p)
    IN  IF IsName(Tok(c, kwds)) /\ Tok(c, kwds + 1) = Sym(":")
        THEN ParseKeywords(c, ParseFields(c, kwds, << >>, << >>, Sym(")")), types, dots)
        ELSE IF Follows(c, p, <<Sym("..."), Sym(")")>>) THEN ParseArrow(c, p + 2, FieldsOf(types, TRUE))
        ELSE IF r.is = "type" THEN NextItem(c, r.at, Append(types, r.tp))
        ELSE ParseError

ParseTupleOrFunc(c, p) ==
    IF Tok(c, p) # Sym("(") THEN Nothing
    ELSE IF Tok(c, p + 1) = Sym(")") THEN ParseArrow(c, p + 2, FieldsOf(<< >>, FALSE))
    ELSE ParseItems(c, p + 1, << >>)

ParseStructOrTuple(c, p) ==
    IF Tok(c, p) = Sym("{") THEN ParseStruct(c, p) ELSE ParseTupleOrFunc(c, p)

(* dimensions *)
NotADim == << >>
ToDim(tok) == CASE tok[1] = "number"     -> <<"fixed", tok[2]>>
                [] tok = Lower("var")    -> <<"var">>
                [] tok = Upper("Fixed")  -> <<"Fixed">>
                [] tok[1] = "upper" /\ tok[2] # "Fixed" -> <<"typevar", tok[2]>>
                [] OTHER                 -> NotADim

Repeated(dim, n, t) == FoldLeft(LAMBDA of, i : DimOver(dim, of), t, [i \in 1..n |-> i])

\* base ** exponent * type. A variable as exponent without the asterisk is
\* forgotten together with its base.
ParsePower(c, p) ==
    LET dim      == ToDim(Tok(c, p))
        exponent == Tok(c, p + 2)
        times    == Tok(c, p + 3) = Sym("*")
    IN  CASE exponent[1] = "number" /\ exponent # Num(0) ->
               IF times /\ dim # NotADim
               THEN Made(Element(c, p + 4), LAMBDA t : Repeated(dim, exponent[2], t)) ELSE ParseError
          [] exponent[1] = "upper" ->
               IF ~times THEN ParseStructOrTuple(c, p + 3)
               ELSE IF dim = NotADim THEN ParseError
               ELSE Made(Element(c, p + 4), LAMBDA t : PowOver(dim, exponent[2], t))
          [] OTHER -> ParseError

(* names *)
BuiltinNames ==
    [n \in PlainNames |-> Plain(n)]
    @@ [int |-> Plain("int32"), intptr |-> Plain("int64"), uintptr |-> Plain("uint64"),
        real |-> Plain("float64"), complex64 |-> ComplexOf("float32"),
        complex128 |-> ComplexOf("float64"), complex |-> ComplexOf("float64"),
        time |-> Zoned("time", "abstract"), datetime |-> Zoned("datetime", "abstract"),
        bytes |-> BytesOf(1)]

ParseNamed(c, p) ==
    LET name == Tok(c, p)
        word == name[2]
        q    == p + 1
    IN  CASE name = Lower("string")       -> ParseCoded(c, q, "string", "utf8")
          [] name = Lower("char")         -> ParseCoded(c, q, "char", "utf32")
          [] name = Lower("fixed_string") -> ParseFixedString(c, q)
          [] name = Lower("bytes")        -> ParseBytes(c, q)
          [] name = Lower("fixed_bytes")  -> ParseFixedBytes(c, q)
          [] name \in {Lower("time"), Lower("datetime")} -> ParseZoned(c, q, word)
          [] name = Lower("complex")      -> ParseComplex(c, q)
          [] name = Lower("fixed")        -> ParseFixed(c, q)
          [] name = Lower("adapt")        -> ParseAdapt(c, q)
          [] name = Lower("unaligned")    -> Made(Argument(c, q), MakeUnaligned)
          [] name = Lower("pointer")      -> Made(Argument(c, q), MakePointer)
          [] name = Lower("byteswap")     -> Made(Argument(c, q), MakeByteswap)
          [] name = Lower("option")       -> Made(Argument(c, q), MakeOption)
          [] name = Upper("C")            -> Made(Argument(c, q), MakeC)
          [] name[1] = "upper" /\ word \in KindNames -> Parsed(Plain(word), q)
          [] name[1] = "upper" /\ word \notin KindNames \cup {"C"} ->
                 IF Tok(c, q) # Sym("[") THEN Parsed(Var(word), q)
                 ELSE Made(Argument(c, q), LAMBDA t : VarOver(word, t))
          [] name[1] = "lower" /\ word \in DOMAIN BuiltinNames -> Parsed(BuiltinNames[word], q)
          [] name[1] = "lower" /\ word \in DOMAIN c.names      -> Parsed(c.names[word], q)
          [] OTHER -> ParseError

ParseNoOption(c, p) ==
    LET first == Tok(c, p)
        sign  == Tok(c, p + 1)
        dim   == ToDim(first)
        r     == ParseDatashape(c, p + 2)
    IN  IF IsName(first) \/ first[1] = "number"
        THEN CASE sign = Sym("**") -> ParsePower(c, p)
               [] sign = Sym("*")  -> IF dim = NotADim THEN ParseError
                                      ELSE Made(Element(c, p + 2), LAMBDA t : DimOver(dim, t))
               [] sign = Sym("...") -> IF first[1] # "upper" \/ Tok(c, p + 2) # Sym("*") THEN ParseError
                                       ELSE Made(Element(c, p + 3), LAMBDA t : DotsOver(first[2], t))
               [] sign = Sym("|")  -> IF r.is = "nothing" THEN Parsed(Plain("type"), p + 2)
                                      ELSE Made(Element(c, p + 2), LAMBDA t : Over("type", t))
               [] OTHER            -> ParseNamed(c, p)
        ELSE IF first = Sym("...")
        THEN IF sign # Sym("*") THEN ParseError ELSE Made(Element(c, p + 2), LAMBDA t : DotsOver("", t))
        ELSE ParseStructOrTuple(c, p)

FindDatashape(c, p) ==
    LET r == IF Tok(c, p + 1) = Sym("?") THEN Nothing ELSE ParseDatashape(c, p + 1)
    IN  IF Tok(c, p) # Sym("?") THEN ParseNoOption(c, p)
        ELSE IF r.is = "type" THEN Built(MakeOption(r.tp), r.at) ELSE r

\* From the last place to the first
Finding(tokens, names) ==
    FoldRight(LAMBDA p, c : [c EXCEPT !.found = (p :> FindDatashape(c, p)) @@ @],
              [i \in DOMAIN tokens |-> i],
              [tokens |-> tokens, names |-> names, found |-> << >>])

\* "type name = datashape" names a type, once and none of the builtin ones.
ParseStmt(c, p) ==
    LET name  == Tok(c, p + 1)
        word  == name[2]
        r     == ParseDatashape(c, p + 3)
        named(t) == Finding(c.tokens, (word :> t) @@ c.names)
    IN  CASE Tok(c, p) # Lower("type") -> <<ParseDatashape(c, p), c>>
          [] name = Sym("end")         -> <<Parsed(Plain("type"), p + 1), c>>
          [] name = Sym("|")           -> <<Made(Element(c, p + 2), LAMBDA t : Over("type", t)), c>>
          [] IsName(name) /\ Tok(c, p + 2) = Sym("=") /\ r.is = "type"
                 /\ word \notin DOMAIN BuiltinNames \cup DOMAIN c.names -> <<r, named(r.tp)>>
          [] OTHER                     -> <<ParseError, c>>

\* The last statement gives the type.
RECURSIVE ParseTop(_, _, _)
NextStmt(stmt, p, last) ==
    LET r == stmt[1]
        c == stmt[2]
    IN  CASE r.is = "type"    -> ParseTop(c, r.at, r)
          [] r.is = "error"   -> ParseError
          [] r.is = "nothing" -> IF p > Len(c.tokens) THEN last ELSE ParseError

ParseTop(c, p, last) == NextStmt(ParseStmt(c, p), p, last)

TypeFromDatashape(tokens) == ParseTop(Finding(tokens, << >>), 1, ParseError)

(* ---- calls ---------------------------------------------------------------*)
\* Other ways to write a type: a name for it, the defaults written out, option
\* and fixed for ? and a size, a power for dimensions that repeat, a comma too many
Defaults(t) ==
    CASE t.is = "plain" /\ t.name = "int32" -> {<<Lower("int")>>}
      [] t.is = "complex" -> {<<Lower(IF t.name = "float32" THEN "complex64" ELSE "complex")>>}
      [] t.is \in {"string", "char"} /\ t.enc # "latin1" ->
             {<<Lower(t.is)>> \o Bracketed(<<Quoted(<<s>>)>>) : s \in EncodingNames[t.enc]}
      [] t.is = "fixed_string" ->
             {<<Lower(t.is)>> \o Bracketed(<<Num(t.size), Sym(","), Quoted(<<s>>)>>) :
                  s \in EncodingNames[t.enc]}
      [] t.is = "bytes" ->
             {<<Lower(t.is)>> \o Bracketed(<<Lower("align"), Sym("="), Num(t.align)>>)}
      [] t.is = "fixed_bytes" ->
             {<<Lower(t.is)>> \o Bracketed(<<Num(t.size), Sym(","), Lower("align"), Sym("="), Num(t.align)>>)}
      [] t.is \in {"time", "datetime"} ->
             {<<Lower(t.is)>> \o Bracketed(<<Lower("tz"), Sym("="), Quoted(<<t.tz>>)>>)}
      [] OTHER -> {}

LongForms(t) ==
    CASE t.is = "option" -> {<<Lower("option")>> \o Bracketed(PrintType(t.of))}
      [] t.is = "dim"    ->
             (IF t.dim[1] # "fixed" THEN {}
              ELSE {<<Lower("fixed")>> \o Bracketed(<<DimToken(t.dim)>>) \o <<Sym("*")>> \o PrintType(t.of)})
             \cup (IF t.of.is = "dim" /\ t.of.dim = t.dim
                   THEN {<<DimToken(t.dim), Sym("**"), Num(2), Sym("*")>> \o PrintType(t.of.of)} ELSE {})
      [] t.is \in {"tuple", "struct"} /\ ~t.variadic /\ t.types # << >> ->
             LET toks == PrintType(t) IN {Front(toks) \o <<Sym(","), Last(toks)>>}
      [] OTHER -> {}

NamedForm(t) == <<Lower("type"), Lower("a"), Sym("=")>> \o PrintType(t) \o <<Lower("a")>>

DatashapeCall ==
    \E t \in WrittenTypes :
    \E toks \in {PrintType(t), NamedForm(t)} \cup Defaults(t) \cup LongForms(t) :
        call = [op |-> "datashape", type |-> t, tokens |-> toks]

ParseType == /\ Asked /\ call.op = "datashape"
             /\ outcome' = <<TypeFromDatashape(call.tokens)>>

(* ---- properties ----------------------------------------------------------*)
\* The types that have no datashape: what is printed for them is refused, or is
\* the datashape of another type.
IsWide(text) == \E i \in DOMAIN text : text[i] \in Wide

NoDatashape(t) ==
    \/ t.is \in {"view", "byteswap over"}
    \/ t.is = "char" /\ t.enc = "latin1"
    \/ t.is \in {"typevar", "typevar_constructed"} /\ t.name \in KindNames \cup {"C"}
    \/ t.is \in {"dim", "power"} /\ t.dim = <<"typevar", "Fixed">>
    \/ t.is \in {"tuple", "struct"} /\ t.variadic /\ t.types = << >>
    \/ t.is = "struct" /\ \E i \in DOMAIN t.names : ~IsName(t.names[i]) /\ IsWide(t.names[i][2])
    \/ t.is = "func" /\ IF t.kwd.types = << >> THEN t.kwd.variadic # t.pos.variadic
                         ELSE \/ t.kwd.variadic
                              \/ t.pos.variadic /\ t.pos.types = << >>
                              \/ \E i \in DOMAIN t.kwd.names : ~IsName(t.kwd.names[i])

RECURSIVE Within(_)
Within(t) ==
    {t} \cup UNION {Within(u) :
        u \in CASE t.is \in Simple -> {}
               [] t.is \in {"tuple", "struct"} -> Range(t.types)
               [] t.is = "func"  -> Range(t.pos.types) \cup Range(t.kwd.types) \cup {t.ret}
               [] t.is = "adapt" -> {t.operand, t.value}
               [] t.is \in {"view", "byteswap over"} -> {t.of, t.operand}
               [] OTHER -> {t.of}}

\* A type and its datashape say the same: what is printed for a type, and what a
\* user may write for it, is read as that very type, whatever it is made of,
\* except where a part of it has no datashape. ("Roundtripping through a string",
\* tests/types/test_tuple_type.cpp:38; print_type of the types)
DatashapesRoundtrip ==
    Answered({"datashape"}) =>
        LET same == Answer.is = "type" /\ Answer.tp = call.type
        IN  same <=> \A t \in Within(call.type) : ~NoDatashape(t)
=============================================================================
