-------------------------- MODULE StringConversion --------------------------
(* Assigning strings between fixed-size and blockref strings of all          *)
(* encodings, and strings as UTF-8.                                          *)
EXTENDS StringEncodings, Calls

CONSTANTS Characters,    \* the units of code points by encoding, << >> for none
          Malformed,     \* units that stand for no code point, by encoding
          Texts          \* sequences of code points

Kernels == {"fixed_to_fixed", "fixed_to_block", "block_to_block", "block_to_fixed", "as_utf8"}

FixedSource      == {"fixed_to_fixed", "fixed_to_block"}
FixedDestination == {"fixed_to_fixed", "block_to_fixed"}

FromFixed(c) == c.kernel \in FixedSource
ToFixed(c)   == c.kernel \in FixedDestination

(* ---- the loops over the code points of the source ------------------------*)
NeverStops == [is |-> "endless"]
Thrown     == [is |-> "thrown"]
Assigned(units, room) == [is |-> "assigned", units |-> units, room |-> room]

\* What is left of a fixed-size string is zero
Padded(units, size) == units \o Zeros(size - Len(units))

\* The memory of a blockref string in bytes, which doubles where less than eight
\* are left (a std::string grows in its own way)
FirstRoom(c) == ((Len(c.source) + 16) * CharSize(c.to) * 1124) \div 1024
RoomFor(c, units, room) ==
    IF ToFixed(c) \/ room - Len(units) * CharSize(c.to) >= 8 THEN room ELSE 2 * room

\* A fixed-size source ends at the first zero
EndsAt(c, cp) == FromFixed(c) /\ cp = 0

\* The source is used up, or what is left does not fit a fixed-size destination
Finish(c, p, units, room) ==
    IF ~ToFixed(c) THEN Assigned(units, room)
    ELSE IF p <= Len(c.source)
    THEN IF c.check THEN Thrown ELSE Assigned(units, room)
    ELSE Assigned(Padded(units, c.size), room)

RECURSIVE Converted(_, _, _, _)
Converted(c, p, units, room) ==
    IF p > Len(c.source) \/ (ToFixed(c) /\ Len(units) >= c.size) THEN Finish(c, p, units, room)
    ELSE LET read == NextCodePoint(c.from, c.check, c.source, p, c.beyond) IN
    IF read.error THEN Thrown
    ELSE IF EndsAt(c, read.cp)
    THEN Assigned(IF ToFixed(c) THEN Padded(units, c.size) ELSE units, room)
    ELSE IF read.at = p /\ ~ToFixed(c) THEN NeverStops
    ELSE LET more == RoomFor(c, units, room)
             put  == AppendCodePoint(c.to, c.check, read.cp, more \div CharSize(c.to) - Len(units))
         IN  IF put.error THEN Thrown ELSE Converted(c, read.at, units \o put.units, more)

\* With the same memory block only the encoding may not change
Convert(c) ==
    IF c.kernel = "as_utf8" /\ c.from \in {"ascii", "utf8"} THEN Assigned(c.source, Len(c.source))
    ELSE IF c.shared THEN IF c.from = c.to THEN Assigned(c.source, Len(c.source) * CharSize(c.to))
                          ELSE Thrown
    ELSE Converted(c, 1, << >>, IF ToFixed(c) THEN c.size * CharSize(c.to) ELSE FirstRoom(c))

(* ---- calls ---------------------------------------------------------------*)
Encoded(text, enc) == FlattenSeq([i \in DOMAIN text |-> Characters[text[i]][enc]])

Written(enc) == {t \in Texts : \A i \in DOMAIN t : Characters[t[i]][enc] # << >>}

StringCall ==
    \E kernel \in Kernels, from, to \in Encodings, check, shared \in BOOLEAN, beyond \in {0, 56320} :
    \E text \in Written(from), bad \in Malformed[from] \cup {<< >>} :
    \E size \in 1..5, pad \in 0..1 :
        /\ kernel \in FixedDestination \/ size = 1
        /\ IF kernel \in FixedSource THEN text \o bad # << >> ELSE pad = 0
        /\ kernel = "as_utf8" => to = "utf8"
        /\ shared => kernel = "block_to_block"
        /\ bad = << >> \/ Len(text) <= 1
        /\ beyond = 0 \/ (from = "utf16" /\ bad # << >>)
        /\ call = [op |-> "string", kernel |-> kernel, from |-> from, to |-> to, check |-> check,
                   shared |-> shared, beyond |-> beyond, text |-> text, bad |-> bad, size |-> size,
                   pad |-> pad, source |-> Encoded(text, from) \o bad \o Zeros(pad)]

ConvertString == /\ Asked /\ call.op = "string"
                 /\ outcome' = <<Convert(call)>>

(* ---- properties ----------------------------------------------------------*)
\* The code points to convert: those of a fixed-size string before a zero
Meant(c) == IF FromFixed(c) THEN LET zeros == {i \in DOMAIN c.text : c.text[i] = 0}
                                 IN  SubSeq(c.text, 1, Min(zeros \cup {Len(c.text) + 1}) - 1)
            ELSE c.text

\* An unchecked function puts a question mark for a character there is none for
Unit(cp, enc) == IF Characters[cp][enc] # << >> THEN Characters[cp][enc] ELSE <<QuestionMark>>

\* The longest part of the text whose units fit in size
Fitting(text, enc, size) ==
    LET units(n) == FlattenSeq([i \in 1..n |-> Unit(text[i], enc)])
    IN  units(Max({n \in 0..Len(text) : Len(units(n)) <= size}))

\* A checked conversion gives exactly the characters of the source, or throws
\* where the source is malformed, a character has no form in the destination or
\* does not fit. An unchecked one puts question marks, gives as many whole
\* characters as fit, and is right up to what is malformed. No unit is put behind
\* the memory of the destination. A fixed-size string that fills another one
\* exactly is refused for the zeros that follow it. (string_assignment_kernels.cpp)
StringsConverted ==
    Answered({"string"}) /\ ~call.shared =>
        LET c       == call
            text    == Meant(c)
            cut     == Len(text) < Len(c.text)
            wrong   == c.bad # << >> /\ ~cut
            want    == FlattenSeq([i \in DOMAIN text |-> Unit(text[i], c.to)])
            exists  == \A i \in DOMAIN text : Characters[text[i]][c.to] # << >>
            fits    == ToFixed(c) => Len(want) <= c.size
            refused == FromFixed(c) /\ ToFixed(c) /\ Len(want) = c.size /\ (cut \/ c.pad > 0)
            filled(units) == IF ToFixed(c) THEN Padded(units, c.size) ELSE units
            limit   == IF ToFixed(c) THEN c.size ELSE Len(want)
            copied  == c.kernel = "as_utf8" /\ c.from \in {"ascii", "utf8"}
        IN  /\ Answer.is = "assigned" => Len(Answer.units) * CharSize(c.to) <= Answer.room
            /\ c.check /\ ~copied =>
                   /\ (Answer.is = "assigned") <=> (~wrong /\ exists /\ fits /\ ~refused)
                   /\ Answer.is = "assigned" => Answer.units = filled(want)
            /\ ~c.check /\ ~wrong => Answer.is = "assigned"
                                  /\ Answer.units = filled(Fitting(text, c.to, limit))
            /\ ~c.check /\ wrong /\ Answer.is = "assigned" =>
                   IsPrefix(Fitting(text, c.to, limit), Answer.units)
            /\ Answer.is = "endless" => wrong /\ c.from = "utf8" /\ ~c.check
=============================================================================
