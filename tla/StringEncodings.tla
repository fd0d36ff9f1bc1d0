-------------------------- MODULE StringEncodings --------------------------
(* Decoding and encoding one code point, in the checked functions and in the *)
(* ones that put a question mark for what is wrong, noerror_next and append. *)
(* A string is the sequence of its code units.                              *)
EXTENDS Integers, Sequences, FiniteSets, SequencesExt

Encodings == {"ascii", "ucs2", "utf8", "utf16", "utf32"}

CharSize(enc) == CASE enc \in {"ascii", "utf8"}  -> 1
                   [] enc \in {"ucs2", "utf16"} -> 2
                   [] enc = "utf32"              -> 4

QuestionMark == 63

LeadSurrogate(c)  == c \in 55296..56319
TrailSurrogate(c) == c \in 56320..57343
Surrogate(c)      == c \in 55296..57343
ValidCodePoint(c) == c <= 1114111 /\ ~Surrogate(c)

(* ---- next_*: the code point at position p, and the position after it -----*)
CodingError      == [error |-> TRUE]
Read(cp, at) == [error |-> FALSE, cp |-> cp, at |-> at]
Wrong(check, at) == IF check THEN CodingError ELSE Read(QuestionMark, at)

NextAscii(check, s, p) == IF s[p] < 128 THEN Read(s[p], p + 1) ELSE Wrong(check, p + 1)
NextUcs2(check, s, p)  == IF Surrogate(s[p]) THEN Wrong(check, p + 1) ELSE Read(s[p], p + 1)
NextUtf32(check, s, p) == IF ValidCodePoint(s[p]) THEN Read(s[p], p + 1) ELSE Wrong(check, p + 1)

SequenceLength(octet) == CASE octet < 128       -> 1
                           [] octet \div 32 = 6  -> 2
                           [] octet \div 16 = 14 -> 3
                           [] octet \div 8 = 30  -> 4
                           [] OTHER              -> 0
IsTrail(octet) == octet \div 64 = 2

LeadBits(octet, n) == IF n = 1 THEN octet ELSE octet % (CASE n = 2 -> 32 [] n = 3 -> 16 [] n = 4 -> 8)

IsOverlong(cp, n) == (cp < 128 /\ n # 1) \/ (cp \in 128..2047 /\ n # 2) \/ (cp \in 2048..65535 /\ n # 3)

\* After an error noerror_next_utf8 goes on where it found it: at an octet that
\* is no lead octet it stays.
NextUtf8(check, s, p) ==
    LET n    == SequenceLength(s[p])
        k    == Cardinality({i \in 1..n - 1 : \A j \in 1..i : p + j <= Len(s) /\ IsTrail(s[p + j])})
        full == n > 0 /\ k = n - 1
        cp   == FoldLeft(LAMBDA c, o : c * 64 + (o % 64), LeadBits(s[p], n), SubSeq(s, p + 1, p + k))
    IN  IF full /\ ValidCodePoint(cp) /\ ~IsOverlong(cp, n) THEN Read(cp, p + n)
        ELSE Wrong(check, IF n = 0 THEN p ELSE IF full THEN p + n - 1 ELSE p + k + 1)

\* Unchecked, a lead surrogate at the end takes the unit beyond it.
NextUtf16(check, s, p, beyond) ==
    LET trail == IF p < Len(s) THEN s[p + 1] ELSE beyond
    IN  IF TrailSurrogate(s[p]) THEN Wrong(check, p + 1)
        ELSE IF ~LeadSurrogate(s[p]) THEN Read(s[p], p + 1)
        ELSE IF TrailSurrogate(trail) /\ ~(check /\ p = Len(s))
        THEN Read(s[p] * 1024 + trail + 65536 - 55296 * 1024 - 56320, p + 2)
        ELSE Wrong(check, p + 2)

NextCodePoint(enc, check, s, p, beyond) ==
    CASE enc = "ascii" -> NextAscii(check, s, p)
      [] enc = "ucs2"  -> NextUcs2(check, s, p)
      [] enc = "utf8"  -> NextUtf8(check, s, p)
      [] enc = "utf16" -> NextUtf16(check, s, p, beyond)
      [] enc = "utf32" -> NextUtf32(check, s, p)

(* ---- append_*: the units for a code point, with room for so many ---------*)
Put(units) == [error |-> FALSE, units |-> units]
Zeros(n)   == [i \in 1..n |-> 0]

\* A single unit, or a question mark in its place; that there is room is known
AppendUnit(fits, check, cp) ==
    IF fits THEN Put(<<cp>>) ELSE IF check THEN CodingError ELSE Put(<<QuestionMark>>)

Utf8Octets(cp) ==
    IF cp < 128 THEN <<cp>>
    ELSE IF cp < 2048 THEN <<192 + cp \div 64, 128 + (cp % 64)>>
    ELSE IF cp < 65536 THEN <<224 + cp \div 4096, 128 + ((cp \div 64) % 64), 128 + (cp % 64)>>
    ELSE <<240 + cp \div 262144, 128 + ((cp \div 4096) % 64), 128 + ((cp \div 64) % 64), 128 + (cp % 64)>>

\* What does not fit is refused, or ends the string with zeros.
AppendUtf8(check, cp, room) ==
    LET units == Utf8Octets(cp)
    IN  IF ~ValidCodePoint(cp) THEN CodingError
        ELSE IF Len(units) <= room THEN Put(units)
        ELSE IF check THEN CodingError ELSE Put(Zeros(room))

\* Mutant: the second unit of a pair may be put behind the end.
AppendUtf16Behind(check, cp, room) ==
    IF cp <= 65535 THEN Put(<<cp>>) ELSE Put(<<55232 + cp \div 1024, 56320 + (cp % 1024)>>)

AppendUtf16(check, cp, room) ==
    IF cp <= 65535 THEN Put(<<cp>>)
    ELSE IF room >= 2 THEN Put(<<55232 + cp \div 1024, 56320 + (cp % 1024)>>)
    ELSE IF check THEN CodingError ELSE Put(Zeros(room))

AppendCodePoint(enc, check, cp, room) ==
    CASE enc = "ascii" -> AppendUnit(cp < 128, check, cp)
      [] enc = "ucs2"  -> AppendUnit(cp <= 65535 /\ ~Surrogate(cp), check, cp)
      [] enc = "utf8"  -> AppendUtf8(check, cp, room)
      [] enc = "utf16" -> AppendUtf16(check, cp, room)
      [] enc = "utf32" -> Put(<<cp>>)
=============================================================================
