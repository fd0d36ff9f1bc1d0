----------------------------- MODULE DateTexts -----------------------------
(* Dates, times and datetimes as they are written, and the parsers that read *)
(* them. A text is a sequence of digits, signs, blanks and words; the case   *)
(* of the words does not matter and is left out.                             *)
EXTENDS Calendar

CONSTANTS
    ThisYear,       \* when the texts are read
    Unset,          \* what a variable that was never set may hold
    WrittenDates, WrittenTimes, Environments

(* ---- characters and words ------------------------------------------------*)
Digits     == <<"0", "1", "2", "3", "4", "5", "6", "7", "8", "9">>
DigitValue == [ch \in Range(Digits) |-> (CHOOSE i \in 1..10 : Digits[i] = ch) - 1]

MonthWords == <<{"jan", "january"}, {"feb", "february"}, {"mar", "march"}, {"apr", "april"}, {"may"},
                {"jun", "june"}, {"jul", "july"}, {"aug", "august"}, {"sep", "sept", "september"},
                {"oct", "october"}, {"nov", "november"}, {"dec", "december"}>>
MonthShort == {"jan", "feb", "mar", "apr", "jun", "jul", "aug", "sep", "sept", "oct", "nov", "dec"}
DayWords   == <<{"mon", "monday"}, {"tue", "tuesday"}, {"wed", "wednesday"}, {"thu", "thursday"},
                {"fri", "friday"}, {"sat", "saturday"}, {"sun", "sunday"}>>
Words      == UNION Range(MonthWords) \cup UNION Range(DayWords)
              \cup {"T", "Z", "GMT", "UTC", "am", "pm"}

Ch(text, at)         == IF at <= Len(text) THEN text[at] ELSE "end"
IsDigit(text, at)    == Ch(text, at) \in DOMAIN DigitValue
AreDigits(text, at, n)   == \A i \in 0..n - 1 : IsDigit(text, at + i)
NumberAt(text, at, n)    == FoldLeft(LAMBDA v, i : 10 * v + DigitValue[text[at + i - 1]], 0,
                                     [i \in 1..n |-> i])
HasAt(text, at, part)    == \A i \in DOMAIN part : Ch(text, at + i - 1) = part[i]

\* The first place from at on that is none of these characters
Behind(text, at, chars) ==
    CHOOSE p \in at..Len(text) + 1 :
        (p > Len(text) \/ text[p] \notin chars) /\ \A q \in at..p - 1 : text[q] \in chars
SkipBlanks(text, at) == IF at > Len(text) THEN at ELSE Behind(text, at, {" "})
SkipComma(text, at)  ==
    LET p == SkipBlanks(text, at) IN IF Ch(text, p) = "," THEN SkipBlanks(text, p + 1) ELSE p

\* A word ends where no other follows it.
IsWord(text, at, words) == Ch(text, at) \in words /\ Ch(text, at + 1) \notin Words
IndexOf(words, w)       == CHOOSE i \in DOMAIN words : w \in words[i]

(* ---- years of two digits -------------------------------------------------*)
\* Mutant: the window begins a year late.
FixedWindowBehind(yy, start) ==
    LET century == Quot(start, 100) * 100
    IN  IF yy > start - century THEN century + yy ELSE century + 100 + yy

FixedWindow(yy, start) ==
    LET century == Quot(start, 100) * 100
    IN  IF yy >= start - century THEN century + yy ELSE century + 100 + yy

\* A century window of 1 to 99 slides, one of 1000 or more is fixed, and 0 leaves
\* two digits unread.
ResolveYear(yy, window) == FixedWindow(yy, IF window <= 99 THEN ThisYear - window ELSE window)

(* ---- formats -------------------------------------------------------------*)
\* A parser reads a sequence of items, one after the other.
Start(at) == [ok |-> TRUE, at |-> at, year |-> 0, month |-> 0, day |-> 0, weekday |-> 0,
              hour |-> 0, minute |-> 0, second |-> 0, tick |-> 0]
Fail(st)                  == [st EXCEPT !.ok = FALSE]
Got(st, n, field, value)  == [st EXCEPT !.at = @ + n, ![field] = value]
Moved(st, at)             == [st EXCEPT !.at = at]

ReadDigits(text, st, n, field) ==
    IF AreDigits(text, st.at, n) THEN Got(st, n, field, NumberAt(text, st.at, n)) ELSE Fail(st)
ReadOneOrTwo(text, st, field) == ReadDigits(text, st, IF AreDigits(text, st.at, 2) THEN 2 ELSE 1, field)

\* Four digits or, where the order of the fields is known, two
ReadYear(text, env, st, orders) ==
    IF AreDigits(text, st.at, 4) \/ env.window = 0 \/ env.order \notin orders
    THEN ReadDigits(text, st, 4, "year")
    ELSE IF AreDigits(text, st.at, 2)
    THEN Got(st, 2, "year", ResolveYear(NumberAt(text, st.at, 2), env.window))
    ELSE Fail(st)

ReadSignedYear(text, st) ==
    IF Ch(text, st.at) \notin {"+", "-"} THEN ReadDigits(text, st, 4, "year")
    ELSE IF ~AreDigits(text, st.at + 1, 6) THEN Fail(st)
    ELSE Got(st, 7, "year", LET y == NumberAt(text, st.at + 1, 6)
                            IN  IF Ch(text, st.at) = "-" THEN -y ELSE y)

ReadMonthWord(text, st) ==
    IF IsWord(text, st.at, UNION Range(MonthWords))
    THEN Got(st, 1, "month", IndexOf(MonthWords, text[st.at])) ELSE Fail(st)

\* The digits of a second behind those of a tick are left out.
ReadTick(text, st) ==
    LET n == Behind(text, st.at, DOMAIN DigitValue) - st.at
        d(i) == IF i <= n THEN DigitValue[text[st.at + i - 1]] ELSE 0
    IN  IF ~IsDigit(text, st.at) THEN Fail(st)
        ELSE Got(st, n, "tick", FoldLeft(LAMBDA v, i : 10 * v + d(i), 0, [i \in 1..TickDigits |-> i]))

AllOrders == {"none", "ymd", "mdy", "dmy"}

ReadItem(text, env, st, item) ==
    CASE item = "year"        -> ReadDigits(text, st, 4, "year")
      [] item = "signed year" -> ReadSignedYear(text, st)
      [] item = "first year"  -> ReadYear(text, env, st, {"ymd"})
      [] item = "word's year" -> ReadYear(text, env, st, {"dmy", "mdy"})
      [] item = "last year"   -> ReadYear(text, env, st, AllOrders)
      [] item \in {"month", "day", "hour"} -> ReadOneOrTwo(text, st, item)
      [] item = "month word"  -> ReadMonthWord(text, st)
      [] item = "any month"   -> IF IsDigit(text, st.at) THEN ReadOneOrTwo(text, st, "month")
                                 ELSE ReadMonthWord(text, st)
      [] item = "month word." -> LET m == ReadMonthWord(text, st)
                                 IN  IF m.ok /\ text[st.at] \in MonthShort /\ Ch(text, m.at) = "."
                                     THEN Moved(m, m.at + 1) ELSE m
      [] item = "mm"          -> ReadDigits(text, st, 2, "month")
      [] item = "dd"          -> ReadDigits(text, st, 2, "day")
      [] item = "hh"          -> ReadDigits(text, st, 2, "hour")
      [] item = "minute"      -> ReadDigits(text, st, 2, "minute")
      [] item = "second"      -> ReadDigits(text, st, 2, "second")
      [] item = "tick"        -> ReadTick(text, st)
      [] item = "weekday"     -> IF IsWord(text, st.at, UNION Range(DayWords))
                                 THEN Got(st, 1, "weekday", IndexOf(DayWords, text[st.at]) - 1)
                                 ELSE Fail(st)
      [] item = ". or :"      -> IF Ch(text, st.at) \in {".", ":"} THEN Moved(st, st.at + 1) ELSE Fail(st)
      [] item = "comma"       -> Moved(st, SkipComma(text, st.at))
      [] item = "blanks"      -> Moved(st, SkipBlanks(text, st.at))
      [] item = " "           -> IF Ch(text, st.at) = " " THEN Moved(st, SkipBlanks(text, st.at))
                                 ELSE Fail(st)
      [] item = "no digit"    -> IF IsDigit(text, st.at) THEN Fail(st) ELSE st
      [] OTHER                -> IF Ch(text, st.at) = item THEN Moved(st, st.at + 1) ELSE Fail(st)

ReadOn(text, env, st, items) ==
    FoldLeft(LAMBDA s, item : IF s.ok THEN ReadItem(text, env, s, item) ELSE s, st, items)

(* ---- dates ---------------------------------------------------------------*)
Iso      == <<"signed year", "-", "month", "-", "day", "no digit">>
NoDashes == <<"year", "mm", "dd", "no digit">>
YearFirst(sep)  == <<"first year", sep, "any month", sep, "day", "no digit">>
DayAndWord(sep) == <<"day", sep, "month word", sep, "word's year", "no digit">>
WordFirst       == <<"month word.", " ", "day", "comma", "last year", "no digit">>
MonthFirst(sep) == <<"month", sep, "day", sep, "last year", "no digit">>
DayFirst(sep)   == <<"day", sep, "month", sep, "last year", "no digit">>

Separators == <<"/", "-", ".">>

DateFormats(order) ==
    LET each(Format(_)) == [i \in DOMAIN Separators |-> Format(Separators[i])]
    IN  <<Iso, NoDashes>> \o each(YearFirst) \o each(DayAndWord) \o <<DayAndWord("blanks"), WordFirst>>
        \o (CASE order = "mdy" -> each(MonthFirst) [] order = "dmy" -> each(DayFirst) [] OTHER -> << >>)

DateOf(st) == Date(st.year, st.month, st.day)
TimeOf(st) == Time(st.hour, st.minute, st.second, st.tick)

\* The date is validated before its year is narrowed.
ValidDate(st) == IF st.ok /\ IsValidDate(st) THEN [st EXCEPT !.year = Int16(@)] ELSE Fail(st)
ValidTime(st) == IF st.ok /\ IsValidTime(TimeOf(st)) THEN st ELSE Fail(st)
OnWeekday(st) == IF st.ok /\ Weekday(ToDays(DateOf(st))) = st.weekday THEN st ELSE Fail(st)

ReadDate(text, env, st, format) == ValidDate(ReadOn(text, env, st, format))

\* The first format that fits, and the weekday before it, if any
ReadFormats(text, env, st) ==
    FoldLeft(LAMBDA d, format : IF d.ok THEN d ELSE ReadDate(text, env, st, format),
             Fail(st), DateFormats(env.order))

AfterWeekday(text, env, at, w) ==
    IF w.ok THEN OnWeekday(ReadFormats(text, env, ReadItem(text, env, w, "comma")))
    ELSE ReadFormats(text, env, Start(at))

ParseDate(text, env, at) == AfterWeekday(text, env, at, ReadItem(text, env, Start(at), "weekday"))

\* Midnight may follow a date, in any time zone.
SkipTimezone(text, at) ==
    LET p == SkipBlanks(text, at)
        q == p + 1
    IN  CASE Ch(text, p) \in {"Z", "GMT"}    -> q
          [] Ch(text, p) \notin {"Z", "GMT", "+", "-"} -> p
          [] AreDigits(text, q, 4)           -> q + 4
          [] AreDigits(text, q, 2) /\ ~AreDigits(text, q, 4) ->
                 IF Ch(text, q + 2) = ":" /\ AreDigits(text, q + 3, 2) THEN q + 5 ELSE q + 2
          [] OTHER                           -> q

SkipMidnight(text, at) ==
    LET parts == <<<<"0", "0">>, <<":", "0", "0">>, <<":", "0", "0">>, <<".", "0">>>>
        st    == FoldLeft(LAMBDA s, part : IF s.on /\ HasAt(text, s.at, part)
                                           THEN [on |-> TRUE, at |-> s.at + Len(part)]
                                           ELSE [s EXCEPT !.on = FALSE],
                          [on |-> TRUE, at |-> at], parts)
        p     == IF st.on /\ st.at <= Len(text) THEN Behind(text, st.at, {"0"}) ELSE st.at
    IN  IF p = at THEN at ELSE SkipTimezone(text, p)

DateOnly(text, env, d) ==
    LET p == IF Ch(text, d.at) = "T" THEN SkipMidnight(text, d.at + 1)
             ELSE IF Ch(text, d.at) = " " THEN SkipMidnight(text, SkipBlanks(text, d.at))
             ELSE d.at
    IN  IF d.ok /\ (~env.check \/ SkipBlanks(text, p) > Len(text)) THEN DateOf(d) ELSE Invalid

StringToDate(text, env) == DateOnly(text, env, ParseDate(text, env, SkipBlanks(text, 1)))

(* ---- times ---------------------------------------------------------------*)
\* Twelve hours and a word for the half of the day; other hours are refused with it.
ReadHalf(text, st) ==
    LET p    == SkipBlanks(text, st.at)
        hour == IF Ch(text, p) = "am" THEN IF st.hour = 12 THEN 0 ELSE st.hour
                ELSE IF st.hour < 12 THEN st.hour + 12 ELSE st.hour
    IN  IF Ch(text, p) \notin {"am", "pm"} THEN st
        ELSE IF st.hour \in 1..12 THEN Got(st, p + 1 - st.at, "hour", hour)
        ELSE Fail(st)

\* Seconds, and then a part of a second, may follow the minutes.
ReadMore(text, env, st, item) ==
    IF st.ok /\ Ch(text, st.at) \in {".", ":"} THEN ReadOn(text, env, st, <<". or :", item>>) ELSE st
MoreSeconds(text, env, hm, hms) == IF hms.at = hm.at THEN hms ELSE ReadMore(text, env, hms, "tick")
ReadSeconds(text, env, hm)      == MoreSeconds(text, env, hm, ReadMore(text, env, hm, "second"))

ReadTime(text, env, st) ==
    LET untimed == [st EXCEPT !.second = 0, !.tick = 0]
    IN  ValidTime(ReadHalf(text, ReadSeconds(text, env,
            ReadOn(text, env, untimed, <<"hour", ". or :", "minute">>))))

\* A time zone is an offset, or a word that may go on with others.
Zone(name, at) == [zone |-> name, at |-> at]

ParseTimezone(text, at) ==
    LET p     == SkipBlanks(text, at)
        q     == p + 3
        r     == IF Ch(text, q) = ":" THEN q + 1 ELSE q
        after == Behind(text, p, Words \cup {"/"})
    IN  CASE Ch(text, p) \in {"+", "-"} ->
                 IF ~AreDigits(text, p + 1, 2) THEN Zone("", at)
                 ELSE IF r = q /\ ~IsDigit(text, q) THEN Zone("offset", q)
                 ELSE IF AreDigits(text, r, 2) /\ ~IsDigit(text, r + 2) THEN Zone("offset", r + 2)
                 ELSE Zone("", at)
          [] Ch(text, p) \in Words -> Zone(IF after = p + 1 THEN text[p] ELSE "other", after)
          [] OTHER                 -> Zone("", at)

WithZone(st, z)  == [st |-> [st EXCEPT !.at = z.at], zone |-> z.zone]
Unzoned(st)      == WithZone(st, Zone("", st.at))
BeforeZone(text, st) == WithZone(st, ParseTimezone(text, st.at))

TimeOnly(text, r) ==
    IF r.st.ok /\ SkipBlanks(text, r.st.at) > Len(text) THEN [time |-> TimeOf(r.st), zone |-> r.zone]
    ELSE Invalid

StringToTime(text) ==
    TimeOnly(text, BeforeZone(text, ReadTime(text, << >>, Start(SkipBlanks(text, 1)))))

(* ---- datetimes -----------------------------------------------------------*)
Untimed(st) == [st EXCEPT !.hour = 0, !.minute = 0, !.second = 0, !.tick = 0]

\* An ISO date is read again from the start, with only an hour behind it.
HourBehind(text, env, d) ==
    LET t == IF Ch(text, d.at) = "T" THEN Moved(d, d.at + 1) ELSE ReadItem(text, env, d, " ")
    IN  IF d.ok THEN ValidTime(ReadOn(text, env, t, <<"hh", "no digit">>)) ELSE d
ReadHourOnly(text, env, at) == HourBehind(text, env, ReadDate(text, env, Start(at), Iso))

\* T, a colon or blanks are between the date and the time.
SkipJoint(text, at) ==
    LET p == SkipBlanks(text, at)
    IN  IF Ch(text, p) = "T" THEN SkipBlanks(text, p + 1) ELSE IF Ch(text, at) = ":" THEN at + 1 ELSE p

TimeOrHour(text, env, at, t) == IF t.ok THEN BeforeZone(text, t) ELSE Unzoned(ReadHourOnly(text, env, at))

BehindDate(text, env, at, d, q) ==
    IF ~d.ok THEN Unzoned(d)
    ELSE IF q = SkipBlanks(text, d.at) /\ (q = d.at \/ q > Len(text)) THEN Unzoned(Moved(Untimed(d), q))
    ELSE TimeOrHour(text, env, at, ReadTime(text, env, Moved(d, q)))

DateAndTime(text, env, at, d)   == BehindDate(text, env, at, d, SkipJoint(text, d.at))
ReadDateAndTime(text, env, at)  == DateAndTime(text, env, at, ParseDate(text, env, at))

MonthAndDay(text, env, w) ==
    ReadOn(text, env, w, IF IsDigit(text, w.at) THEN <<"day", " ", "month word", " ">>
                         ELSE <<"month word", " ", "day", " ">>)
ReadPostgres(text, env, at) ==
    LET w == ReadOn(text, env, Start(at), <<"weekday", " ">>)
        t == ReadTime(text, env, MonthAndDay(text, env, w))
    IN  OnWeekday(ValidDate(ReadOn(text, env, t, <<" ", "year">>)))

\* Hour, minute and second of two digits each, as many as there are; the first
\* missing one is zero, and those behind it are not set.
PairsGiven(text, at) == CHOOSE n \in 0..3 : AreDigits(text, at, 2 * n)
                                            /\ (n < 3 => ~AreDigits(text, at, 2 * n + 2))
PairsBehind(text, d, given) ==
    LET p              == d.at + 2 * given
        part(n, unset) == IF n <= given THEN NumberAt(text, d.at + 2 * n - 2, 2)
                          ELSE IF n = given + 1 THEN 0 ELSE unset
        read(u, v)     == [d EXCEPT !.at = p, !.hour = part(1, 0), !.minute = part(2, u), !.second = part(3, v)]
        dotted(st)     == IF Ch(text, p) # "." THEN st
                          ELSE IF given = 3 /\ IsDigit(text, p + 1) THEN ReadTick(text, Moved(st, p + 1))
                          ELSE Moved(st, p + 1)
    IN  {ValidTime(dotted(read(u, v))) : u, v \in Unset}

NoDashTimes(text, d)        == PairsBehind(text, d, PairsGiven(text, d.at))
ReadNoDashes(text, env, at) ==
    NoDashTimes(text, ValidDate(ReadOn(text, env, Start(at), <<"year", "mm", "dd">>)))

\* The first of the three forms that fits
OrNoDashes(text, env, at, post) ==
    {Unzoned(st) : st \in IF post.ok THEN {post} ELSE ReadNoDashes(text, env, at)}
OrOthers(text, env, at, both) ==
    IF both.st.ok THEN {both} ELSE OrNoDashes(text, env, at, ReadPostgres(text, env, at))
ParseDatetime(text, env, at) == OrOthers(text, env, at, ReadDateAndTime(text, env, at))

StringToDatetime(text, env) ==
    {IF r.st.ok /\ (~env.check \/ SkipBlanks(text, r.st.at) > Len(text))
     THEN [date |-> DateOf(r.st), time |-> TimeOf(r.st), zone |-> r.zone]
     ELSE Invalid : r \in ParseDatetime(text, env, SkipBlanks(text, 1))}

(* ---- texts written -------------------------------------------------------*)
Dec(n, width) == [i \in 1..width |-> Digits[((n \div 10^(width - i)) % 10) + 1]]

DateText(d) ==
    IF ~IsValidDate(d) THEN << >>
    ELSE (IF d.year \in 1..9999 THEN Dec(d.year, 4)
          ELSE IF d.year >= 0 THEN <<"+">> \o Dec(d.year, 6) ELSE <<"-">> \o Dec(-d.year, 6))
         \o <<"-">> \o Dec(d.month, 2) \o <<"-">> \o Dec(d.day, 2)

\* As short as it can be, but for the minutes
TimeText(t) ==
    LET ticks == CHOOSE n \in 0..TickDigits : t.tick % 10^(TickDigits - n) = 0
                                              /\ (n > 0 => t.tick % (10 * 10^(TickDigits - n)) # 0)
    IN  IF ~IsValidTime(t) THEN << >>
        ELSE Dec(t.hour, 2) \o <<":">> \o Dec(t.minute, 2)
             \o (IF t.second = 0 /\ t.tick = 0 THEN << >> ELSE <<":">> \o Dec(t.second, 2))
             \o (IF t.tick = 0 THEN << >> ELSE <<".">> \o Dec(t.tick \div 10^(TickDigits - ticks), ticks))

(* ---- assignment ----------------------------------------------------------*)
\* The kernels know the text NA and always check; the types' own functions do
\* not, and only they look at the time zone.
NAText == <<"NA">>
OrNA(text) == IF text = << >> THEN NAText ELSE text

ZoneAccepted(tz, zone) == tz = "abstract" \/ zone \in {"", "Z", "UTC"}

AssignDate(text, env, via) ==
    LET d == StringToDate(text, IF via = "kernel" THEN [env EXCEPT !.check = TRUE] ELSE env)
    IN  IF via = "kernel" /\ text = NAText THEN DateNA ELSE d

AssignTime(text, tz, via) ==
    LET t == StringToTime(text)
    IN  IF via = "kernel" /\ text = NAText THEN TimeNA
        ELSE IF t # Invalid /\ (via = "kernel" \/ ZoneAccepted(tz, t.zone)) THEN t.time
        ELSE Invalid

\* The datetime as days and ticks of the day
AssignDatetime(text, env, tz, via) ==
    LET results == StringToDatetime(text, IF via = "kernel" THEN [env EXCEPT !.check = TRUE] ELSE env)
        instant(r) == [days |-> ToDays(r.date), ticks |-> ToTicks(r.time)]
    IN  IF via = "kernel" /\ text = NAText THEN {[days |-> NA]}
        ELSE {IF r # Invalid /\ (via = "kernel" \/ ZoneAccepted(tz, r.zone)) THEN instant(r)
              ELSE Invalid : r \in results}

(* ---- calls ---------------------------------------------------------------*)
\* What a user writes: the parts of a form, by what they leave to the reader.
DateWordings ==
    [full   |-> {<<"iso">>, <<"yyyy", "mm", "dd">>, <<"yyyy", "/", "mm", "/", "dd">>, <<"yyyy", "-", "Mon", "-", "dd">>,
                 <<"dd", ".", "Month", ".", "yyyy">>, <<"dd", " ", "Mon", " ", "yyyy">>,
                 <<"Mon", ".", " ", "dd", ",", " ", "yyyy">>, <<"Month", " ", "dd", " ", "yyyy">>},
     word   |-> {<<"dd", "/", "Mon", "/", "yy">>, <<"dd", "Month", "yy">>},
     first  |-> {<<"Mon", " ", "dd", ",", "yy">>},
     ymd    |-> {<<"yy", sep, "mm", sep, "dd">> : sep \in {"/", "-"}},
     mdy    |-> {<<"mm", sep, "dd", sep, y>> : sep \in {"/", "."}, y \in {"yy", "yyyy"}},
     dmy    |-> {<<"dd", sep, "mm", sep, y>> : sep \in {"-", "."}, y \in {"yy", "yyyy"}}]

TimeWordings == {<<"time">>, <<"HH", ":", "MM">>, <<"HH", ":", "MM", ":", "SS">>, <<"H", ".", "MM", ".", "SS">>,
              <<"HH", ":", "MM", ":", "SS", ".", "ticks", "9">>}

Behinds == [fit    |-> {<<" ">>, <<"T", "0", "0", ":", "0", "0">>, <<" ", "0", "0", ":", "0", "0", ":", "0", "0", ".", "0", "Z">>,
                        <<"T", "0", "0", ":", "0", "0", "+", "0", "1", ":", "0", "0">>},
            misfit |-> {<<"T", "0", "1", ":", "0", "0">>, <<" ", "pm">>},
            digit  |-> {<<"1">>}]

Zones == [none   |-> {<< >>, <<" ">>}, Z |-> {<<"Z">>}, UTC |-> {<<" ", "UTC">>}, other |-> {<<"Z", "/", "UTC">>},
          offset |-> {<<"+", "0", "5">>, <<"-", "0", "5", ":", "3", "0">>},
          bad    |-> {<<"+", "5">>, <<"-", "0", "5", ":", "3", "0", "1">>}]

Part(p, d, t) ==
    CASE p = "iso"   -> OrNA(DateText(d))  [] p = "time"  -> OrNA(TimeText(t))
      [] p = "yyyy"  -> Dec(d.year, 4)     [] p = "yy"    -> Dec(d.year % 100, 2)
      [] p = "mm"    -> Dec(d.month, 2)    [] p = "dd"    -> Dec(d.day, 2)
      [] p = "Mon"   -> <<CHOOSE w \in MonthWords[d.month] : w \in MonthShort \cup {"may"}>>
      [] p = "Month" -> <<CHOOSE w \in MonthWords[d.month] : w \notin MonthShort>>
      [] p = "ddd"   -> <<CHOOSE w \in DayWords[Weekday(ToDays(d)) + 1] : TRUE>>
      [] p = "not" -> <<CHOOSE w \in DayWords[Weekday(ToDays(d) + 1) + 1] : TRUE>>
      [] p = "H"     -> IF t.hour < 10 THEN Dec(t.hour, 1) ELSE Dec(t.hour, 2)
      [] p = "HH"    -> Dec(t.hour, 2)     [] p = "MM"    -> Dec(t.minute, 2)
      [] p = "SS"    -> Dec(t.second, 2)   [] p = "ticks" -> Dec(t.tick, TickDigits)
      [] OTHER       -> <<p>>
TextOf(parts, d, t) == FlattenSeq([i \in DOMAIN parts |-> Part(parts[i], d, t)])

Joints == {<<"T">>, <<" ">>, <<":">>, <<" ", "T", " ">>}
Postgres == {<<"Mon", " ", "dd">>, <<"dd", " ", "Mon">>}
NoDashForms == {<<"HH">>, <<"HH", "MM">>, <<"HH", "MM", "SS">>, <<"HH", "MM", "SS", ".", "ticks">>}

Typed == {[tz |-> tz, via |-> via] : tz \in {"abstract", "UTC"}, via \in {"method", "kernel"}}
Plainly == [tz |-> "abstract", via |-> "method"]
Checked   == {env \in Environments : env.check}
Unordered == {env \in Environments : env.order = "none" /\ env.window = 0}

DateTextCall ==
    \E d \in WrittenDates, kind \in DOMAIN DateWordings :
    \E form \in IF d.year \in 0..9999 /\ d # DateNA THEN DateWordings[kind] ELSE {<<"iso">>} \cap DateWordings[kind] :
    \/ \E env \in Checked, w \in {<< >>, <<"ddd", ",", " ">>, <<"not", " ">>} :
          /\ w = << >> \/ d # DateNA
          /\ call = [op |-> "read date", text |-> TextOf(w \o form, d, Midnight), date |-> d, kind |-> kind, form |-> form,
                     weekday |-> w, behind |-> "fit", env |-> env, via |-> IF w = << >> THEN "kernel" ELSE "method"]
    \/ \E env \in {e \in Environments : e.window > 99}, b \in DOMAIN Behinds, via \in {"method", "kernel"} :
       \E text \in Behinds[b] :
          /\ d.month = 2
          /\ call = [op |-> "read date", text |-> TextOf(form, d, Midnight) \o text, date |-> d, kind |-> kind,
                     form |-> form, weekday |-> << >>, behind |-> b, env |-> env, via |-> via]

TimeTextCall ==
    \E t \in WrittenTimes, form \in TimeWordings, half \in {"none", "am", "pm"}, z \in DOMAIN Zones, typed \in Typed :
    \E zone \in Zones[z] :
       /\ form = <<"time">> \/ t # TimeNA
       /\ form # <<"time">> \/ IsValidTime(t) \/ (t = TimeNA /\ half = "none" /\ zone = << >>)
       /\ call = [op |-> "read time", text |-> TextOf(form, DateNA, t) \o (IF half = "none" THEN << >> ELSE <<" ", half>>) \o zone,
                  time |-> t, form |-> form, half |-> half, zone |-> z, typed |-> typed]

DatetimeTextCall ==
    LET asked(text, d, t, style, kind, form, tform, zone, env, typed) ==
            call = [op |-> "read datetime", text |-> text, date |-> d, time |-> t, style |-> style, kind |-> kind,
                    form |-> form, tform |-> tform, zone |-> zone, env |-> env, typed |-> typed]
    IN
    \E d \in {e \in WrittenDates : e.year \in 0..9999 /\ IsValidDate(e)}, t \in {u \in WrittenTimes : u # TimeNA} :
    \/ \E kind \in {"full", "word", "mdy"}, env \in {e \in Checked : e.window = 1950} :
       \E form \in DateWordings[kind], tform \in TimeWordings \ {<<"time">>}, joint \in Joints :
          /\ d.month = 2 /\ t.second = 3
          /\ asked(TextOf(form \o joint \o tform, d, t), d, t, "both", kind, form, tform, "none", env, Plainly)
    \/ \E tform \in TimeWordings \cup {<<"HH">>}, z \in DOMAIN Zones, typed \in Typed, env \in Unordered : \E zone \in Zones[z] :
          /\ d.month = 2 /\ (t.second = 3 \/ tform = <<"time">>) /\ (IsValidTime(t) \/ tform # <<"time">>)
          /\ asked(TextOf(<<"iso", "T">> \o tform \o zone, d, t), d, t, IF tform = <<"HH">> THEN "hour" ELSE "both",
                   "full", <<"iso">>, tform, z, env, typed)
    \/ \E form \in Postgres, w \in {"ddd", "not"}, tform \in {<<"HH", ":", "MM">>, <<"HH", ":", "MM", ":", "SS">>},
          env \in {e \in Environments : e.window < 100} :
          /\ t.second = 3
          /\ asked(TextOf(<<w, " ">> \o form \o <<" ">> \o tform \o <<" ", "yyyy">>, d, t), d, t, w, "full", form, tform,
                   "none", env, Plainly)
    \/ \E form \in NoDashForms, env \in Unordered :
          asked(TextOf(<<"yyyy", "mm", "dd">> \o form, d, t), d, t, "digits", "full", form, form, "none", env, Plainly)

ReadDateText     == /\ Asked /\ call.op = "read date"
                    /\ outcome' = <<AssignDate(call.text, call.env, call.via)>>
ReadTimeText     == /\ Asked /\ call.op = "read time"
                    /\ outcome' = <<AssignTime(call.text, call.typed.tz, call.typed.via)>>
ReadDatetimeText == /\ Asked /\ call.op = "read datetime"
                    /\ \E r \in AssignDatetime(call.text, call.env, call.typed.tz, call.typed.via) : outcome' = <<r>>

(* ---- properties ----------------------------------------------------------*)
InWindow(yy, window) == LET first == IF window <= 99 THEN ThisYear - window ELSE window
                        IN  CHOOSE y \in first..first + 99 : y % 100 = yy

\* What the form says: a date with a year of four digits is that date, two digits
\* are a year of the window where the reader can know which they are, and three
\* numbers are a date in the order asked for. Years are kept in 16 bits.
Meaning(d, kind, form, env) ==
    LET short   == "yy" \in Range(form)
        long    == "yyyy" \in Range(form)
        year(y) == IF long THEN d.year ELSE InWindow(y, env.window)
        y2      == d.year % 100
        n       == CASE kind = "ymd" -> <<y2, d.month, d.day>>
                     [] kind = "mdy" -> <<d.month, d.day, y2>>
                     [] OTHER        -> <<d.day, d.month, y2>>
        date    == CASE kind = "full"                               -> d
                     [] short /\ env.window = 0                     -> Invalid
                     [] kind = "first"                              -> Date(year(y2), d.month, d.day)
                     [] env.order = "none"                          -> Invalid
                     [] kind = "word" /\ env.order = "ymd" /\ form[2] # "/" -> Invalid
                     [] kind = "word" /\ env.order # "ymd"          -> Date(year(y2), d.month, d.day)
                     [] env.order = "ymd" /\ long                   -> Invalid
                     [] env.order = "ymd"                           -> Date(year(n[1]), n[2], n[3])
                     [] env.order = "mdy"                           -> Date(year(n[3]), n[1], n[2])
                     [] env.order = "dmy"                           -> Date(year(n[3]), n[2], n[1])
    IN  IF date = Invalid \/ ~Exists(date) THEN Invalid ELSE [date EXCEPT !.year = Int16(@)]

WeekdayOf(d) == (Counted(d) + 3) % 7

\* The short form of May is the whole word, and has no dot.
DottedMay(form, d) == d.month = 5 /\ form[1] = "Mon" /\ form[2] = "."

\* A date is read as its form says or not at all: what is behind it is refused,
\* unless nobody checks, and so is a weekday that is not that of the date. The
\* kernels read NA. (string_to_date, date_type::set_from_utf8_string)
DateTextsRead ==
    Answered({"read date"}) =>
        LET d     == call.date
            m     == Meaning(d, call.kind, call.form, call.env)
            named == IF "ddd" \in Range(call.weekday) THEN WeekdayOf(d) ELSE (WeekdayOf(d) + 1) % 7
            extra == call.behind = "digit" \/ (call.behind = "misfit" /\ (call.env.check \/ call.via = "kernel"))
        IN  Answer = IF d = DateNA THEN IF call.via = "kernel" THEN DateNA ELSE Invalid
                     ELSE IF m = Invalid \/ extra \/ DottedMay(call.form, d) THEN Invalid
                     ELSE IF call.weekday # << >> /\ WeekdayOf(m) # named THEN Invalid
                     ELSE m

\* The time a text says: parts that are not written are zero.
TimeMeant(t, form, half) ==
    LET hour == IF half = "none" THEN t.hour ELSE IF t.hour \notin 1..12 THEN -1
                ELSE (t.hour % 12) + (IF half = "pm" THEN 12 ELSE 0)
        time == Time(hour, IF form = <<"HH">> THEN 0 ELSE t.minute,
                     IF form = <<"time">> \/ "SS" \in Range(form) THEN t.second ELSE 0,
                     IF form = <<"time">> \/ "ticks" \in Range(form) THEN t.tick ELSE 0)
    IN  IF IsValidTime(time) THEN time ELSE Invalid

ZoneRefused(zone, typed) == zone \in {"offset", "other"} /\ typed = [tz |-> "UTC", via |-> "method"]

\* A time is read as it is written, at twelve hours or twenty-four; a zone that is
\* not the type's is refused by the type, and dropped by the kernels.
\* (string_to_time, time_type::set_from_utf8_string)
TimeTextsRead ==
    Answered({"read time"}) =>
        Answer = IF call.time = TimeNA THEN IF call.typed.via = "kernel" THEN TimeNA ELSE Invalid
                 ELSE IF call.zone = "bad" \/ ZoneRefused(call.zone, call.typed) THEN Invalid
                 ELSE TimeMeant(call.time, call.form, call.half)

\* A text of the form of Postgres is lost when its hour, as the two digits of a
\* year, gives a date on that very day of the week, and what is behind the hour
\* is a time itself.
HourIsYear ==
    LET d == Date(InWindow(call.time.hour, call.env.window), call.date.month, call.date.day)
        k == (WeekdayOf(call.date) + (IF call.style = "not" THEN 1 ELSE 0)) % 7
    IN  /\ call.env.window # 0
        /\ "SS" \in Range(call.tform) /\ IsValidTime(Time(call.time.minute, call.time.second, 0, 0))
        /\ call.form = <<"Mon", " ", "dd">> \/ call.env.order \in {"mdy", "dmy"}
        /\ Exists(d) /\ WeekdayOf(d) = k

\* A datetime is the instant that its date and time say, in every form, or is
\* refused. Where only the date is read and nobody checks, the hour stays; the
\* minutes of a text of digits that has none may be any that were in memory.
\* (string_to_datetime, datetime_type::set_from_utf8_string)
DatetimeTextsRead ==
    Answered({"read datetime"}) =>
        LET m       == Meaning(call.date, call.kind, call.form, call.env)
            t       == TimeMeant(call.time, call.tform, "none")
            strict  == call.env.check \/ call.typed.via = "kernel"
            extra   == call.zone = "bad" \/ (call.style = "hour" /\ call.zone # "none")
            instant == [days |-> Counted(m), ticks |-> ToTicks(t)]
        IN  CASE call.style \in {"ddd", "not"} /\ HourIsYear -> strict => Answer = Invalid
              [] call.style = "not"                          -> Answer = Invalid
              [] t = Invalid /\ call.style = "both" /\ ~strict ->
                     Answer \in {Invalid, [days |-> Counted(m), ticks |-> call.time.hour * PerHour]}
              [] m = Invalid \/ t = Invalid \/ DottedMay(call.form, call.date) -> Answer = Invalid
              [] (extra /\ strict) \/ (ZoneRefused(call.zone, call.typed) /\ call.style # "hour") -> Answer = Invalid
              [] call.form = <<"HH">> ->
                     Answer = Invalid \/ (Answer.days = instant.days /\ Answer.ticks \div PerMinute = 60 * call.time.hour)
              [] OTHER -> Answer = instant

\* What is written is what is read, for dates, times and datetimes, whatever the
\* form, the order of the fields, the window of two-digit years and the zone.
\* (date_parser.cpp, time_parser.cpp, datetime_parser.cpp)
TextsRead == DateTextsRead /\ TimeTextsRead /\ DatetimeTextsRead
=============================================================================
