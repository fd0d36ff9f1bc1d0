------------------------------ MODULE Calendar ------------------------------
(* Dates, times and datetimes: the numbers they are kept as, days from       *)
(* January 1, 1970 and ticks, and the fields a reader knows, in a proleptic  *)
(* Gregorian calendar.                                                       *)
EXTENDS Integers, Sequences, SequencesExt, Calls

CONSTANTS
    TickDigits,     \* decimal digits that ticks add to a second
    Days,           \* days since 1970, years, months and days, and times to convert
    DateFields,
    TimeInputs,
    Instants,       \* ticks since 1970 to take fields from
    Replacements,   \* days, with the fields to replace
    Datetimes,      \* dates and times to make a datetime of
    Conversions     \* values, with the unit and the epoch they are counted in

\* The power of ten is there for the prover, which knows nothing of powers.
ASSUME TickDigitsAssumption == TickDigits \in Nat \ {0} /\ 10^TickDigits \in Nat \ {0}

\* The least integer stands for a value that is not available. The C++ quotient
\* is rounded toward zero, and a remainder has the sign of the dividend.
NA         == -2147483647 - 1
Quot(a, b) == IF a < 0 THEN -((-a) \div b) ELSE a \div b
Rem(a, b)  == a - b * Quot(a, b)
Int16(x)   == ((x + 32768) % 65536) - 32768
Int8(x)    == ((x + 128) % 256) - 128

(* ---- dates ---------------------------------------------------------------*)
Date(y, m, d) == [year |-> y, month |-> m, day |-> d]
DateNA        == Date(0, -128, 0)

MonthLengths == <<31, 28, 31, 30, 31, 30, 31, 31, 30, 31, 30, 31>>
MonthStarts  == <<0, 31, 59, 90, 120, 151, 181, 212, 243, 273, 304, 334, 365>>

IsLeapYear(y)     == y % 4 = 0 /\ (y % 100 # 0 \/ y % 400 = 0)
LeapDay(y)        == IF IsLeapYear(y) THEN 1 ELSE 0
MonthLength(y, m) == IF m \notin 1..12 THEN 0
                     ELSE MonthLengths[m] + (IF m = 2 THEN LeapDay(y) ELSE 0)
MonthStart(y, m)  == MonthStarts[m] + (IF m > 2 THEN LeapDay(y) ELSE 0)
IsValidDate(d)    == d.day >= 1 /\ d.day <= MonthLength(d.year, d.month)

ToDays(d) ==
    LET years == (d.year - 1970) * 365
        leaps == IF years >= 0
                 THEN Quot(d.year - 1969, 4) - Quot(d.year - 1901, 100) + Quot(d.year - 1601, 400)
                 ELSE Quot(d.year - 1972, 4) - Quot(d.year - 2000, 100) + Quot(d.year - 2000, 400)
    IN  IF IsValidDate(d) THEN years + leaps + MonthStart(d.year, d.month) + d.day - 1 ELSE NA

\* Mutant: the first year of a cycle is as long as the others.
CycleAlike(st, least, shift, years, length) ==
    [st EXCEPT !.year = @ + years * ((st.days + shift) \div length), !.days = (@ + shift) % length]

\* Cycles of 400, 100, 4 years and 1 year; the first year of the longest one is a
\* leap year, that of a hundred years is not, and so on.
Cycle(st, least, shift, years, length) ==
    IF st.done \/ st.days < least
    THEN [year |-> st.year, days |-> st.days, done |-> TRUE]
    ELSE [year |-> st.year + years * ((st.days + shift) \div length),
          days |-> (st.days + shift) % length, done |-> FALSE]

YearAndDay(days) ==
    LET from0 == days + 719528
        n400  == IF from0 >= 0 THEN Quot(from0, 146097) ELSE Quot(from0 - 146096, 146097)
        rest  == IF Rem(from0, 146097) < 0 THEN Rem(from0, 146097) + 146097 ELSE Rem(from0, 146097)
        c400  == [year |-> 400 * n400, days |-> rest, done |-> FALSE]
        c100  == Cycle(c400, 366, -1, 100, 36524)
        c4    == Cycle(c100, 365, 1, 4, 1461)
    IN  Cycle(c4, 366, -1, 1, 365)

SetFromDays(days) ==
    LET yd    == YearAndDay(days)
        month == CHOOSE m \in 1..12 : MonthStart(yd.year, m) <= yd.days
                                      /\ yd.days < MonthStart(yd.year, m + 1)
    IN  IF days = NA THEN DateNA
        ELSE Date(Int16(yd.year), month, yd.days - MonthStart(yd.year, month) + 1)

Weekday(days) == LET w == Rem(days - 4, 7) IN IF w < 0 THEN w + 7 ELSE w
DayOfYear(d)  == IF IsValidDate(d) THEN MonthStart(d.year, d.month) + d.day - 1 ELSE -1

Invalid          == [error |-> TRUE]
SetYmd(d, check) == IF check /\ ~IsValidDate(d) THEN Invalid ELSE [days |-> ToDays(d)]

\* The replace function: fields that are left alone are Same, and months and
\* days may be counted from the end.
Same == 2147483647

FromEnd(n, length) == IF -length <= n /\ n <= -1 THEN n + length + 1 ELSE n

Replace(days, year, month, day) ==
    LET old  == SetFromDays(days)
        with == Date(IF year = Same THEN old.year ELSE Int16(year),
                     IF month = Same THEN old.month ELSE FromEnd(month, 12), old.day)
        size == MonthLength(with.year, with.month)
    IN  IF \/ month # Same /\ with.month \notin 1..12
           \/ month # Same /\ day = Same /\ ~IsValidDate(with)
           \/ day # Same /\ FromEnd(day, size) \notin 1..size
        THEN Invalid
        ELSE [days |-> ToDays(IF day = Same THEN with ELSE [with EXCEPT !.day = FromEnd(day, size)])]

(* ---- times ---------------------------------------------------------------*)
PerSecond == 10^TickDigits
PerMinute == 60 * PerSecond
PerHour   == 60 * PerMinute
PerDay    == 24 * PerHour

Time(h, m, s, t) == [hour |-> h, minute |-> m, second |-> s, tick |-> t]
TimeNA           == [hour |-> -128]
Midnight         == Time(0, 0, 0, 0)

\* There may be a leap second.
IsValidTime(t) == /\ t.hour \in 0..23 /\ t.minute \in 0..59 /\ t.second \in 0..60
                  /\ t.tick \in 0..PerSecond - 1

ToTicks(t) == IF ~IsValidTime(t) THEN NA
              ELSE t.tick + t.second * PerSecond + t.minute * PerMinute + t.hour * PerHour

SetFromTicks(ticks) ==
    LET seconds == ticks \div PerSecond
    IN  IF ticks < 0 \/ ticks >= PerDay THEN TimeNA
        ELSE Time((seconds \div 60) \div 60, (seconds \div 60) % 60, seconds % 60, ticks % PerSecond)

SetTime(t, check) == IF check /\ ~IsValidTime(t) THEN Invalid ELSE [ticks |-> ToTicks(t)]

(* ---- datetimes -----------------------------------------------------------*)
DaysOfTicks(ticks)   == Quot(IF ticks >= 0 THEN ticks ELSE ticks - (PerDay - 1), PerDay)
WithinSpan(ticks, n) == LET r == Rem(ticks, n) IN IF r < 0 THEN r + n ELSE r

DatetimeTicks(d, t) == IF IsValidDate(d) /\ IsValidTime(t) THEN ToDays(d) * PerDay + ToTicks(t) ELSE NA

\* The check lets through ticks of up to a hundred seconds; the fields are narrowed.
SetCal(d, t, check) ==
    IF check /\ ~(/\ IsValidDate(d) /\ t.hour \in 0..23 /\ t.minute \in 0..59
                  /\ t.second \in 0..59 /\ t.tick \in 0..100 * PerSecond - 1)
    THEN Invalid
    ELSE [ticks |-> DatetimeTicks(Date(Int16(d.year), Int8(d.month), Int8(d.day)),
                                  Time(Int8(t.hour), Int8(t.minute), Int8(t.second), t.tick))]

\* The properties of a datetime array
DatetimeFields(ticks) ==
    [date   |-> DaysOfTicks(ticks),
     time   |-> WithinSpan(ticks, PerDay),
     ymd    |-> SetFromDays(DaysOfTicks(ticks)),
     hour   |-> WithinSpan(ticks, PerDay) \div PerHour,
     minute |-> WithinSpan(ticks, PerHour) \div PerMinute,
     second |-> WithinSpan(ticks, PerMinute) \div PerSecond,
     tick   |-> WithinSpan(ticks, PerSecond)]

\* Those of a time array
TimeFields(ticks) ==
    [hour   |-> Quot(ticks, PerHour),
     minute |-> Rem(Quot(ticks, PerMinute), 60),
     second |-> Rem(Quot(ticks, PerSecond), 60),
     tick   |-> Rem(ticks, PerSecond)]

(* ---- units since an epoch ------------------------------------------------*)
\* A unit is so many ticks, or so many of it are a tick.
FloorDiv(a, b) == Quot(IF a < 0 THEN a - (b - 1) ELSE a, b)

MultiplyAndOffset(v, factor, offset) == IF v = NA THEN NA ELSE factor * v + offset
OffsetAndDivide(v, offset, divisor)  == IF v = NA THEN NA ELSE FloorDiv(v + offset, divisor)

TicksSince(v, epoch, unit) ==
    IF unit.divisor > 1 THEN OffsetAndDivide(v, epoch * unit.divisor, unit.divisor)
    ELSE MultiplyAndOffset(v, unit.factor, epoch)
SinceTicks(ticks, epoch, unit) ==
    IF unit.divisor > 1 THEN MultiplyAndOffset(ticks, unit.divisor, -epoch * unit.divisor)
    ELSE OffsetAndDivide(ticks, -epoch, unit.factor)

Units == {[factor |-> n, divisor |-> 1] : n \in {PerHour, PerMinute, PerSecond}}
         \cup {[factor |-> 1, divisor |-> n] : n \in {2, 100}}

(* ---- the calendar, from the number of leap days before a year -------------*)
LeapsBefore(y) == ((y - 1) \div 4) - ((y - 1) \div 100) + ((y - 1) \div 400)
DaysBefore(y)  == 365 * (y - 1970) + LeapsBefore(y) - LeapsBefore(1970)
Lengths(y)     == [MonthLengths EXCEPT ![2] = 28 + LeapsBefore(y + 1) - LeapsBefore(y)]
Exists(d)      == d.month \in 1..12 /\ d.day \in 1..Lengths(d.year)[d.month]
MonthsBefore(y) ==
    LET before[m \in 1..12] == IF m = 1 THEN 0 ELSE before[m - 1] + Lengths(y)[m - 1] IN before
Counted(d)     == DaysBefore(d.year) + MonthsBefore(d.year)[d.month] + d.day - 1
InYears        == DaysBefore(-32768)..DaysBefore(32768) - 1

(* ---- calls ---------------------------------------------------------------*)
\* What is given are numbers. A year is one of 16 bits, and so is that of an
\* instant, which has 64. A unit is so many ticks, or so many of it are a tick.
ASSUME CalendarInputs ==
    /\ Days \subseteq Int
    /\ DateFields \subseteq [year : Int, month : Int, day : Int]
    /\ TimeInputs \subseteq [hour : Int, minute : Int, second : Int, tick : Int]
    /\ Instants \subseteq Int /\ \A n \in Instants : DaysOfTicks(n) \in InYears
    /\ \A r \in Replacements : /\ r.days \in Int /\ r.with \in [year : Int, month : Int, day : Int]
                               /\ r.with.year = Same \/ Int16(r.with.year) = r.with.year
    /\ \A c \in Datetimes : /\ c.date \in [year : Int, month : Int, day : Int]
                            /\ Int16(c.date.year) = c.date.year
                            /\ c.time \in [hour : Int, minute : Int, second : Int, tick : Int]
    /\ \A c \in Conversions : /\ c.value \in Int /\ c.epoch \in Int
                              /\ c.unit \in [factor : Nat \ {0}, divisor : Nat \ {0}]
                              /\ c.unit.factor = 1 \/ c.unit.divisor = 1

CalendarCall ==
    \/ \E n \in Days \ {NA} : call = [op |-> "day", days |-> n]
    \/ \E d \in DateFields, check \in BOOLEAN : call = [op |-> "count", date |-> d, check |-> check]
    \/ \E r \in Replacements : call = [op |-> "replace", days |-> r.days, with |-> r.with]
    \/ \E t \in TimeInputs, check \in BOOLEAN : call = [op |-> "clock", time |-> t, check |-> check]
    \/ \E c \in Datetimes, check \in BOOLEAN :
           call = [op |-> "cal", date |-> c.date, time |-> c.time, check |-> check]
    \/ \E n \in Instants : call = [op |-> "datetime", ticks |-> n]
    \/ \E c \in Conversions : call = [op |-> "since", value |-> c.value, unit |-> c.unit, epoch |-> c.epoch]

ConvertDay   == /\ Asked /\ call.op = "day"
                /\ LET d == SetFromDays(call.days)
                   IN  outcome' = <<[date |-> d, weekday |-> Weekday(ToDays(d)), yday |-> DayOfYear(d)]>>
CountDays    == Asked /\ call.op = "count" /\ outcome' = <<SetYmd(call.date, call.check)>>
ReplaceField == /\ Asked /\ call.op = "replace"
                /\ outcome' = <<Replace(call.days, call.with.year, call.with.month, call.with.day)>>
SetClock     == Asked /\ call.op = "clock" /\ outcome' = <<SetTime(call.time, call.check)>>
SetInstant   == Asked /\ call.op = "cal" /\ outcome' = <<SetCal(call.date, call.time, call.check)>>
GetFields    == Asked /\ call.op = "datetime" /\ outcome' = <<DatetimeFields(call.ticks)>>
AdaptUnits   == /\ Asked /\ call.op = "since"
                /\ outcome' = <<[ticks |-> TicksSince(call.value, call.epoch, call.unit),
                                  since |-> SinceTicks(call.value, call.epoch, call.unit)]>>

UseCalendar == \/ ConvertDay \/ CountDays \/ ReplaceField \/ SetClock \/ SetInstant \/ GetFields
               \/ AdaptUnits

\* The calendar by itself
CalendarSpec == outcome = Pending /\ CalendarCall /\ [][UseCalendar]_<<call, outcome>>

(* ---- properties ----------------------------------------------------------*)
\* The date that replacing asks for: a field is left alone, counted from the
\* end, or given.
Given(field, old, n) == IF field = Same THEN old ELSE IF field < 0 THEN n + 1 + field ELSE field
DaysIn(y, m)         == IF m \in 1..12 THEN Lengths(y)[m] ELSE 0
Wanted(old, year, month, day) ==
    LET y == IF year = Same THEN old.year ELSE year
        m == Given(month, old.month, 12)
    IN  Date(y, m, Given(day, old.day, DaysIn(y, m)))

DaysAreDates ==
    Answered({"day"}) /\ call.days \in InYears =>
        LET d == Answer.date
        IN  /\ Exists(d) /\ Counted(d) = call.days
            /\ Answer.weekday = (call.days + 3) % 7
            /\ Answer.yday = call.days - DaysBefore(d.year)

DatesAreDays ==
    Answered({"count"}) =>
        Answer = IF Exists(call.date) THEN [days |-> Counted(call.date)]
                 ELSE IF call.check THEN Invalid ELSE [days |-> NA]

FieldsReplaced ==
    Answered({"replace"}) =>
        LET with   == call.with
            wanted == Wanted(SetFromDays(call.days), with.year, with.month, with.day)
        IN  Answer = IF Exists(wanted) THEN [days |-> Counted(wanted)]
                     ELSE IF with.month # Same \/ with.day # Same THEN Invalid ELSE [days |-> NA]

\* Days and dates count the same way: every day within the years of 16 bits is a
\* date that exists, on its day of the week and of the year, and a date is
\* counted exactly when it exists. Replacing gives the date asked for or throws,
\* but for a leap day put into a common year, which becomes NA, and for NA given
\* both a month and a day, which becomes a date.
\* (date_ymd::to_days, set_from_days, date_replace_kernel_extra)
DatesCounted == DaysAreDates /\ DatesAreDays /\ FieldsReplaced

ClockOf(f)  == Time(f.hour, f.minute, f.second, f.tick)
TicksOf(f) == ((f.hour * 60 + f.minute) * 60 + f.second) * PerSecond + f.tick

OneLater(t) ==
    IF t.second < 60 THEN t
    ELSE IF t.minute < 59 THEN Time(t.hour, t.minute + 1, 0, t.tick)
    ELSE IF t.hour < 23 THEN Time(t.hour + 1, 0, 0, t.tick)
    ELSE TimeNA

\* A leap second is the first second of the next minute, and lost at the end of
\* the day.
ClocksCounted ==
    Answered({"clock"}) =>
        IF IsValidTime(call.time) THEN SetFromTicks(Answer.ticks) = OneLater(call.time)
        ELSE Answer = IF call.check THEN Invalid ELSE [ticks |-> NA]

FieldsRight(f, ticks) ==
    /\ IsValidTime(ClockOf(f)) /\ f.second < 60 /\ TicksOf(f) = f.time
    /\ f.date * PerDay + f.time = ticks
    /\ Exists(f.ymd) /\ Counted(f.ymd) = f.date
    /\ ClockOf(f) = SetFromTicks(f.time) /\ ClockOf(TimeFields(f.time)) = ClockOf(f)

InstantsSplit == Answered({"datetime"}) => FieldsRight(Answer, call.ticks)

\* A tick of a second or more is accepted but makes the whole datetime NA.
InstantsRead ==
    Answered({"cal"}) /\ call.check =>
        IF Exists(call.date) /\ IsValidTime(call.time) /\ call.time.second < 60
        THEN LET f == DatetimeFields(Answer.ticks) IN f.ymd = call.date /\ ClockOf(f) = call.time
        ELSE \/ Answer = Invalid
             \/ Answer.ticks = NA /\ call.time.tick >= PerSecond

ConvertedRight(n, epoch, unit, ticks, since) ==
    LET back == SinceTicks(ticks, epoch, unit)
        on   == TicksSince(since, epoch, unit)
        most == unit.factor * n + epoch * unit.divisor
    IN  IF n = NA THEN ticks = NA /\ since = NA
        ELSE /\ ticks # NA => back <= n /\ n < back + unit.divisor
             /\ since # NA => on <= n /\ n < on + unit.factor
             /\ ticks * unit.divisor \in most - unit.divisor + 1 .. most

\* A value in other units is the same instant, rounded down to what the unit can
\* hold, unless it happens to be the number that stands for NA.
\* (make_datetime_adapter_arrfunc)
UnitsCounted ==
    Answered({"since"}) =>
        ConvertedRight(call.value, call.epoch, call.unit, Answer.ticks, Answer.since)

\* Ticks are split into fields that make up the same ticks again, before the
\* epoch as well as after it, and fields that were accepted are read back.
\* (time_hmst::to_ticks, set_from_ticks, the datetime properties, set_cal)
TicksCounted == ClocksCounted /\ InstantsSplit /\ InstantsRead /\ UnitsCounted

\* Nothing is lost or shifted on the way from days and ticks to fields and back.
\* (date_ymd, time_hmst, datetime_struct and the kernels of their properties)
CalendarExact == DatesCounted /\ TicksCounted
=============================================================================
