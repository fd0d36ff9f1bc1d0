--------------------------- MODULE CalendarProofs ---------------------------
(***************************************************************************)
(* The calendar is exact for every day, date, time and instant, every unit *)
(* and epoch and every length of a tick: what libdynd counts by cycles of  *)
(* 400, 100 and 4 years and by tables of months, and splits by quotients   *)
(* rounded toward zero, is the Gregorian calendar counted from the number  *)
(* of leap days before a year.                                             *)
(***************************************************************************)
EXTENDS Calendar, TLAPS

(* ---- from the cycles to the year ---------------------------------------*)
\* A year and a day counted from its first, to be split on or not
More(y, d) == [year |-> y, days |-> d, done |-> FALSE]
Over(y, d) == [year |-> y, days |-> d, done |-> TRUE]

(* A search that is over, or a remainder within the first year, stays.       *)
LEMMA CycleOver ==
    ASSUME NEW y, NEW d, NEW least, NEW shift, NEW years, NEW length
    PROVE  /\ Cycle(Over(y, d), least, shift, years, length) = Over(y, d)
           /\ d < least => Cycle(More(y, d), least, shift, years, length) = Over(y, d)
  BY DEF Cycle, More, Over

\* A hundred years from a leap year on, and a common one
In100(y, d, st) ==
    \/ d < 366 /\ st = Over(y, d)
    \/ \E c \in 0..3, e \in Nat :
           /\ st = More(y + 100 * c, e)
           /\ d = 36524 * c + e + 1 /\ e < 36524 /\ (c = 0 => e >= 365)

(* The cycle of 100 years: the first of them may be over after 366 days.     *)
LEMMA Cycle100 ==
    ASSUME NEW y \in Int, NEW d \in Nat, d < 146097
    PROVE  In100(y, d, Cycle(More(y, d), 366, -1, 100, 36524))
  <1>1. CASE d < 366
    BY <1>1, CycleOver DEF In100
  <1>2. CASE d >= 366
    <2>1. Cycle(More(y, d), 366, -1, 100, 36524)
          = More(y + 100 * ((d + -1) \div 36524), (d + -1) % 36524)
      BY <1>2 DEF Cycle, More
    <2>2. PICK c \in 0..3, e \in Nat :
              /\ e < 36524
              /\ c = (d + -1) \div 36524 /\ e = (d + -1) % 36524
              /\ d = 36524 * c + e + 1 /\ (c = 0 => e >= 365)
      BY <1>2
    <2>3. Cycle(More(y, d), 366, -1, 100, 36524) = More(y + 100 * c, e)
      BY <2>1, <2>2
    <2> QED
      BY <2>2, <2>3 DEF In100
  <1> QED
    BY <1>1, <1>2

\* Four years of a hundred, of which the first is a common one
In4(y, d, st) ==
    \/ d < 365 /\ st = Over(y, d)
    \/ \E f \in 0..24, e \in Nat :
           /\ st = More(y + 4 * f, e)
           /\ d + 1 = 1461 * f + e /\ e < 1461 /\ (f = 0 => e >= 366)

(* The cycle of 4 years within 100 that begin with a leap year or not.       *)
LEMMA Cycle4 ==
    ASSUME NEW y \in Int, NEW d \in Nat, d < 36524
    PROVE  In4(y, d, Cycle(More(y, d), 365, 1, 4, 1461))
  <1>1. CASE d < 365
    BY <1>1, CycleOver DEF In4
  <1>2. CASE d >= 365
    <2>1. Cycle(More(y, d), 365, 1, 4, 1461)
          = More(y + 4 * ((d + 1) \div 1461), (d + 1) % 1461)
      BY <1>2 DEF Cycle, More
    <2>2. PICK f \in 0..24, e \in Nat :
              /\ e < 1461
              /\ f = (d + 1) \div 1461 /\ e = (d + 1) % 1461
              /\ d + 1 = 1461 * f + e /\ (f = 0 => e >= 366)
      BY <1>2
    <2>3. Cycle(More(y, d), 365, 1, 4, 1461) = More(y + 4 * f, e)
      BY <2>1, <2>2
    <2> QED
      BY <2>2, <2>3 DEF In4
  <1> QED
    BY <1>1, <1>2

\* One year of four, of which the first is a leap year
In1(y, d, st) ==
    \/ d < 366 /\ st = Over(y, d)
    \/ \E g \in 1..3, e \in Nat :
           /\ st = More(y + g, e)
           /\ d = 365 * g + e + 1 /\ e < 365

(* The cycle of one year within 4.                                           *)
LEMMA Cycle1 ==
    ASSUME NEW y \in Int, NEW d \in Nat, d < 1461
    PROVE  In1(y, d, Cycle(More(y, d), 366, -1, 1, 365))
  <1>1. CASE d < 366
    BY <1>1, CycleOver DEF In1
  <1>2. CASE d >= 366
    <2>1. Cycle(More(y, d), 366, -1, 1, 365)
          = More(y + 1 * ((d + -1) \div 365), (d + -1) % 365)
      BY <1>2 DEF Cycle, More
    <2>2. PICK g \in 1..3, e \in Nat :
              /\ e < 365
              /\ g = (d + -1) \div 365 /\ e = (d + -1) % 365
              /\ d = 365 * g + e + 1
      BY <1>2
    <2>3. Cycle(More(y, d), 366, -1, 1, 365) = More(y + g, e)
      BY <2>1, <2>2
    <2> QED
      BY <2>2, <2>3 DEF In1
  <1> QED
    BY <1>1, <1>2

(* The leap days of 400 years, 100, 4 and one.                               *)
LEMMA YearParts ==
    ASSUME NEW q \in Int, NEW c \in 0..3, NEW f \in 0..24, NEW g \in 0..3
    PROVE  LET y == 400 * q + 100 * c + 4 * f + g IN
           /\ y \in Int
           /\ LeapsBefore(y) = 97 * q + 24 * c + f
                   + (IF g = 0 THEN -1 ELSE 0) - (IF f = 0 /\ g = 0 THEN -1 ELSE 0)
                   + (IF c = 0 /\ f = 0 /\ g = 0 THEN -1 ELSE 0)
           /\ LeapDay(y) = IF g = 0 /\ (f # 0 \/ c = 0) THEN 1 ELSE 0
  <1> DEFINE y == 400 * q + 100 * c + 4 * f + g
  <1>1. y \in Int
    OBVIOUS
  <1>2. (y - 1) \div 4 = 100 * q + 25 * c + f + (IF g = 0 THEN -1 ELSE 0)
    OBVIOUS
  <1>3. (y - 1) \div 100 = 4 * q + c + (IF f = 0 /\ g = 0 THEN -1 ELSE 0)
    OBVIOUS
  <1>4. (y - 1) \div 400 = q + (IF c = 0 /\ f = 0 /\ g = 0 THEN -1 ELSE 0)
    OBVIOUS
  <1>5. LeapDay(y) = IF g = 0 /\ (f # 0 \/ c = 0) THEN 1 ELSE 0
    <2>1. y % 4 = 0 <=> g = 0
      OBVIOUS
    <2>2. y % 100 = 0 <=> f = 0 /\ g = 0
      OBVIOUS
    <2>3. y % 400 = 0 <=> c = 0 /\ f = 0 /\ g = 0
      OBVIOUS
    <2> HIDE DEF y
    <2> QED
      BY <2>1, <2>2, <2>3 DEF LeapDay, IsLeapYear
  <1> HIDE DEF y
  <1>6. LeapsBefore(y) = 97 * q + 24 * c + f
                   + (IF g = 0 THEN -1 ELSE 0) - (IF f = 0 /\ g = 0 THEN -1 ELSE 0)
                   + (IF c = 0 /\ f = 0 /\ g = 0 THEN -1 ELSE 0)
    BY <1>2, <1>3, <1>4 DEF LeapsBefore
  <1> QED
    BY <1>1, <1>5, <1>6 DEF y

\* The days from the first of 400 years to the first of a year among them
DaysInto(c, f, g) ==
    36524 * c + 1461 * f + 365 * g
    + (IF c = 0 /\ f = 0 /\ g = 0 THEN 0 ELSE IF f # 0 /\ g = 0 THEN 0 ELSE 1)

(* The day a year begins with, from its place among 400.                     *)
LEMMA YearOfParts ==
    ASSUME NEW q \in Int, NEW c \in 0..3, NEW f \in 0..24, NEW g \in 0..3
    PROVE  LET y == 400 * q + 100 * c + 4 * f + g
           IN  DaysBefore(y) = 146097 * q + DaysInto(c, f, g) - 719528
  <1> DEFINE y == 400 * q + 100 * c + 4 * f + g
  <1>1. /\ y \in Int
        /\ LeapsBefore(y) = 97 * q + 24 * c + f
                 + (IF g = 0 THEN -1 ELSE 0) - (IF f = 0 /\ g = 0 THEN -1 ELSE 0)
                 + (IF c = 0 /\ f = 0 /\ g = 0 THEN -1 ELSE 0)
    BY YearParts
  <1>2. 365 * y = 146000 * q + 36500 * c + 1460 * f + 365 * g
    OBVIOUS
  <1>3. LeapsBefore(1970) = 477
    BY DEF LeapsBefore
  <1> HIDE DEF y
  <1>4. DaysBefore(y) = 365 * y - 719050 + LeapsBefore(y) - 477
    BY <1>1, <1>3 DEF DaysBefore
  <1> QED
    BY <1>1, <1>2, <1>4 DEF y, DaysInto

\* n days from the first of the 400 years from 400 q on are d days into year y.
InYear(q, n, y, d) ==
    \E c \in 0..3, f \in 0..24, g \in 0..3 :
        /\ y = 400 * q + 100 * c + 4 * f + g
        /\ d \in Nat /\ d <= 365 /\ n = DaysInto(c, f, g) + d
        /\ d = 365 => g = 0 /\ (f # 0 \/ c = 0)

Found(q, n, st) ==
    \E y \in Int, d \in Nat : st \in {More(y, d), Over(y, d)} /\ InYear(q, n, y, d)

(* The three cycles find a year that the day falls in.                       *)
LEMMA CyclesEnd ==
    ASSUME NEW q \in Int, NEW y0 \in Int, y0 = 400 * q, NEW n \in Nat, n < 146097,
           NEW c100, NEW c4, NEW c1,
           c100 = Cycle(More(y0, n), 366, -1, 100, 36524),
           c4 = Cycle(c100, 365, 1, 4, 1461), c1 = Cycle(c4, 366, -1, 1, 365)
    PROVE  Found(q, n, c1)
  <1>1. In100(y0, n, c100)
    BY Cycle100
  <1>2. CASE n < 366 /\ c100 = Over(y0, n)
    <2>1. c1 = Over(y0, n)
      BY <1>2, CycleOver
    <2>2. InYear(q, n, y0, n)
      <3>1. y0 = 400 * q + 100 * 0 + 4 * 0 + 0 /\ DaysInto(0, 0, 0) = 0
        BY DEF DaysInto
      <3> QED
        BY <3>1, <1>2 DEF InYear
    <2> QED
      BY <2>1, <2>2 DEF Found
  <1>3. ASSUME NEW c \in 0..3, NEW d \in Nat, c100 = More(y0 + 100 * c, d),
               n = 36524 * c + d + 1, d < 36524, c = 0 => d >= 365
        PROVE  Found(q, n, c1)
    <2>1. PICK y1 \in Int : y1 = y0 + 100 * c
      OBVIOUS
    <2>2. In4(y1, d, c4)
      BY <1>3, <2>1, Cycle4
    <2>3. CASE d < 365 /\ c4 = Over(y1, d)
      <3>1. c1 = Over(y1, d)
        BY <2>3, CycleOver
      <3>2. InYear(q, n, y1, d)
        <4>1. y1 = 400 * q + 100 * c + 4 * 0 + 0 /\ DaysInto(c, 0, 0) = 36524 * c + 1
          BY <1>3, <2>1, <2>3 DEF DaysInto
        <4> QED
          BY <4>1, <1>3, <2>3 DEF InYear
      <3> QED
        BY <3>1, <3>2 DEF Found
    <2>4. ASSUME NEW f \in 0..24, NEW e \in Nat, c4 = More(y1 + 4 * f, e),
                 d + 1 = 1461 * f + e, e < 1461, f = 0 => e >= 366
          PROVE  Found(q, n, c1)
      <3>1. PICK y2 \in Int : y2 = y1 + 4 * f
        OBVIOUS
      <3>2. In1(y2, e, c1)
        BY <2>4, <3>1, Cycle1
      <3>3. CASE e < 366 /\ c1 = Over(y2, e)
        <4>1. y2 = 400 * q + 100 * c + 4 * f + 0 /\ DaysInto(c, f, 0) = 36524 * c + 1461 * f
          BY <2>1, <2>4, <3>1, <3>3 DEF DaysInto
        <4>2. InYear(q, n, y2, e)
          BY <4>1, <1>3, <2>4, <3>3 DEF InYear
        <4> QED
          BY <3>3, <4>2 DEF Found
      <3>4. ASSUME NEW g \in 1..3, NEW h \in Nat, c1 = More(y2 + g, h),
                   e = 365 * g + h + 1, h < 365
            PROVE  Found(q, n, c1)
        <4>1. PICK y3 \in Int : y3 = y2 + g
          OBVIOUS
        <4>2. /\ y3 = 400 * q + 100 * c + 4 * f + g
              /\ DaysInto(c, f, g) = 36524 * c + 1461 * f + 365 * g + 1
          BY <2>1, <3>1, <4>1 DEF DaysInto
        <4>3. InYear(q, n, y3, h)
          BY <4>2, <1>3, <2>4, <3>4 DEF InYear
        <4> QED
          BY <3>4, <4>1, <4>3 DEF Found
      <3> QED
        BY <3>2, <3>3, <3>4 DEF In1
    <2> QED
      BY <2>2, <2>3, <2>4 DEF In4
  <1> QED
    BY <1>1, <1>2, <1>3 DEF In100

(* ---- months ------------------------------------------------------------*)
(* A year has the leap day that the next one has before it.                  *)
LEMMA LeapsIn == ASSUME NEW y \in Int PROVE LeapsBefore(y + 1) - LeapsBefore(y) = LeapDay(y)
  BY DEF LeapsBefore, LeapDay, IsLeapYear

(* A year has one leap day or none.                                          *)
LEMMA LeapDayIs == ASSUME NEW y PROVE LeapDay(y) \in {0, 1}
  BY DEF LeapDay

(* The two tables of the source agree with each other.                       *)
LEMMA Tables ==
    ASSUME NEW m \in 1..12, NEW k \in 2..13, k = m + 1
    PROVE  /\ MonthLengths[m] \in Nat /\ 28 <= MonthLengths[m] /\ MonthLengths[m] <= 31
           /\ m = 2 => MonthLengths[m] = 28
           /\ MonthStarts[m] \in Nat /\ MonthStarts[k] = MonthStarts[m] + MonthLengths[m]
  BY DEF MonthLengths, MonthStarts

(* The calendar's month is as long as the code's.                            *)
LEMMA LengthIs ==
    ASSUME NEW y \in Int, NEW m \in 1..12
    PROVE  /\ Lengths(y)[m] = MonthLengths[m] + (IF m = 2 THEN LeapDay(y) ELSE 0)
           /\ Lengths(y)[m] = MonthLength(y, m)
           /\ Lengths(y)[m] \in Nat /\ 28 <= Lengths(y)[m] /\ Lengths(y)[m] <= 31
  <1>1. PICK l \in {0, 1} : l = LeapDay(y)
    BY LeapDayIs
  <1>2. 28 + LeapsBefore(y + 1) - LeapsBefore(y) = 28 + l
    <2>1. LeapsBefore(y + 1) \in Int /\ LeapsBefore(y) \in Int
      BY DEF LeapsBefore
    <2> QED
      BY <1>1, <2>1, LeapsIn
  <1>3. Lengths(y) = [MonthLengths EXCEPT ![2] = 28 + l]
    BY <1>2, Zenon DEF Lengths
  <1>4. Lengths(y)[m] = IF m = 2 THEN 28 + l ELSE MonthLengths[m]
    BY <1>3 DEF MonthLengths
  <1>5. PICK k \in 2..13 : k = m + 1
    OBVIOUS
  <1>6. /\ MonthLengths[m] \in Nat /\ 28 <= MonthLengths[m] /\ MonthLengths[m] <= 31
        /\ m = 2 => MonthLengths[m] = 28
    BY <1>5, Tables
  <1>7. MonthLength(y, m) = MonthLengths[m] + (IF m = 2 THEN l ELSE 0)
    BY <1>1 DEF MonthLength
  <1> QED
    BY <1>1, <1>4, <1>6, <1>7

(* A month's place in the year is a number.                                  *)
LEMMA StartIs ==
    ASSUME NEW y, NEW m \in 1..13
    PROVE  MonthStart(y, m) \in Nat
  <1>1. PICK l \in {0, 1} : l = LeapDay(y)
    BY LeapDayIs
  <1>2. MonthStarts[m] \in Nat
    BY DEF MonthStarts
  <1> QED
    BY <1>1, <1>2 DEF MonthStart

(* A month begins where the one before it ends.                              *)
LEMMA NextStart ==
    ASSUME NEW y \in Int, NEW m \in 1..12, NEW k \in 2..13, k = m + 1
    PROVE  MonthStart(y, k) = MonthStart(y, m) + Lengths(y)[m]
  <1>1. PICK l \in {0, 1} : l = LeapDay(y)
    BY LeapDayIs
  <1>2. /\ MonthLengths[m] \in Nat
        /\ MonthStarts[m] \in Nat /\ MonthStarts[k] = MonthStarts[m] + MonthLengths[m]
    BY Tables
  <1>3. Lengths(y)[m] = MonthLengths[m] + (IF m = 2 THEN l ELSE 0)
    BY <1>1, LengthIs
  <1>4. /\ MonthStart(y, m) = MonthStarts[m] + (IF m > 2 THEN l ELSE 0)
        /\ MonthStart(y, k) = MonthStarts[k] + (IF k > 2 THEN l ELSE 0)
    BY <1>1 DEF MonthStart
  <1> QED
    BY <1>2, <1>3, <1>4

(* The first month begins the year, a thirteenth would begin the next.       *)
LEMMA FirstStart ==
    ASSUME NEW y
    PROVE  MonthStart(y, 1) = 0 /\ MonthStart(y, 13) = 365 + LeapDay(y)
  BY LeapDayIs DEF MonthStart, MonthStarts

(* The months before one, from the definition by recursion.                  *)
LEMMA MonthsBeforeIs ==
    ASSUME NEW y \in Int, NEW m \in 1..12
    PROVE  MonthsBefore(y)[m] = MonthStart(y, m)
  <1> DEFINE E(f) == [k \in 1..12 |-> IF k = 1 THEN 0 ELSE f[k - 1] + Lengths(y)[k - 1]]
             g == [k \in 1..12 |-> MonthStart(y, k)]
             b == MonthsBefore(y)
  <1>0. MonthStart(y, 1) = 0
    BY FirstStart
  <1>1. g = E(g)
    <2>1. \A k \in 1..12 : k # 1 => k - 1 \in 1..12 /\ (k - 1) + 1 = k
      OBVIOUS
    <2>2. \A k \in 1..12 : k # 1 => g[k - 1] = MonthStart(y, k - 1)
      BY <2>1
    <2>3. ASSUME NEW k \in 1..12, k # 1
          PROVE  MonthStart(y, k) = MonthStart(y, k - 1) + Lengths(y)[k - 1]
      <3>1. PICK j \in 1..12 : j = k - 1 /\ k = j + 1 /\ k \in 2..13
        BY <2>1, <2>3
      <3>2. MonthStart(y, k) = MonthStart(y, j) + Lengths(y)[j]
        BY <3>1, NextStart
      <3> QED
        BY <3>1, <3>2
    <2> QED
      BY <1>0, <2>2, <2>3
  <1>2. b = CHOOSE f : f = E(f)
    BY DEF MonthsBefore
  <1>3. b = E(b)
    <2> HIDE DEF E, g, b
    <2> QED
      BY <1>1, <1>2
  <1>4. b[1] = 0 /\ \A k \in 1..11 : b[k + 1] = b[k] + Lengths(y)[k]
    <2> HIDE DEF b
    <2>1. \A k \in 1..12 : b[k] = IF k = 1 THEN 0 ELSE b[k - 1] + Lengths(y)[k - 1]
      BY <1>3
    <2>2. \A k \in 1..11 : k + 1 \in 1..12 /\ k + 1 # 1 /\ (k + 1) - 1 = k
      OBVIOUS
    <2>3. 1 \in 1..12
      OBVIOUS
    <2> QED
      BY <2>1, <2>2, <2>3
  <1>5. \A k \in 1..11 : MonthStart(y, k + 1) = MonthStart(y, k) + Lengths(y)[k]
    <2> TAKE k \in 1..11
    <2>1. k + 1 \in 2..13 /\ k \in 1..12
      OBVIOUS
    <2> QED
      BY <2>1, NextStart
  <1> HIDE DEF b
  <1>6. \A k \in 1..11 : b[k] = MonthStart(y, k) => b[k + 1] = MonthStart(y, k + 1)
    BY <1>4, <1>5
  <1>7. b[1] = MonthStart(y, 1) /\ b[2] = MonthStart(y, 2)
    BY <1>0, <1>4, <1>6
  <1>8. b[3] = MonthStart(y, 3) /\ b[4] = MonthStart(y, 4) /\ b[5] = MonthStart(y, 5)
    BY <1>6, <1>7
  <1>9. b[6] = MonthStart(y, 6) /\ b[7] = MonthStart(y, 7) /\ b[8] = MonthStart(y, 8)
    BY <1>6, <1>8
  <1>10. b[9] = MonthStart(y, 9) /\ b[10] = MonthStart(y, 10)
         /\ b[11] = MonthStart(y, 11) /\ b[12] = MonthStart(y, 12)
    BY <1>6, <1>9
  <1>11. m = 1 \/ m = 2 \/ m = 3 \/ m = 4 \/ m = 5 \/ m = 6 \/ m = 7 \/ m = 8 \/ m = 9
         \/ m = 10 \/ m = 11 \/ m = 12
    OBVIOUS
  <1> QED
    BY <1>7, <1>8, <1>9, <1>10, <1>11 DEF b

(* ---- dates -------------------------------------------------------------*)
\* Dates as they are given, that may not be in any calendar
AnyDate == [year : Int, month : Int, day : Int]

(* A date is valid for the code exactly when the calendar has it.            *)
LEMMA ExistsIs ==
    ASSUME NEW d \in AnyDate
    PROVE  Exists(d) <=> IsValidDate(d)
  <1>1. d.year \in Int /\ d.month \in Int /\ d.day \in Int
    BY DEF AnyDate
  <1>2. CASE d.month \in 1..12
    <2>1. PICK y \in Int, m \in 1..12 : y = d.year /\ m = d.month
      BY <1>1, <1>2
    <2>2. /\ Lengths(y)[m] = MonthLength(y, m)
          /\ Lengths(y)[m] \in Nat /\ 28 <= Lengths(y)[m] /\ Lengths(y)[m] <= 31
      BY LengthIs
    <2> QED
      BY <1>1, <1>2, <2>1, <2>2 DEF Exists, IsValidDate
  <1>3. CASE d.month \notin 1..12
    <2>1. MonthLength(d.year, d.month) = 0
      BY <1>3 DEF MonthLength
    <2> QED
      BY <1>1, <1>3, <2>1 DEF Exists, IsValidDate
  <1> QED
    BY <1>2, <1>3

\* date_ymd::to_days counts the dates that exist, and gives the others NA.
LEMMA ToDaysIs ==
    ASSUME NEW d \in AnyDate
    PROVE  ToDays(d) = IF Exists(d) THEN Counted(d) ELSE NA
  <1>1. d.year \in Int /\ d.month \in Int /\ d.day \in Int
    BY DEF AnyDate
  <1>2. CASE ~Exists(d)
    <2>1. ~IsValidDate(d)
      BY <1>2, ExistsIs
    <2> QED
      BY <1>2, <2>1 DEF ToDays
  <1>3. CASE Exists(d)
    <2>1. IsValidDate(d) /\ d.month \in 1..12
      BY <1>3, ExistsIs DEF Exists
    <2>2. PICK y \in Int, m \in 1..12, k \in Int : y = d.year /\ m = d.month /\ k = d.day
      BY <1>1, <2>1
    <2>3. PICK s \in Int : s = MonthStart(y, m) /\ s = MonthsBefore(y)[m]
      <3>1. MonthStart(y, m) \in Nat
        BY StartIs
      <3> QED
        BY <3>1, MonthsBeforeIs
    <2> DEFINE years == (y - 1970) * 365
               leaps == IF years >= 0
                        THEN Quot(y - 1969, 4) - Quot(y - 1901, 100) + Quot(y - 1601, 400)
                        ELSE Quot(y - 1972, 4) - Quot(y - 2000, 100) + Quot(y - 2000, 400)
    <2>6. years + leaps = DaysBefore(y) /\ years \in Int /\ leaps \in Int
      BY DEF DaysBefore, LeapsBefore, Quot
    <2>7. ToDays(d) = years + leaps + s + k - 1
      BY <2>1, <2>2, <2>3 DEF ToDays
    <2> HIDE DEF years, leaps
    <2>4. ToDays(d) = DaysBefore(y) + s + k - 1
      BY <2>6, <2>7
    <2>5. Counted(d) = DaysBefore(y) + s + k - 1
      BY <2>2, <2>3 DEF Counted
    <2> QED
      BY <1>3, <2>4, <2>5
  <1> QED
    BY <1>2, <1>3

(* The cycles find the year of a day and its place in the year.              *)
LEMMA YearOfDay ==
    ASSUME NEW n \in Int
    PROVE  \E y \in Int, d \in Nat :
               /\ YearAndDay(n) \in {More(y, d), Over(y, d)}
               /\ d < 365 + LeapDay(y) /\ DaysBefore(y) + d = n
  <1> DEFINE from0 == n + 719528
             n400  == IF from0 >= 0 THEN Quot(from0, 146097) ELSE Quot(from0 - 146096, 146097)
             rest  == IF Rem(from0, 146097) < 0 THEN Rem(from0, 146097) + 146097 ELSE Rem(from0, 146097)
  <1>1. n400 \in Int /\ rest \in Nat /\ rest < 146097 /\ n + 719528 = 146097 * n400 + rest
    BY DEF Quot, Rem
  <1>2. PICK q \in Int, r \in Nat : q = n400 /\ r = rest /\ r < 146097 /\ n + 719528 = 146097 * q + r
    BY <1>1
  <1>3. PICK y0 \in Int : y0 = 400 * q
    OBVIOUS
  <1>4. PICK c100 : c100 = Cycle(More(y0, r), 366, -1, 100, 36524)
    OBVIOUS
  <1>5. PICK c4 : c4 = Cycle(c100, 365, 1, 4, 1461)
    OBVIOUS
  <1>6. PICK c1 : c1 = Cycle(c4, 366, -1, 1, 365)
    OBVIOUS
  <1>7. YearAndDay(n) = c1
    <2>1. More(y0, r) = [year |-> 400 * n400, days |-> rest, done |-> FALSE]
      BY <1>2, <1>3 DEF More
    <2> QED
      BY <2>1, <1>4, <1>5, <1>6 DEF YearAndDay
  <1> HIDE DEF n400, rest
  <1>8. PICK y \in Int, d \in Nat : c1 \in {More(y, d), Over(y, d)} /\ InYear(q, r, y, d)
    <2>1. Found(q, r, c1)
      BY <1>2, <1>3, <1>4, <1>5, <1>6, CyclesEnd
    <2> QED
      BY <2>1 DEF Found
  <1>9. PICK c \in 0..3, f \in 0..24, g \in 0..3 :
            /\ y = 400 * q + 100 * c + 4 * f + g
            /\ d \in Nat /\ d <= 365 /\ r = DaysInto(c, f, g) + d
            /\ d = 365 => g = 0 /\ (f # 0 \/ c = 0)
    BY <1>8 DEF InYear
  <1>10. DaysBefore(y) = 146097 * q + DaysInto(c, f, g) - 719528
    BY <1>9, YearOfParts
  <1>11. LeapDay(y) = IF g = 0 /\ (f # 0 \/ c = 0) THEN 1 ELSE 0
    BY <1>9, YearParts
  <1>12. DaysInto(c, f, g) \in Int
    BY DEF DaysInto
  <1>13. d < 365 + LeapDay(y) /\ DaysBefore(y) + d = n
    BY <1>2, <1>9, <1>10, <1>11, <1>12
  <1> QED
    BY <1>7, <1>8, <1>13

(* A date has the fields it is made of.                                      *)
LEMMA DateIs ==
    ASSUME NEW y \in Int, NEW m \in Int, NEW k \in Int
    PROVE  /\ Date(y, m, k) \in AnyDate
           /\ Date(y, m, k).year = y /\ Date(y, m, k).month = m /\ Date(y, m, k).day = k
  BY DEF Date, AnyDate

(* A date is its year, month and day.                                        *)
LEMMA PartsOf ==
    ASSUME NEW d \in AnyDate
    PROVE  /\ d.year \in Int /\ d.month \in Int /\ d.day \in Int
           /\ d = Date(d.year, d.month, d.day)
  BY DEF Date, AnyDate

\* Day k of month m of year y is n days after January 1, 1970.
OnDay(y, m, k, n) ==
    /\ 1 <= k /\ k <= Lengths(y)[m]
    /\ DaysBefore(y) + MonthStart(y, m) + k - 1 = n

(* Such a day is a date that is counted n.                                   *)
LEMMA ExistsOn ==
    ASSUME NEW y \in Int, NEW m \in 1..12, NEW k \in Int, NEW n, OnDay(y, m, k, n)
    PROVE  Exists(Date(y, m, k)) /\ Counted(Date(y, m, k)) = n
  <1>1. Date(y, m, k).year = y /\ Date(y, m, k).month = m /\ Date(y, m, k).day = k
    BY DateIs
  <1>2. MonthsBefore(y)[m] = MonthStart(y, m)
    BY MonthsBeforeIs
  <1>3. Lengths(y)[m] \in Nat
    BY LengthIs
  <1> QED
    BY <1>1, <1>2, <1>3 DEF OnDay, Exists, Counted

(* A date that exists is the day it is counted.                              *)
LEMMA OnItsDay ==
    ASSUME NEW d \in AnyDate, Exists(d)
    PROVE  d.month \in 1..12 /\ OnDay(d.year, d.month, d.day, Counted(d)) /\ Counted(d) \in Int
  <1>1. PICK y \in Int, m \in 1..12, k \in Int : y = d.year /\ m = d.month /\ k = d.day
    BY PartsOf DEF Exists
  <1>2. MonthsBefore(y)[m] = MonthStart(y, m)
    BY MonthsBeforeIs
  <1>3. Lengths(y)[m] \in Nat
    BY LengthIs
  <1>4. MonthStart(y, m) \in Nat
    BY StartIs
  <1>5. DaysBefore(y) \in Int
    BY DEF DaysBefore, LeapsBefore
  <1> QED
    BY <1>1, <1>2, <1>3, <1>4, <1>5 DEF OnDay, Exists, Counted

(* The search of the months ends: a day of a year falls in one of them.      *)
LEMMA MonthOfDay ==
    ASSUME NEW y \in Int, NEW d \in Nat, d < 365 + LeapDay(y)
    PROVE  \E m \in 1..12 : MonthStart(y, m) <= d /\ d < MonthStart(y, m + 1)
  <1> DEFINE s == [k \in 1..13 |-> MonthStart(y, k)]
  <1>1. \A k \in 1..13 : s[k] \in Nat
    BY StartIs
  <1>2. s[1] = 0 /\ d < s[13]
    BY FirstStart
  <1>3. ASSUME NEW m \in 1..12, s[m] <= d, d < s[m + 1]
        PROVE  \E k \in 1..12 : MonthStart(y, k) <= d /\ d < MonthStart(y, k + 1)
    <2>1. m \in 1..13 /\ m + 1 \in 1..13
      OBVIOUS
    <2>2. s[m] = MonthStart(y, m) /\ s[m + 1] = MonthStart(y, m + 1)
      BY <2>1
    <2> QED
      BY <1>3, <2>2
  <1> HIDE DEF s
  <1>4. \E m \in 1..12 : s[m] <= d /\ d < s[m + 1]
    <2>1. CASE d < s[4]
      BY <1>1, <1>2, <2>1
    <2>2. CASE s[4] <= d /\ d < s[7]
      BY <1>1, <2>2
    <2>3. CASE s[7] <= d /\ d < s[10]
      BY <1>1, <2>3
    <2>4. CASE s[10] <= d
      BY <1>1, <1>2, <2>4
    <2>5. s[4] \in Nat /\ s[7] \in Nat /\ s[10] \in Nat
      BY <1>1
    <2> QED
      BY <2>1, <2>2, <2>3, <2>4, <2>5
  <1> QED
    BY <1>3, <1>4

\* date_ymd::set_from_days, but for the narrowing of the year
LEMMA SetFromDaysIs ==
    ASSUME NEW n \in Int, n # NA
    PROVE  \E y \in Int, m \in 1..12, k \in Int :
               SetFromDays(n) = Date(Int16(y), m, k) /\ OnDay(y, m, k, n)
  <1>1. PICK y \in Int, d \in Nat :
            /\ YearAndDay(n) \in {More(y, d), Over(y, d)}
            /\ d < 365 + LeapDay(y) /\ DaysBefore(y) + d = n
    BY YearOfDay
  <1>2. YearAndDay(n).year = y /\ YearAndDay(n).days = d
    BY <1>1 DEF More, Over
  <1>3. PICK m : m = CHOOSE k \in 1..12 : MonthStart(y, k) <= d /\ d < MonthStart(y, k + 1)
    OBVIOUS
  <1>4. m \in 1..12 /\ MonthStart(y, m) <= d /\ d < MonthStart(y, m + 1)
    BY <1>1, <1>3, MonthOfDay
  <1>5. SetFromDays(n) = Date(Int16(y), m, d - MonthStart(y, m) + 1)
    BY <1>2, <1>3 DEF SetFromDays
  <1>6. PICK j \in 2..13 : j = m + 1
    BY <1>4
  <1>7. /\ MonthStart(y, m) \in Nat /\ Lengths(y)[m] \in Nat
        /\ MonthStart(y, j) = MonthStart(y, m) + Lengths(y)[m]
    BY <1>4, <1>6, StartIs, LengthIs, NextStart
  <1>8. PICK k \in Int : k = d - MonthStart(y, m) + 1
    BY <1>7
  <1>9. DaysBefore(y) \in Int
    BY DEF DaysBefore, LeapsBefore
  <1>10. OnDay(y, m, k, n)
    BY <1>1, <1>4, <1>6, <1>7, <1>8, <1>9 DEF OnDay
  <1> QED
    BY <1>4, <1>5, <1>8, <1>10

(* ---- one date for each day ---------------------------------------------*)
(* A year begins after the days of the one before it.                        *)
LEMMA NextYear ==
    ASSUME NEW y \in Int, NEW x \in Int, x = y + 1
    PROVE  /\ DaysBefore(x) = DaysBefore(y) + 365 + LeapDay(y)
           /\ DaysBefore(y) \in Int /\ DaysBefore(x) \in Int
  <1>1. PICK l \in {0, 1} : l = LeapDay(y) /\ LeapsBefore(x) - LeapsBefore(y) = l
    BY LeapDayIs, LeapsIn
  <1>2. LeapsBefore(y) \in Int /\ LeapsBefore(x) \in Int /\ LeapsBefore(1970) \in Int
    BY DEF LeapsBefore
  <1> QED
    BY <1>1, <1>2 DEF DaysBefore

(* Later years begin later.                                                  *)
LEMMA YearsRise ==
    ASSUME NEW x \in Int, NEW z \in Int, x <= z
    PROVE  DaysBefore(x) <= DaysBefore(z)
  <1>1. LeapsBefore(x) \in Int /\ LeapsBefore(z) \in Int /\ LeapsBefore(1970) \in Int
    BY DEF LeapsBefore
  <1>2. x < z => LeapsBefore(z) - LeapsBefore(x) >= -2
    BY DEF LeapsBefore
  <1> QED
    BY <1>1, <1>2 DEF DaysBefore

(* A day of a year is before the next year.                                  *)
LEMMA OnDayIn ==
    ASSUME NEW y \in Int, NEW x \in Int, x = y + 1,
           NEW m \in 1..12, NEW k \in Int, NEW n \in Int, OnDay(y, m, k, n)
    PROVE  /\ DaysBefore(y) <= n /\ n < DaysBefore(x)
           /\ DaysBefore(y) \in Int /\ DaysBefore(x) \in Int
  <1>1. PICK s \in Nat, l \in Nat, b \in Int :
            s = MonthStart(y, m) /\ l = Lengths(y)[m] /\ b = DaysBefore(y)
    <2>1. DaysBefore(y) \in Int
      BY NextYear
    <2> QED
      BY <2>1, StartIs, LengthIs
  <1>2. s + l <= 365 + LeapDay(y)
    <2>1. LeapDay(y) \in {0, 1}
      BY LeapDayIs
    <2>2. s = MonthStarts[m] + (IF m > 2 THEN LeapDay(y) ELSE 0)
      BY <1>1 DEF MonthStart
    <2>3. l = MonthLengths[m] + (IF m = 2 THEN LeapDay(y) ELSE 0)
      BY <1>1, LengthIs
    <2>4. MonthStarts[m] \in Nat /\ MonthLengths[m] \in Nat /\ MonthStarts[m] + MonthLengths[m] <= 365
      BY DEF MonthStarts, MonthLengths
    <2> QED
      BY <2>1, <2>2, <2>3, <2>4
  <1>3. DaysBefore(x) = b + 365 + LeapDay(y)
    BY <1>1, NextYear
  <1>4. LeapDay(y) \in {0, 1}
    BY LeapDayIs
  <1> QED
    BY <1>1, <1>2, <1>3, <1>4 DEF OnDay

(* Later months begin later.                                                 *)
LEMMA MonthsRise ==
    ASSUME NEW y, NEW c \in 1..13, NEW j \in 1..12, c <= j
    PROVE  MonthStart(y, c) <= MonthStart(y, j)
  <1>1. LeapDay(y) \in {0, 1}
    BY LeapDayIs
  <1>2. /\ MonthStart(y, c) = MonthStarts[c] + (IF c > 2 THEN LeapDay(y) ELSE 0)
        /\ MonthStart(y, j) = MonthStarts[j] + (IF j > 2 THEN LeapDay(y) ELSE 0)
    BY DEF MonthStart
  <1>3. MonthStarts[c] \in Nat /\ MonthStarts[j] \in Nat /\ MonthStarts[c] <= MonthStarts[j]
    BY DEF MonthStarts
  <1> QED
    BY <1>1, <1>2, <1>3

(* A day does not fall into two years.                                       *)
LEMMA NoEarlierYear ==
    ASSUME NEW n \in Int,
           NEW y \in Int, NEW m \in 1..12, NEW k \in Int, OnDay(y, m, k, n),
           NEW z \in Int, NEW j \in 1..12, NEW i \in Int, OnDay(z, j, i, n)
    PROVE  ~(y < z)
  <1>1. PICK x \in Int : x = y + 1
    OBVIOUS
  <1>2. n < DaysBefore(x) /\ DaysBefore(x) \in Int
    BY <1>1, OnDayIn, Zenon
  <1>3. PICK w \in Int : w = z + 1
    OBVIOUS
  <1>4. DaysBefore(z) <= n /\ DaysBefore(z) \in Int
    BY <1>3, OnDayIn, Zenon
  <1>5. ASSUME y < z PROVE DaysBefore(x) <= DaysBefore(z)
    <2>1. x <= z
      BY <1>1, <1>5
    <2> QED
      BY <2>1, YearsRise
  <1> QED
    BY <1>2, <1>4, <1>5

(* A day does not fall into two months of a year.                            *)
LEMMA NoEarlierMonth ==
    ASSUME NEW n \in Int, NEW y \in Int,
           NEW m \in 1..12, NEW k \in Int, OnDay(y, m, k, n),
           NEW j \in 1..12, NEW i \in Int, OnDay(y, j, i, n)
    PROVE  ~(m < j)
  <1>1. SUFFICES ASSUME m < j PROVE FALSE
    OBVIOUS
  <1>2. PICK c \in 2..13 : c = m + 1 /\ c <= j
    BY <1>1
  <1>3. MonthStart(y, c) = MonthStart(y, m) + Lengths(y)[m]
    BY <1>2, NextStart
  <1>4. MonthStart(y, m) \in Nat /\ MonthStart(y, j) \in Nat /\ Lengths(y)[m] \in Nat
    BY StartIs, LengthIs
  <1>5. MonthStart(y, c) <= MonthStart(y, j)
    BY <1>2, MonthsRise
  <1>6. DaysBefore(y) \in Int
    <2>1. PICK x \in Int : x = y + 1
      OBVIOUS
    <2> QED
      BY <2>1, NextYear
  <1> QED
    BY <1>3, <1>4, <1>5, <1>6 DEF OnDay

(* A day has one date.                                                       *)
LEMMA OneDate ==
    ASSUME NEW n \in Int,
           NEW y \in Int, NEW m \in 1..12, NEW k \in Int, OnDay(y, m, k, n),
           NEW z \in Int, NEW j \in 1..12, NEW i \in Int, OnDay(z, j, i, n)
    PROVE  y = z /\ m = j /\ k = i
  <1>1. ~(y < z) /\ ~(z < y)
    BY NoEarlierYear, Zenon
  <1>2. y = z
    BY <1>1
  <1>3. OnDay(y, j, i, n)
    BY <1>2
  <1>4. ~(m < j) /\ ~(j < m)
    BY <1>3, NoEarlierMonth, Zenon
  <1>5. m = j
    BY <1>4
  <1>6. MonthStart(y, m) \in Nat
    BY StartIs
  <1>7. DaysBefore(y) \in Int
    <2>1. PICK x \in Int : x = y + 1
      OBVIOUS
    <2> QED
      BY <2>1, NextYear
  <1>8. k = i
    BY <1>3, <1>5, <1>6, <1>7 DEF OnDay
  <1> QED
    BY <1>2, <1>5, <1>8

(* The interval, as two comparisons.                                         *)
LEMMA InYearsIs ==
    ASSUME NEW n
    PROVE  n \in InYears <=> n \in Int /\ DaysBefore(-32768) <= n /\ n < DaysBefore(32768)
  <1>1. DaysBefore(-32768) \in Int /\ DaysBefore(32768) \in Int
    BY DEF DaysBefore, LeapsBefore
  <1> QED
    BY <1>1 DEF InYears

(* The year of such a day is kept by the 16 bits of date_ymd::year.          *)
LEMMA YearFits ==
    ASSUME NEW n \in InYears, NEW y \in Int, NEW m \in 1..12, NEW k \in Int, OnDay(y, m, k, n)
    PROVE  n \in Int /\ Int16(y) = y
  <1>1. n \in Int /\ DaysBefore(-32768) <= n /\ n < DaysBefore(32768)
    BY InYearsIs
  <1>2. PICK x \in Int : x = y + 1
    OBVIOUS
  <1>3. /\ DaysBefore(y) <= n /\ n < DaysBefore(x)
        /\ DaysBefore(y) \in Int /\ DaysBefore(x) \in Int
    <2>1. n \in Int
      BY <1>1
    <2> QED
      BY <1>2, <2>1, OnDayIn, Zenon
  <1>4. ~(y < -32768)
    <2>1. PICK z \in Int : z = -32768 /\ DaysBefore(z) <= n
      BY <1>1
    <2>2. DaysBefore(z) \in Int
      BY DEF DaysBefore, LeapsBefore
    <2>3. x <= z => DaysBefore(x) <= DaysBefore(z)
      BY YearsRise
    <2> QED
      BY <1>1, <1>2, <1>3, <2>1, <2>2, <2>3
  <1>5. ~(32767 < y)
    <2>1. PICK z \in Int : z = 32768 /\ n < DaysBefore(z)
      BY <1>1
    <2>2. DaysBefore(z) \in Int
      BY DEF DaysBefore, LeapsBefore
    <2>3. z <= y => DaysBefore(z) <= DaysBefore(y)
      BY YearsRise
    <2> QED
      BY <1>1, <1>3, <2>1, <2>2, <2>3
  <1> QED
    BY <1>1, <1>4, <1>5 DEF Int16

(* Every day in the years of 16 bits is a date that exists, and is counted.  *)
LEMMA DayIsDate ==
    ASSUME NEW n \in InYears, n # NA
    PROVE  /\ SetFromDays(n) \in AnyDate
           /\ Exists(SetFromDays(n)) /\ Counted(SetFromDays(n)) = n /\ n \in Int
  <1>1. n \in Int
    BY InYearsIs
  <1>2. PICK y \in Int, m \in 1..12, k \in Int :
            SetFromDays(n) = Date(Int16(y), m, k) /\ OnDay(y, m, k, n)
    BY <1>1, SetFromDaysIs
  <1>3. Int16(y) = y
    BY <1>2, YearFits
  <1>4. Exists(Date(y, m, k)) /\ Counted(Date(y, m, k)) = n
    BY <1>2, ExistsOn
  <1>5. Date(y, m, k) \in AnyDate
    BY DateIs
  <1> QED
    BY <1>1, <1>2, <1>3, <1>4, <1>5

(* A date that exists is read back from its count.                           *)
LEMMA DateFromDay ==
    ASSUME NEW d \in AnyDate, Exists(d), Counted(d) \in InYears, Counted(d) # NA
    PROVE  SetFromDays(Counted(d)) = d
  <1>1. PICK n \in InYears : n = Counted(d) /\ n # NA
    OBVIOUS
  <1>2. PICK e \in AnyDate : e = SetFromDays(n) /\ Exists(e) /\ Counted(e) = n /\ n \in Int
    BY <1>1, DayIsDate
  <1>3. /\ d.month \in 1..12 /\ OnDay(d.year, d.month, d.day, n)
        /\ e.month \in 1..12 /\ OnDay(e.year, e.month, e.day, n)
    BY <1>1, <1>2, OnItsDay
  <1>4. d.year \in Int /\ d.day \in Int /\ e.year \in Int /\ e.day \in Int
    BY PartsOf
  <1>5. d.year = e.year /\ d.month = e.month /\ d.day = e.day
    <2>1. PICK y \in Int, m \in 1..12, k \in Int :
              y = d.year /\ m = d.month /\ k = d.day /\ OnDay(y, m, k, n)
      BY <1>3, <1>4
    <2>2. PICK z \in Int, j \in 1..12, i \in Int :
              z = e.year /\ j = e.month /\ i = e.day /\ OnDay(z, j, i, n)
      BY <1>3, <1>4
    <2>3. OnDay(y, m, k, n) /\ OnDay(z, j, i, n) /\ n \in Int
      BY <1>2, <2>1, <2>2
    <2>4. y = z /\ m = j /\ k = i
      BY <2>3, OneDate, Zenon
    <2> QED
      BY <2>1, <2>2, <2>4
  <1>6. d = e
    BY <1>5, PartsOf
  <1> QED
    BY <1>1, <1>2, <1>6

(* ---- quotients and remainders ------------------------------------------*)
(* A quotient rounded down and a remainder make up the dividend.             *)
LEMMA DivMod ==
    ASSUME NEW a \in Int, NEW b \in Int, b > 0
    PROVE  \E q \in Int, r \in Nat : q = a \div b /\ r = a % b /\ r < b /\ a = b * q + r
  <1>1. a = b * (a \div b) + (a % b)
    OBVIOUS
  <1>2. a \div b \in Int /\ a % b \in Nat /\ a % b < b
    OBVIOUS
  <1> QED
    BY <1>1, <1>2

(* A multiple is as large as what is multiplied.                             *)
LEMMA OnceAtLeast ==
    ASSUME NEW b \in Int, b > 0, NEW q \in Int, q >= 1
    PROVE  b * q >= b
  OBVIOUS

(* The quotient and the remainder are the only ones.                         *)
LEMMA DivUnique ==
    ASSUME NEW b \in Int, b > 0, NEW q \in Int, NEW r \in Nat, r < b, NEW a \in Int, a = b * q + r
    PROVE  a \div b = q /\ a % b = r
  <1>1. PICK p \in Int, s \in Nat : p = a \div b /\ s = a % b /\ s < b /\ a = b * p + s
    BY DivMod
  <1>2. PICK u \in Int : u = p - q
    OBVIOUS
  <1>3. b * u = r - s /\ b * (-u) = s - r
    BY <1>1, <1>2
  <1>4. ~(u >= 1) /\ ~(-u >= 1)
    <2>1. u >= 1 => b * u >= b
      BY OnceAtLeast
    <2>2. -u >= 1 => b * (-u) >= b
      BY OnceAtLeast
    <2> QED
      BY <1>1, <1>3, <2>1, <2>2
  <1>5. u = 0
    BY <1>4
  <1> QED
    BY <1>1, <1>2, <1>5

\* A quotient rounded toward zero, adjusted as the code does, is rounded down.
LEMMA QuotDown ==
    ASSUME NEW a \in Int, NEW b \in Int, b > 0
    PROVE  /\ a < 0 => Quot(a - (b - 1), b) = a \div b
           /\ a >= 0 => Quot(a, b) = a \div b
  <1>1. PICK q \in Int, r \in Nat : q = a \div b /\ r = a % b /\ r < b /\ a = b * q + r
    BY DivMod
  <1>2. ASSUME a < 0 PROVE Quot(a - (b - 1), b) = q
    <2>1. PICK c \in Int, p \in Int, s \in Nat : c = -(a - (b - 1)) /\ p = -q /\ s = b - 1 - r /\ s < b
      BY <1>1
    <2>2. c = b * p + s
      BY <1>1, <2>1
    <2>3. c \div b = p
      BY <2>1, <2>2, DivUnique
    <2>4. a - (b - 1) < 0
      BY <1>2
    <2> QED
      BY <2>1, <2>3, <2>4 DEF Quot
  <1> QED
    BY <1>1, <1>2 DEF Quot

(* The division of the adapter kernels rounds down.                          *)
LEMMA FloorDivIs ==
    ASSUME NEW a \in Int, NEW b \in Int, b > 0
    PROVE  FloorDiv(a, b) = a \div b
  <1>1. CASE a < 0
    <2>1. FloorDiv(a, b) = Quot(a - (b - 1), b)
      BY <1>1 DEF FloorDiv
    <2>2. Quot(a - (b - 1), b) = a \div b
      BY <1>1, QuotDown, Zenon
    <2> QED
      BY <2>1, <2>2
  <1>2. CASE a >= 0
    BY <1>2, QuotDown DEF FloorDiv
  <1> QED
    BY <1>1, <1>2

(* The remainder that the datetime properties take is never negative.        *)
LEMMA WithinSpanIs ==
    ASSUME NEW a \in Int, NEW b \in Int, b > 0
    PROVE  WithinSpan(a, b) = a % b
  <1>1. PICK q \in Int, r \in Nat : q = a \div b /\ r = a % b /\ r < b /\ a = b * q + r
    BY DivMod
  <1>2. CASE a >= 0
    <2>1. Rem(a, b) = r
      BY <1>1, <1>2 DEF Rem, Quot
    <2> QED
      BY <1>1, <2>1 DEF WithinSpan
  <1>3. CASE a < 0
    <2>1. PICK c \in Int : c = -a
      OBVIOUS
    <2>2. PICK p \in Int, s \in Nat : p = c \div b /\ s = c % b /\ s < b /\ c = b * p + s
      BY <2>1, DivMod
    <2>3. Quot(a, b) = -p
      BY <1>3, <2>1, <2>2 DEF Quot
    <2>4. Rem(a, b) = -s
      BY <2>1, <2>2, <2>3 DEF Rem
    <2>5. CASE s = 0
      <3>1. a = b * (-p) + 0
        BY <2>1, <2>2, <2>5
      <3>2. a % b = 0
        BY <3>1, DivUnique
      <3> QED
        BY <2>4, <2>5, <3>2 DEF WithinSpan
    <2>6. CASE s > 0
      <3>1. PICK u \in Int, v \in Nat : u = -p - 1 /\ v = b - s /\ v < b
        BY <2>2, <2>6
      <3>2. a = b * u + v
        BY <2>1, <2>2, <3>1
      <3>3. a % b = v
        <4>1. v < b
          BY <3>1
        <4> QED
          BY <3>2, <4>1, DivUnique
      <3> QED
        BY <2>4, <2>6, <3>1, <3>3 DEF WithinSpan
    <2> QED
      BY <2>5, <2>6
  <1> QED
    BY <1>2, <1>3

\* Dividing by a multiple of b
LEMMA DivScaled ==
    ASSUME NEW b \in Int, b > 0, NEW c \in Int, c > 0,
           NEW q \in Int, NEW r \in Nat, r < b, NEW a \in Int, a = b * q + r,
           NEW e \in Int, e = c * b
    PROVE  a \div e = q \div c /\ a % e = b * (q % c) + r
  <1>1. PICK u \in Int, v \in Nat : u = q \div c /\ v = q % c /\ v < c /\ q = c * u + v
    BY DivMod
  <1>2. e > 0
    OBVIOUS
  <1>3. PICK w \in Nat : w = b * v + r
    OBVIOUS
  <1>4. w < e
    <2>1. PICK x \in Int : x = c - v /\ x >= 1
      BY <1>1
    <2>2. b * x >= b
      BY <2>1, OnceAtLeast
    <2>3. e = b * v + b * x
      BY <2>1
    <2> QED
      BY <1>3, <2>2, <2>3
  <1>5. a = e * u + w
    <2>1. b * q = b * (c * u) + b * v
      BY <1>1
    <2>2. b * (c * u) = e * u
      OBVIOUS
    <2> QED
      BY <1>3, <2>1, <2>2
  <1>6. a \div e = u /\ a % e = w
    BY <1>2, <1>4, <1>5, DivUnique
  <1> QED
    BY <1>1, <1>3, <1>6

(* ---- ticks -------------------------------------------------------------*)
(* The spans of time, in ticks and as multiples of a second.                 *)
LEMMA Spans ==
    /\ PerSecond \in Int /\ PerSecond > 0
    /\ PerMinute \in Int /\ PerMinute = 60 * PerSecond /\ PerMinute > 0
    /\ PerHour \in Int /\ PerHour = 3600 * PerSecond /\ PerHour > 0
    /\ PerDay \in Int /\ PerDay = 86400 * PerSecond /\ PerDay > 0
  <1>1. PerSecond \in Int /\ PerSecond > 0
    BY TickDigitsAssumption DEF PerSecond
  <1> QED
    BY <1>1 DEF PerMinute, PerHour, PerDay

\* Times as they are given, that may not be on any clock
AnyTime == [hour : Int, minute : Int, second : Int, tick : Int]

(* A time has the fields it is made of.                                      *)
LEMMA TimeIs ==
    ASSUME NEW h \in Int, NEW m \in Int, NEW s \in Int, NEW k \in Int
    PROVE  /\ Time(h, m, s, k) \in AnyTime
           /\ Time(h, m, s, k).hour = h /\ Time(h, m, s, k).minute = m
           /\ Time(h, m, s, k).second = s /\ Time(h, m, s, k).tick = k
  BY DEF Time, AnyTime

(* A time is its hour, minute, second and tick.                              *)
LEMMA TimeParts ==
    ASSUME NEW t \in AnyTime
    PROVE  /\ t.hour \in Int /\ t.minute \in Int /\ t.second \in Int /\ t.tick \in Int
           /\ t = Time(t.hour, t.minute, t.second, t.tick)
  BY DEF Time, AnyTime

(* Ticks split by the spans the properties divide by.                        *)
LEMMA Wholes ==
    ASSUME NEW q \in Int, NEW r \in Nat, r < PerSecond, NEW n \in Int, n = PerSecond * q + r
    PROVE  /\ n \div PerSecond = q /\ n % PerSecond = r
           /\ n \div PerMinute = q \div 60 /\ n % PerMinute = PerSecond * (q % 60) + r
           /\ n \div PerHour = q \div 3600 /\ n % PerHour = PerSecond * (q % 3600) + r
           /\ n \div PerDay = q \div 86400 /\ n % PerDay = PerSecond * (q % 86400) + r
  <1>1. n \div PerSecond = q /\ n % PerSecond = r
    BY Spans, DivUnique
  <1>2. n \div PerMinute = q \div 60 /\ n % PerMinute = PerSecond * (q % 60) + r
    BY Spans, DivScaled
  <1>3. n \div PerHour = q \div 3600 /\ n % PerHour = PerSecond * (q % 3600) + r
    BY Spans, DivScaled
  <1>4. n \div PerDay = q \div 86400 /\ n % PerDay = PerSecond * (q % 86400) + r
    BY Spans, DivScaled
  <1> QED
    BY <1>1, <1>2, <1>3, <1>4

(* Ticks compare as their seconds do.                                        *)
LEMMA Smaller ==
    ASSUME NEW b \in Int, b > 0, NEW x \in Int, NEW y \in Int, NEW r \in Nat, r < b
    PROVE  /\ b * x + r < b * y <=> x < y
           /\ b * x + r < 0 <=> x < 0
  <1>1. ASSUME x < y PROVE b * x + r < b * y
    <2>1. PICK u \in Int : u = y - x /\ u >= 1
      BY <1>1
    <2>2. b * u >= b
      BY <2>1, OnceAtLeast
    <2>3. b * y = b * x + b * u
      BY <2>1
    <2> QED
      BY <2>2, <2>3
  <1>2. ASSUME ~(x < y) PROVE ~(b * x + r < b * y)
    <2>1. PICK u \in Nat : u = x - y
      BY <1>2
    <2>2. b * u >= 0
      OBVIOUS
    <2>3. b * x = b * y + b * u
      BY <2>1
    <2> QED
      BY <2>2, <2>3
  <1>3. b * x + r < 0 <=> x < 0
    <2>1. ASSUME x < 0 PROVE b * x + r < 0
      <3>1. PICK u \in Int : u = -x /\ u >= 1
        BY <2>1
      <3>2. b * u >= b
        BY <3>1, OnceAtLeast
      <3>3. b * x = -(b * u)
        BY <3>1
      <3> QED
        BY <3>2, <3>3
    <2>2. ASSUME x >= 0 PROVE b * x + r >= 0
      BY <2>2
    <2> QED
      BY <2>1, <2>2
  <1> QED
    BY <1>1, <1>2, <1>3

\* time_hmst::set_from_ticks, of q seconds and r ticks
LEMMA FromTicksIs ==
    ASSUME NEW q \in Int, NEW r \in Nat, r < PerSecond, NEW n \in Int, n = PerSecond * q + r
    PROVE  SetFromTicks(n) = IF q < 0 \/ q >= 86400 THEN TimeNA
                             ELSE Time((q \div 60) \div 60, (q \div 60) % 60, q % 60, r)
  <1>1. n \div PerSecond = q /\ n % PerSecond = r
    BY Wholes
  <1>2. n < 0 <=> q < 0
    BY Spans, Smaller
  <1>3. n >= PerDay <=> q >= 86400
    <2>1. PICK y \in Int : y = 86400
      OBVIOUS
    <2>2. n < PerSecond * y <=> q < y
      BY Spans, Smaller
    <2>3. PerSecond * y = PerDay
      BY <2>1, Spans
    <2> QED
      BY <2>1, <2>2, <2>3, Spans
  <1> QED
    BY <1>1, <1>2, <1>3 DEF SetFromTicks

\* time_hmst::to_ticks
LEMMA ToTicksIs ==
    ASSUME NEW t \in AnyTime, IsValidTime(t)
    PROVE  /\ ToTicks(t) = PerSecond * (3600 * t.hour + 60 * t.minute + t.second) + t.tick
           /\ t.tick \in Nat /\ t.tick < PerSecond /\ ToTicks(t) \in Int
           /\ t.hour \in Int /\ 0 <= t.hour /\ t.hour <= 23
           /\ t.minute \in Int /\ 0 <= t.minute /\ t.minute <= 59
           /\ t.second \in Int /\ 0 <= t.second /\ t.second <= 60
  <1>1. PICK h \in Int, m \in Int, s \in Int, k \in Int :
            h = t.hour /\ m = t.minute /\ s = t.second /\ k = t.tick
    BY TimeParts
  <1>2. /\ h >= 0 /\ h <= 23 /\ m >= 0 /\ m <= 59 /\ s >= 0 /\ s <= 60 /\ k >= 0 /\ k < PerSecond
    BY <1>1, Spans DEF IsValidTime
  <1>3. ToTicks(t) = k + s * PerSecond + m * PerMinute + h * PerHour
    BY <1>1 DEF ToTicks
  <1>4. /\ m * PerMinute = PerSecond * (60 * m) /\ h * PerHour = PerSecond * (3600 * h)
        /\ s * PerSecond = PerSecond * s
    BY Spans
  <1>5. PerSecond * (3600 * h + 60 * m + s) = PerSecond * (3600 * h) + PerSecond * (60 * m) + PerSecond * s
    BY Spans
  <1>6. ToTicks(t) = PerSecond * (3600 * h + 60 * m + s) + k
    <2>1. PerSecond * (60 * m) \in Int /\ PerSecond * (3600 * h) \in Int /\ PerSecond * s \in Int
      BY Spans
    <2> QED
      BY <1>3, <1>4, <1>5, <2>1
  <1>7. ToTicks(t) \in Int
    BY <1>6, Spans
  <1> QED
    BY <1>1, <1>2, <1>6, <1>7

(* Seconds split into hours, minutes and seconds.                            *)
LEMMA SecondsSplit ==
    ASSUME NEW h \in Int, NEW m \in Int, NEW s \in Int, NEW q \in Int,
           0 <= m, m <= 59, 0 <= s, s <= 59, q = 3600 * h + 60 * m + s
    PROVE  /\ (q \div 60) \div 60 = h /\ (q \div 60) % 60 = m /\ q % 60 = s
           /\ q \div 86400 = h \div 24
           /\ (q % 86400) \div 3600 = h % 24 /\ (q % 3600) \div 60 = m
  <1>1. PICK p \in Int : p = 60 * h + m
    OBVIOUS
  <1>2. q \div 60 = p /\ q % 60 = s
    BY <1>1
  <1>3. p \div 60 = h /\ p % 60 = m
    BY <1>1
  <1>4. PICK d \in Int, g \in Int : d = h \div 24 /\ g = h % 24 /\ h = 24 * d + g /\ 0 <= g /\ g <= 23
    OBVIOUS
  <1>5. PICK v \in Int : v = 3600 * g + 60 * m + s /\ 0 <= v /\ v < 86400 /\ q = 86400 * d + v
    BY <1>4
  <1>6. q \div 86400 = d /\ q % 86400 = v
    BY <1>5
  <1>7. v \div 3600 = g
    BY <1>4, <1>5
  <1>8. PICK w \in Int : w = 60 * m + s /\ 0 <= w /\ w < 3600 /\ q = 3600 * h + w
    OBVIOUS
  <1>9. q % 3600 = w /\ w \div 60 = m
    BY <1>8
  <1> QED
    BY <1>2, <1>3, <1>4, <1>6, <1>7, <1>9

(* A time is read back from its ticks, a leap second as the next minute.     *)
LEMMA ClockRead ==
    ASSUME NEW t \in AnyTime, IsValidTime(t)
    PROVE  SetFromTicks(ToTicks(t)) = OneLater(t)
  <1>1. PICK h \in Int, m \in Int, s \in Int, k \in Int :
            h = t.hour /\ m = t.minute /\ s = t.second /\ k = t.tick /\ t = Time(h, m, s, k)
    BY TimeParts
  <1>2. /\ k \in Nat /\ k < PerSecond
        /\ 0 <= h /\ h <= 23 /\ 0 <= m /\ m <= 59 /\ 0 <= s /\ s <= 60
        /\ ToTicks(t) = PerSecond * (3600 * h + 60 * m + s) + k /\ ToTicks(t) \in Int
    BY <1>1, ToTicksIs
  <1>3. PICK q \in Int, n \in Int : q = 3600 * h + 60 * m + s /\ n = ToTicks(t) /\ n = PerSecond * q + k
    BY <1>2
  <1>4. SetFromTicks(n) = IF q < 0 \/ q >= 86400 THEN TimeNA
                          ELSE Time((q \div 60) \div 60, (q \div 60) % 60, q % 60, k)
    BY <1>2, <1>3, FromTicksIs
  <1>5. ASSUME NEW a \in Int, NEW b \in Int, NEW c \in Int, 0 <= b, b <= 59, 0 <= c, c <= 59,
               0 <= a, a <= 23, q = 3600 * a + 60 * b + c
        PROVE  SetFromTicks(n) = Time(a, b, c, k)
    <2>1. (q \div 60) \div 60 = a /\ (q \div 60) % 60 = b /\ q % 60 = c
      BY <1>5, SecondsSplit
    <2>2. ~(q < 0 \/ q >= 86400)
      BY <1>5
    <2> QED
      BY <1>4, <2>1, <2>2
  <1>10. OneLater(t) = IF s < 60 THEN t
                       ELSE IF m < 59 THEN Time(h, m + 1, 0, k)
                       ELSE IF h < 23 THEN Time(h + 1, 0, 0, k)
                       ELSE TimeNA
    BY <1>1 DEF OneLater
  <1>11. t = Time(h, m, s, k)
    BY <1>1
  <1>12. n = ToTicks(t)
    BY <1>3
  <1>6. CASE s < 60
    <2>1. SetFromTicks(n) = Time(h, m, s, k)
      BY <1>2, <1>3, <1>5, <1>6
    <2> QED
      BY <1>6, <1>10, <1>11, <1>12, <2>1, Zenon
  <1>7. CASE s = 60 /\ m < 59
    <2>1. PICK b \in Int : b = m + 1
      OBVIOUS
    <2>2. 0 <= b /\ b <= 59 /\ q = 3600 * h + 60 * b + 0
      BY <1>2, <1>3, <1>7, <2>1
    <2>3. SetFromTicks(n) = Time(h, b, 0, k)
      BY <1>2, <1>5, <2>2
    <2>4. ~(s < 60) /\ m < 59
      BY <1>7
    <2> QED
      BY <1>10, <1>12, <2>1, <2>3, <2>4, Zenon
  <1>8. CASE s = 60 /\ m = 59 /\ h < 23
    <2>1. PICK a \in Int : a = h + 1
      OBVIOUS
    <2>2. 0 <= a /\ a <= 23 /\ q = 3600 * a + 60 * 0 + 0
      BY <1>2, <1>3, <1>8, <2>1
    <2>3. SetFromTicks(n) = Time(a, 0, 0, k)
      BY <1>5, <2>2
    <2>4. ~(s < 60) /\ ~(m < 59) /\ h < 23
      BY <1>8
    <2> QED
      BY <1>10, <1>12, <2>1, <2>3, <2>4, Zenon
  <1>9. CASE s = 60 /\ m = 59 /\ h = 23
    <2>1. q >= 86400
      BY <1>3, <1>9
    <2> QED
      BY <1>1, <1>3, <1>4, <1>9, <1>10, <2>1
  <1> QED
    BY <1>2, <1>6, <1>7, <1>8, <1>9

(* The clock call: ClocksCounted, of the time given.                         *)
LEMMA ClocksRight ==
    ASSUME NEW t \in AnyTime, NEW check \in BOOLEAN
    PROVE  IF IsValidTime(t) THEN SetFromTicks(SetTime(t, check).ticks) = OneLater(t)
           ELSE SetTime(t, check) = IF check THEN Invalid ELSE [ticks |-> NA]
  <1>1. CASE IsValidTime(t)
    <2>1. SetTime(t, check) = [ticks |-> ToTicks(t)]
      BY <1>1 DEF SetTime
    <2> QED
      BY <1>1, <2>1, ClockRead
  <1>2. CASE ~IsValidTime(t)
    BY <1>2 DEF SetTime, ToTicks
  <1> QED
    BY <1>1, <1>2

(* ---- days, dates and their fields --------------------------------------*)
(* January 1, 1970 was a Thursday.                                           *)
LEMMA WeekdayIs == ASSUME NEW n \in Int PROVE Weekday(n) = (n + 3) % 7
  BY DEF Weekday, Rem, Quot

(* set_from_days gives numbers, of NA too.                                   *)
LEMMA AnyDay ==
    ASSUME NEW n \in Int
    PROVE  SetFromDays(n) \in AnyDate
  <1>1. CASE n = NA
    <2>1. DateNA \in AnyDate
      BY DateIs DEF DateNA
    <2> QED
      BY <1>1, <2>1 DEF SetFromDays
  <1>2. CASE n # NA
    <2>1. PICK y \in Int, m \in 1..12, k \in Int : SetFromDays(n) = Date(Int16(y), m, k)
      BY <1>2, SetFromDaysIs
    <2>2. Int16(y) \in Int
      BY DEF Int16
    <2> QED
      BY <2>1, <2>2, DateIs
  <1> QED
    BY <1>1, <1>2

(* What is computed of a day: its date, weekday and place in the year.       *)
LEMMA DayRight ==
    ASSUME NEW n \in InYears, n # NA, NEW d, d = SetFromDays(n)
    PROVE  /\ Exists(d) /\ Counted(d) = n
           /\ Weekday(ToDays(d)) = (n + 3) % 7
           /\ DayOfYear(d) = n - DaysBefore(d.year)
  <1>1. d \in AnyDate /\ Exists(d) /\ Counted(d) = n /\ n \in Int
    BY DayIsDate
  <1>2. ToDays(d) = n /\ IsValidDate(d)
    BY <1>1, ToDaysIs, ExistsIs
  <1>3. Weekday(ToDays(d)) = (n + 3) % 7
    BY <1>1, <1>2, WeekdayIs
  <1>4. PICK y \in Int, m \in 1..12, k \in Int :
            y = d.year /\ m = d.month /\ k = d.day /\ OnDay(y, m, k, n)
    BY <1>1, OnItsDay, PartsOf
  <1>5. MonthStart(y, m) \in Nat /\ DaysBefore(y) \in Int
    BY StartIs DEF DaysBefore, LeapsBefore
  <1>6. DayOfYear(d) = MonthStart(y, m) + k - 1
    BY <1>2, <1>4 DEF DayOfYear
  <1>7. DaysBefore(y) + MonthStart(y, m) + k - 1 = n
    BY <1>4 DEF OnDay
  <1>8. DayOfYear(d) = n - DaysBefore(d.year)
    BY <1>1, <1>4, <1>5, <1>6, <1>7
  <1> QED
    BY <1>1, <1>3, <1>8

(* What is computed of a date: its days, NA or an exception.                 *)
LEMMA CountRight ==
    ASSUME NEW d \in AnyDate, NEW check \in BOOLEAN
    PROVE  SetYmd(d, check) = IF Exists(d) THEN [days |-> Counted(d)]
                              ELSE IF check THEN Invalid ELSE [days |-> NA]
  BY ExistsIs, ToDaysIs DEF SetYmd

\* A field of the code's: the old one, or one given, from the end or not
Field(field, old, n) == IF field = Same THEN old ELSE FromEnd(field, n)

(* Both agree on the fields there are.                                       *)
LEMMA FieldIs ==
    ASSUME NEW field \in Int, NEW old \in Int, NEW n \in Nat
    PROVE  /\ Field(field, old, n) \in Int /\ Given(field, old, n) \in Int
           /\ field = Same => Field(field, old, n) = old /\ Given(field, old, n) = old
           /\ field # Same =>
                  /\ Field(field, old, n) = FromEnd(field, n)
                  /\ Field(field, old, n) \in 1..n <=> Given(field, old, n) \in 1..n
                  /\ Given(field, old, n) \in 1..n => Field(field, old, n) = Given(field, old, n)
  <1>1. CASE field = Same
    BY <1>1 DEF Field, Given
  <1>2. CASE field # Same
    <2>1. Field(field, old, n) = FromEnd(field, n)
      BY <1>2 DEF Field
    <2>2. Given(field, old, n) = IF field < 0 THEN n + 1 + field ELSE field
      BY <1>2 DEF Given
    <2> QED
      BY <1>2, <2>1, <2>2 DEF FromEnd
  <1> QED
    BY <1>1, <1>2

(* The code's length of a month that may not be one is the calendar's.       *)
LEMMA DaysInIs ==
    ASSUME NEW y \in Int, NEW m \in Int
    PROVE  MonthLength(y, m) = DaysIn(y, m) /\ DaysIn(y, m) \in Nat
  <1>1. CASE m \in 1..12
    BY <1>1, LengthIs DEF DaysIn
  <1>2. CASE m \notin 1..12
    BY <1>2 DEF MonthLength, DaysIn
  <1> QED
    BY <1>1, <1>2

(* Whether a date exists, is valid, and what it is counted.                  *)
LEMMA ExistsIn ==
    ASSUME NEW y \in Int, NEW m \in Int, NEW k \in Int
    PROVE  /\ Exists(Date(y, m, k)) <=> m \in 1..12 /\ k \in 1..DaysIn(y, m)
           /\ IsValidDate(Date(y, m, k)) <=> Exists(Date(y, m, k))
           /\ ToDays(Date(y, m, k)) = IF Exists(Date(y, m, k)) THEN Counted(Date(y, m, k)) ELSE NA
  <1>1. PICK d \in AnyDate : d = Date(y, m, k) /\ d.year = y /\ d.month = m /\ d.day = k
    BY DateIs
  <1>2. Exists(d) <=> m \in 1..12 /\ k \in 1..DaysIn(y, m)
    BY <1>1 DEF Exists, DaysIn
  <1> QED
    BY <1>1, <1>2, ExistsIs, ToDaysIs

(* What the code computes, of the fields it takes.                           *)
LEMMA ReplaceIs ==
    ASSUME NEW n \in Int, NEW old, old = SetFromDays(n), NEW year, NEW month, NEW day,
           NEW y, y = IF year = Same THEN old.year ELSE Int16(year),
           NEW c, c = Field(month, old.month, 12),
           NEW e, e = Field(day, old.day, MonthLength(y, c))
    PROVE  Replace(n, year, month, day) =
               IF \/ month # Same /\ c \notin 1..12
                  \/ month # Same /\ day = Same /\ ~IsValidDate(Date(y, c, e))
                  \/ day # Same /\ e \notin 1..MonthLength(y, c)
               THEN Invalid ELSE [days |-> ToDays(Date(y, c, e))]
  <1>1. PICK with : with = Date(y, c, old.day)
    OBVIOUS
  <1>2. with.year = y /\ with.month = c /\ [with EXCEPT !.day = e] = Date(y, c, e)
    BY <1>1 DEF Date
  <1>3. with = Date(IF year = Same THEN old.year ELSE Int16(year),
                    IF month = Same THEN old.month ELSE FromEnd(month, 12), old.day)
    BY <1>1 DEF Field
  <1>4. /\ day = Same => with = Date(y, c, e)
        /\ day # Same => e = FromEnd(day, MonthLength(y, c))
    BY <1>1 DEF Field
  <1> QED
    BY <1>2, <1>3, <1>4 DEF Replace

(* The date asked for, of the old date and the fields to replace.            *)
LEMMA ReplaceRight ==
    ASSUME NEW n \in Int, NEW year \in Int, NEW month \in Int, NEW day \in Int,
           Int16(year) = year \/ year = Same,
           NEW wanted, wanted = Wanted(SetFromDays(n), year, month, day)
    PROVE  Replace(n, year, month, day) =
               IF Exists(wanted) THEN [days |-> Counted(wanted)]
               ELSE IF month # Same \/ day # Same THEN Invalid ELSE [days |-> NA]
  <1>1. PICK old \in AnyDate : old = SetFromDays(n)
    BY AnyDay
  <1>2. PICK y0 \in Int, m0 \in Int, k0 \in Int : y0 = old.year /\ m0 = old.month /\ k0 = old.day
    BY PartsOf
  <1>3. PICK y \in Int : /\ y = IF year = Same THEN old.year ELSE Int16(year)
                         /\ y = IF year = Same THEN old.year ELSE year
    BY <1>2
  <1>4. PICK c \in Int : c = Field(month, m0, 12)
    BY FieldIs, Zenon
  <1>5. PICK m \in Int : m = Given(month, m0, 12)
    BY FieldIs, Zenon
  <1>6. /\ month = Same => c = m
        /\ month # Same => (c \in 1..12 <=> m \in 1..12) /\ (m \in 1..12 => c = m)
    <2>2. 12 \in Nat
      OBVIOUS
    <2>1. /\ Field(month, m0, 12) \in Int /\ Given(month, m0, 12) \in Int
          /\ month = Same => Field(month, m0, 12) = m0 /\ Given(month, m0, 12) = m0
          /\ month # Same =>
                 /\ Field(month, m0, 12) = FromEnd(month, 12)
                 /\ Field(month, m0, 12) \in 1..12 <=> Given(month, m0, 12) \in 1..12
                 /\ Given(month, m0, 12) \in 1..12 => Field(month, m0, 12) = Given(month, m0, 12)
      BY <2>2, FieldIs, Zenon
    <2> QED
      BY <1>4, <1>5, <2>1
  <1>7. PICK l \in Nat : l = MonthLength(y, c) /\ l = DaysIn(y, m)
    <2>1. DaysIn(y, m) \in Nat /\ MonthLength(y, c) = DaysIn(y, c)
      BY DaysInIs, Zenon
    <2>2. DaysIn(y, c) = DaysIn(y, m)
      BY <1>6 DEF DaysIn
    <2> QED
      BY <2>1, <2>2
  <1>8. PICK e \in Int : e = Field(day, k0, l)
    BY FieldIs, Zenon
  <1>9. PICK k \in Int : k = Given(day, k0, l)
    BY FieldIs, Zenon
  <1>10. /\ day = Same => e = k
         /\ day # Same => (e \in 1..l <=> k \in 1..l) /\ (k \in 1..l => e = k)
    <2>1. /\ Field(day, k0, l) \in Int /\ Given(day, k0, l) \in Int
          /\ day = Same => Field(day, k0, l) = k0 /\ Given(day, k0, l) = k0
          /\ day # Same =>
                 /\ Field(day, k0, l) = FromEnd(day, l)
                 /\ Field(day, k0, l) \in 1..l <=> Given(day, k0, l) \in 1..l
                 /\ Given(day, k0, l) \in 1..l => Field(day, k0, l) = Given(day, k0, l)
      BY FieldIs, Zenon
    <2> QED
      BY <1>8, <1>9, <2>1
  <1>11. wanted = Date(y, m, k)
    BY <1>1, <1>2, <1>3, <1>5, <1>7, <1>9 DEF Wanted
  <1>12. Replace(n, year, month, day) =
             IF \/ month # Same /\ c \notin 1..12
                \/ month # Same /\ day = Same /\ ~IsValidDate(Date(y, c, e))
                \/ day # Same /\ e \notin 1..l
             THEN Invalid ELSE [days |-> ToDays(Date(y, c, e))]
    BY <1>1, <1>2, <1>3, <1>4, <1>7, <1>8, ReplaceIs
  <1>13. /\ Exists(wanted) <=> m \in 1..12 /\ k \in 1..l
         /\ ToDays(wanted) = IF Exists(wanted) THEN Counted(wanted) ELSE NA
         /\ IsValidDate(wanted) <=> Exists(wanted)
    BY <1>7, <1>11, ExistsIn
  <1>14. CASE c = m /\ e = k
    <2>1. Date(y, c, e) = wanted
      BY <1>11, <1>14
    <2>2. month # Same \/ day # Same => (Exists(wanted) <=>
              ~ \/ month # Same /\ c \notin 1..12
                \/ month # Same /\ day = Same /\ ~IsValidDate(wanted)
                \/ day # Same /\ e \notin 1..l)
      <3>1. day # Same /\ m \notin 1..12 => l = 0
        BY <1>7 DEF DaysIn
      <3> QED
        BY <1>13, <1>14, <3>1
    <2> QED
      BY <1>12, <1>13, <2>1, <2>2
  <1>15. CASE c # m
    <2>1. month # Same /\ c \notin 1..12 /\ m \notin 1..12
      BY <1>6, <1>15
    <2> QED
      BY <1>12, <1>13, <2>1
  <1>16. CASE e # k
    <2>1. day # Same /\ e \notin 1..l /\ k \notin 1..l
      BY <1>10, <1>16
    <2> QED
      BY <1>12, <1>13, <2>1
  <1> QED
    BY <1>14, <1>15, <1>16

(* ---- datetimes ---------------------------------------------------------*)
(* NA is no day of the years of 16 bits.                                     *)
LEMMA InYearsNotNA == ASSUME NEW n \in InYears PROVE n \in Int /\ n # NA
  <1>1. n \in Int /\ DaysBefore(-32768) <= n
    BY InYearsIs
  <1>2. DaysBefore(-32768) \in Int /\ DaysBefore(-32768) > NA /\ NA \in Int
    BY DEF DaysBefore, LeapsBefore, NA
  <1> QED
    BY <1>1, <1>2

(* A date of a year of 16 bits is one of their days.                         *)
LEMMA CountedIn ==
    ASSUME NEW d \in AnyDate, Int16(d.year) = d.year, Exists(d)
    PROVE  Counted(d) \in InYears
  <1>1. PICK n \in Int : n = Counted(d)
    BY OnItsDay
  <1>2. PICK y \in Int, m \in 1..12, k \in Int :
            y = d.year /\ m = d.month /\ k = d.day /\ OnDay(y, m, k, n)
    BY <1>1, OnItsDay, PartsOf
  <1>3. PICK x \in Int : x = y + 1
    OBVIOUS
  <1>4. /\ DaysBefore(y) <= n /\ n < DaysBefore(x)
        /\ DaysBefore(y) \in Int /\ DaysBefore(x) \in Int
    BY <1>2, <1>3, OnDayIn, Zenon
  <1>5. -32768 <= y /\ x <= 32768
    <2>1. ((y + 32768) % 65536) - 32768 = y
      BY <1>2 DEF Int16
    <2> QED
      BY <1>3, <2>1
  <1>6. PICK a \in Int, b \in Int : a = -32768 /\ b = 32768
    OBVIOUS
  <1>7. DaysBefore(a) <= DaysBefore(y) /\ DaysBefore(x) <= DaysBefore(b)
    BY <1>5, <1>6, YearsRise
  <1>8. DaysBefore(a) \in Int /\ DaysBefore(b) \in Int
    BY DEF DaysBefore, LeapsBefore
  <1>9. DaysBefore(a) <= n /\ n < DaysBefore(b)
    BY <1>4, <1>7, <1>8
  <1> QED
    BY <1>1, <1>6, <1>9, InYearsIs

(* The days of a datetime are rounded down, before 1970 too.                 *)
LEMMA DaysOfTicksIs == ASSUME NEW n \in Int PROVE DaysOfTicks(n) = n \div PerDay
  <1>1. PICK b \in Int : b = PerDay /\ b > 0
    BY Spans
  <1>2. CASE n < 0
    <2>1. DaysOfTicks(n) = Quot(n - (b - 1), b)
      BY <1>1, <1>2 DEF DaysOfTicks
    <2>2. Quot(n - (b - 1), b) = n \div b
      BY <1>1, <1>2, QuotDown, Zenon
    <2> QED
      BY <1>1, <2>1, <2>2
  <1>3. CASE n >= 0
    BY <1>1, <1>3, QuotDown DEF DaysOfTicks
  <1> QED
    BY <1>2, <1>3

(* The remainders of a datetime by the four spans.                           *)
LEMMA WithinSpans ==
    ASSUME NEW n \in Int
    PROVE  /\ WithinSpan(n, PerSecond) = n % PerSecond /\ WithinSpan(n, PerMinute) = n % PerMinute
           /\ WithinSpan(n, PerHour) = n % PerHour /\ WithinSpan(n, PerDay) = n % PerDay
  <1>1. ASSUME NEW b \in Int, b > 0 PROVE WithinSpan(n, b) = n % b
    BY <1>1, WithinSpanIs, Zenon
  <1> QED
    BY <1>1, Spans

(* The hour is found among the ticks of a day.                               *)
LEMMA HourOf ==
    ASSUME NEW g \in Int, NEW r \in Nat, r < PerSecond
    PROVE  (PerSecond * g + r) \div PerHour = g \div 3600
  <1>1. PICK x \in Int : x = PerSecond * g + r
    BY Spans
  <1> QED
    BY <1>1, Wholes

\* q seconds are so many days, hours, minutes and seconds.
Seconds(h, m, s) == 3600 * h + 60 * m + s
OnClock(D, h, m, s, q) ==
    /\ 0 <= h /\ h <= 23 /\ 0 <= m /\ m <= 59 /\ 0 <= s /\ s <= 59
    /\ q = 86400 * D + Seconds(h, m, s)

(* The fields of a datetime, of the day and of the clock.                    *)
LEMMA FieldsAre ==
    ASSUME NEW D \in Int, NEW h \in Int, NEW m \in Int, NEW s \in Int,
           NEW q \in Int, OnClock(D, h, m, s, q), NEW r \in Nat, r < PerSecond,
           NEW n \in Int, n = PerSecond * q + r
    PROVE  /\ DatetimeFields(n) =
                  [date |-> D, time |-> PerSecond * Seconds(h, m, s) + r, ymd |-> SetFromDays(D),
                   hour |-> h, minute |-> m, second |-> s, tick |-> r]
           /\ D = DaysOfTicks(n)
  <1>1. PICK g \in Int, H \in Int :
            /\ g = Seconds(h, m, s) /\ g = 3600 * h + 60 * m + s /\ q = 86400 * D + g
            /\ H = 24 * D + h /\ q = 3600 * H + 60 * m + s
            /\ 0 <= h /\ h <= 23 /\ 0 <= m /\ m <= 59 /\ 0 <= s /\ s <= 59
    BY DEF OnClock, Seconds
  <1>3. /\ n % PerSecond = r
        /\ n % PerMinute = PerSecond * (q % 60) + r
        /\ n % PerHour = PerSecond * (q % 3600) + r
        /\ n \div PerDay = q \div 86400 /\ n % PerDay = PerSecond * (q % 86400) + r
    BY Wholes
  <1>4. q \div 86400 = D /\ q % 86400 = g
    BY <1>1
  <1>5. DaysOfTicks(n) = D
    BY <1>3, <1>4, DaysOfTicksIs
  <1>6. /\ WithinSpan(n, PerSecond) = n % PerSecond /\ WithinSpan(n, PerMinute) = n % PerMinute
        /\ WithinSpan(n, PerHour) = n % PerHour /\ WithinSpan(n, PerDay) = n % PerDay
    BY WithinSpans
  <1>7. (PerSecond * g + r) \div PerHour = h
    <2>1. g \div 3600 = h
      BY <1>1
    <2> QED
      BY <2>1, HourOf
  <1>8. (PerSecond * (q % 3600) + r) \div PerMinute = m
    <2>1. PICK w \in Int : w = q % 3600
      BY <1>1
    <2>2. w \div 60 = m
      BY <1>1, <2>1, SecondsSplit
    <2>3. PICK x \in Int : x = PerSecond * w + r
      BY Spans
    <2>4. x \div PerMinute = w \div 60
      BY <2>3, Wholes
    <2> QED
      BY <2>1, <2>2, <2>3, <2>4
  <1>9. (PerSecond * (q % 60) + r) \div PerSecond = s
    <2>1. PICK w \in Int : w = q % 60
      BY <1>1
    <2>2. w = s
      BY <1>1, <2>1, SecondsSplit
    <2>3. PICK x \in Int : x = PerSecond * w + r
      BY Spans
    <2>4. x \div PerSecond = w
      BY <2>3, Wholes
    <2> QED
      BY <2>1, <2>2, <2>3, <2>4
  <1> QED
    BY <1>1, <1>3, <1>4, <1>5, <1>6, <1>7, <1>8, <1>9 DEF DatetimeFields

(* The fields of a time, of the clock.                                       *)
LEMMA TimeFieldsAre ==
    ASSUME NEW h \in Int, NEW m \in Int, NEW s \in Int,
           NEW g \in Int, OnClock(0, h, m, s, g), NEW r \in Nat, r < PerSecond,
           NEW n \in Int, n = PerSecond * g + r
    PROVE  /\ ClockOf(TimeFields(n)) = Time(h, m, s, r)
           /\ SetFromTicks(n) = Time(h, m, s, r)
  <1>0. /\ g = 3600 * h + 60 * m + s
        /\ 0 <= h /\ h <= 23 /\ 0 <= m /\ m <= 59 /\ 0 <= s /\ s <= 59
    BY DEF OnClock, Seconds
  <1>1. /\ n \div PerSecond = g /\ n % PerSecond = r
        /\ n \div PerMinute = g \div 60 /\ n \div PerHour = g \div 3600
    BY Wholes
  <1>2. (g \div 60) \div 60 = h /\ (g \div 60) % 60 = m /\ g % 60 = s
    BY <1>0, SecondsSplit
  <1>3. n >= 0
    BY <1>0, Spans
  <1>4. Quot(n, PerHour) = h
    <2>1. g \div 3600 = h
      BY <1>0
    <2> QED
      BY <1>1, <1>3, <2>1 DEF Quot
  <1>5. Rem(Quot(n, PerMinute), 60) = m
    <2>1. Quot(n, PerMinute) = g \div 60
      BY <1>1, <1>3 DEF Quot
    <2>2. Rem(g \div 60, 60) = m
      <3>1. PICK p \in Int : p = g \div 60 /\ p >= 0 /\ p = 60 * h + m
        BY <1>0
      <3> QED
        BY <1>0, <3>1 DEF Rem, Quot
    <2> QED
      BY <2>1, <2>2
  <1>6. Rem(Quot(n, PerSecond), 60) = s
    <2>1. Quot(n, PerSecond) = g
      BY <1>1, <1>3 DEF Quot
    <2>2. Rem(g, 60) = s
      BY <1>0 DEF Rem, Quot
    <2> QED
      BY <2>1, <2>2
  <1>7. Rem(n, PerSecond) = r
    <2>1. Quot(n, PerSecond) = g
      BY <1>1, <1>3 DEF Quot
    <2> QED
      BY <2>1, Spans DEF Rem
  <1>8. SetFromTicks(n) = Time(h, m, s, r)
    <2>1. ~(g < 0 \/ g >= 86400)
      BY <1>0
    <2> QED
      BY <1>2, <2>1, FromTicksIs
  <1> QED
    BY <1>4, <1>5, <1>6, <1>7, <1>8 DEF TimeFields, ClockOf

\* An instant is so many days, hours, minutes and seconds, and ticks.
LEMMA SecondsAre ==
    ASSUME NEW q \in Int
    PROVE  \E D \in Int, h \in Int, m \in Int, s \in Int : OnClock(D, h, m, s, q)
  <1>1. PICK D \in Int, g \in Int : q = 86400 * D + g /\ 0 <= g /\ g < 86400
    <2>1. q = 86400 * (q \div 86400) + (q % 86400)
      OBVIOUS
    <2> QED
      BY <2>1
  <1>2. PICK h \in Int, w \in Int : g = 3600 * h + w /\ 0 <= w /\ w < 3600 /\ 0 <= h /\ h <= 23
    <2>1. g = 3600 * (g \div 3600) + (g % 3600)
      OBVIOUS
    <2> QED
      BY <1>1, <2>1
  <1>3. PICK m \in Int, s \in Int : w = 60 * m + s /\ 0 <= s /\ s <= 59 /\ 0 <= m /\ m <= 59
    <2>1. w = 60 * (w \div 60) + (w % 60)
      OBVIOUS
    <2> QED
      BY <1>2, <2>1
  <1>4. OnClock(D, h, m, s, q)
    BY <1>1, <1>2, <1>3 DEF OnClock, Seconds
  <1> QED
    BY <1>4

\* Seconds of a day
LEMMA SecondsIn ==
    ASSUME NEW D \in Int, NEW h \in Int, NEW m \in Int, NEW s \in Int, NEW q \in Int,
           OnClock(D, h, m, s, q)
    PROVE  /\ Seconds(h, m, s) \in Int /\ OnClock(0, h, m, s, Seconds(h, m, s))
           /\ 0 <= h /\ h <= 23 /\ 0 <= m /\ m <= 59 /\ 0 <= s /\ s <= 59
           /\ ((h * 60 + m) * 60 + s) = Seconds(h, m, s)
  BY DEF OnClock, Seconds

\* The ticks of days and of a clock
LEMMA TicksTogether ==
    ASSUME NEW D \in Int, NEW h \in Int, NEW m \in Int, NEW s \in Int, NEW q \in Int,
           OnClock(D, h, m, s, q), NEW r \in Nat
    PROVE  D * PerDay + (PerSecond * Seconds(h, m, s) + r) = PerSecond * q + r
  <1>1. PICK g \in Int : g = Seconds(h, m, s) /\ q = 86400 * D + g
    BY DEF OnClock, Seconds
  <1>2. D * PerDay = PerSecond * (86400 * D)
    BY Spans
  <1>3. PICK a \in Int, b \in Int : a = PerSecond * (86400 * D) /\ b = PerSecond * g
    BY Spans
  <1>4. PerSecond * q = a + b
    BY <1>1, <1>3, Spans
  <1> QED
    BY <1>1, <1>2, <1>3, <1>4

(* Every instant is such a day, clock and ticks.                             *)
LEMMA SecondsAndTicks ==
    ASSUME NEW n \in Int
    PROVE  \E D \in Int, h \in Int, m \in Int, s \in Int, q \in Int, r \in Nat :
               OnClock(D, h, m, s, q) /\ r < PerSecond /\ n = PerSecond * q + r
  <1>1. PICK b \in Int : b = PerSecond /\ b > 0
    BY Spans
  <1>2. PICK q \in Int, r \in Nat : q = n \div b /\ r = n % b /\ r < b /\ n = b * q + r
    BY <1>1, DivMod
  <1>3. PICK D \in Int, h \in Int, m \in Int, s \in Int : OnClock(D, h, m, s, q)
    BY SecondsAre, Zenon
  <1> QED
    BY <1>1, <1>2, <1>3

(* The fields of every instant are those of its date and its clock.          *)
LEMMA InstantRight ==
    ASSUME NEW n \in Int, DaysOfTicks(n) \in InYears
    PROVE  FieldsRight(DatetimeFields(n), n)
  <1>1. PICK D \in Int, h \in Int, m \in Int, s \in Int, q \in Int, r \in Nat :
            OnClock(D, h, m, s, q) /\ r < PerSecond /\ n = PerSecond * q + r
    BY SecondsAndTicks, Zenon
  <1>2. OnClock(D, h, m, s, q)
    BY <1>1
  <1>3. PICK g \in Int : g = Seconds(h, m, s) /\ OnClock(0, h, m, s, g)
    BY <1>2, SecondsIn
  <1>4. PICK ticks \in Int : ticks = PerSecond * g + r
    BY Spans
  <1>5. PICK f : f = DatetimeFields(n)
    OBVIOUS
  <1>6. /\ f = [date |-> D, time |-> PerSecond * Seconds(h, m, s) + r, ymd |-> SetFromDays(D),
                hour |-> h, minute |-> m, second |-> s, tick |-> r]
        /\ D = DaysOfTicks(n)
    BY <1>1, <1>2, <1>5, FieldsAre
  <1>7. /\ f.date = D /\ f.time = ticks /\ f.ymd = SetFromDays(D)
        /\ f.hour = h /\ f.minute = m /\ f.second = s /\ f.tick = r
    BY <1>3, <1>4, <1>6
  <1>8. ClockOf(f) = Time(h, m, s, r)
    BY <1>7 DEF ClockOf
  <1>9. /\ 0 <= h /\ h <= 23 /\ 0 <= m /\ m <= 59 /\ 0 <= s /\ s <= 59
        /\ ((h * 60 + m) * 60 + s) = g
    BY <1>2, <1>3, SecondsIn
  <1>10. IsValidTime(Time(h, m, s, r))
    <2>1. /\ Time(h, m, s, r).hour = h /\ Time(h, m, s, r).minute = m
          /\ Time(h, m, s, r).second = s /\ Time(h, m, s, r).tick = r
      BY TimeIs
    <2> QED
      BY <1>1, <1>9, <2>1, Spans DEF IsValidTime
  <1>11. TicksOf(f) = ticks
    BY <1>4, <1>7, <1>9, Spans DEF TicksOf
  <1>12. D * PerDay + ticks = n
    BY <1>1, <1>2, <1>3, <1>4, TicksTogether
  <1>13. Exists(SetFromDays(D)) /\ Counted(SetFromDays(D)) = D
    BY <1>6, InYearsNotNA, DayIsDate
  <1>14. /\ ClockOf(TimeFields(ticks)) = Time(h, m, s, r)
         /\ SetFromTicks(ticks) = Time(h, m, s, r)
    BY <1>1, <1>3, <1>4, TimeFieldsAre
  <1>15. s < 60
    BY <1>9
  <1> QED
    BY <1>5, <1>7, <1>8, <1>10, <1>11, <1>12, <1>13, <1>14, <1>15 DEF FieldsRight

(* Of which the date and the time are read back.                             *)
LEMMA ReadAs ==
    ASSUME NEW D \in Int, NEW h \in Int, NEW m \in Int, NEW s \in Int,
           NEW q \in Int, OnClock(D, h, m, s, q), NEW r \in Nat, r < PerSecond,
           NEW n \in Int, n = PerSecond * q + r
    PROVE  /\ DatetimeFields(n).ymd = SetFromDays(D)
           /\ ClockOf(DatetimeFields(n)) = Time(h, m, s, r)
  <1>1. PICK f : f = DatetimeFields(n)
    OBVIOUS
  <1>2. f = [date |-> D, time |-> PerSecond * Seconds(h, m, s) + r, ymd |-> SetFromDays(D),
             hour |-> h, minute |-> m, second |-> s, tick |-> r]
    BY <1>1, FieldsAre
  <1>3. /\ f.ymd = SetFromDays(D)
        /\ f.hour = h /\ f.minute = m /\ f.second = s /\ f.tick = r
    BY <1>2
  <1> QED
    BY <1>1, <1>3 DEF ClockOf

(* A datetime of a date and a time that exist is read back.                  *)
LEMMA DatetimeRead ==
    ASSUME NEW d \in AnyDate, Exists(d), Int16(d.year) = d.year,
           NEW t \in AnyTime, IsValidTime(t), t.second < 60
    PROVE  /\ DatetimeFields(DatetimeTicks(d, t)).ymd = d
           /\ ClockOf(DatetimeFields(DatetimeTicks(d, t))) = t
  <1>1. PICK D \in Int : D = Counted(d) /\ D = ToDays(d) /\ SetFromDays(D) = d
    <2>1. Counted(d) \in InYears /\ Counted(d) # NA
      BY CountedIn, InYearsNotNA
    <2>2. Counted(d) \in Int
      BY <2>1, InYearsNotNA
    <2> QED
      BY <2>1, <2>2, ToDaysIs, DateFromDay
  <1>2. PICK h \in Int, m \in Int, s \in Int, r \in Nat :
            /\ t = Time(h, m, s, r) /\ r < PerSecond
            /\ h = t.hour /\ m = t.minute /\ s = t.second
            /\ ToTicks(t) = PerSecond * Seconds(h, m, s) + r
    <2>1. PICK h \in Int, m \in Int, s \in Int, r \in Int :
              h = t.hour /\ m = t.minute /\ s = t.second /\ r = t.tick /\ t = Time(h, m, s, r)
      BY TimeParts
    <2>2. /\ ToTicks(t) = PerSecond * (3600 * t.hour + 60 * t.minute + t.second) + t.tick
          /\ t.tick \in Nat /\ t.tick < PerSecond
      BY ToTicksIs
    <2>3. Seconds(h, m, s) = 3600 * t.hour + 60 * t.minute + t.second
      BY <2>1 DEF Seconds
    <2>4. ToTicks(t) = PerSecond * Seconds(h, m, s) + r /\ r \in Nat /\ r < PerSecond
      BY <2>1, <2>2, <2>3
    <2> QED
      BY <2>1, <2>4, Zenon
  <1>3. PICK q \in Int : OnClock(D, h, m, s, q)
    <2>1. /\ t.hour \in Int /\ 0 <= t.hour /\ t.hour <= 23
          /\ t.minute \in Int /\ 0 <= t.minute /\ t.minute <= 59
          /\ t.second \in Int /\ 0 <= t.second
      BY ToTicksIs
    <2>2. PICK q \in Int : q = 86400 * D + Seconds(h, m, s)
      BY DEF Seconds
    <2> QED
      BY <1>2, <2>1, <2>2 DEF OnClock
  <1>4. PICK n \in Int : n = PerSecond * q + r
    BY Spans
  <1>5. DatetimeTicks(d, t) = n
    <2>1. DatetimeTicks(d, t) = D * PerDay + (PerSecond * Seconds(h, m, s) + r)
      <3>1. DatetimeTicks(d, t) = ToDays(d) * PerDay + ToTicks(t)
        BY ExistsIs DEF DatetimeTicks
      <3>2. ToDays(d) = D /\ ToTicks(t) = PerSecond * Seconds(h, m, s) + r
        BY <1>1, <1>2
      <3> QED
        BY <3>1, <3>2
    <2> QED
      BY <1>3, <1>4, <2>1, TicksTogether
  <1>6. r < PerSecond
    BY <1>2
  <1>7. /\ DatetimeFields(n).ymd = SetFromDays(D)
        /\ ClockOf(DatetimeFields(n)) = Time(h, m, s, r)
    BY <1>3, <1>4, <1>6, ReadAs
  <1> QED
    BY <1>1, <1>2, <1>5, <1>7

\* Fields that were accepted lose nothing to the narrowing.
LEMMA Narrowed ==
    ASSUME NEW d \in AnyDate, IsValidDate(d), Int16(d.year) = d.year,
           NEW h \in Int, NEW m \in Int, NEW s \in Int,
           0 <= h, h <= 23, 0 <= m, m <= 59, 0 <= s, s <= 59
    PROVE  /\ Date(Int16(d.year), Int8(d.month), Int8(d.day)) = d
           /\ Int8(h) = h /\ Int8(m) = m /\ Int8(s) = s
  <1>1. PICK y \in Int, M \in 1..12, k \in Int :
            y = d.year /\ M = d.month /\ k = d.day /\ d = Date(y, M, k)
    BY PartsOf, ExistsIs DEF Exists
  <1>2. 1 <= k /\ k <= 31
    <2>1. 1 <= k /\ k <= Lengths(y)[M]
      BY <1>1, ExistsIs, LengthIs DEF Exists
    <2> QED
      BY <2>1, LengthIs
  <1>3. Int16(y) = y
    BY <1>1
  <1>4. Int8(M) = M /\ Int8(k) = k
    BY <1>2 DEF Int8
  <1>5. Int8(h) = h /\ Int8(m) = m /\ Int8(s) = s
    BY DEF Int8
  <1> QED
    BY <1>1, <1>3, <1>4, <1>5

\* What the checked SetCal accepts, and what it answers
CalGiven(d, t) ==
    /\ IsValidDate(d) /\ t.hour \in 0..23 /\ t.minute \in 0..59
    /\ t.second \in 0..59 /\ t.tick \in 0..100 * PerSecond - 1
CalAnswer(d, t) ==
    IF ~CalGiven(d, t) THEN Invalid
    ELSE [ticks |-> DatetimeTicks(Date(Int16(d.year), Int8(d.month), Int8(d.day)),
                                  Time(Int8(t.hour), Int8(t.minute), Int8(t.second), t.tick))]

(* It is what the code answers when asked to check.                          *)
LEMMA CalAnswerIs ==
    ASSUME NEW d, NEW t, NEW check \in BOOLEAN, check
    PROVE  SetCal(d, t, check) = CalAnswer(d, t)
  BY DEF SetCal, CalAnswer, CalGiven

(* The cal call: what InstantsRead says of it.                               *)
LEMMA CalRight ==
    ASSUME NEW d \in AnyDate, Int16(d.year) = d.year, NEW t \in AnyTime,
           NEW answer, answer = CalAnswer(d, t)
    PROVE  IF Exists(d) /\ IsValidTime(t) /\ t.second < 60
           THEN /\ DatetimeFields(answer.ticks).ymd = d
                /\ ClockOf(DatetimeFields(answer.ticks)) = t
           ELSE \/ answer = Invalid
                \/ answer.ticks = NA /\ t.tick >= PerSecond
  <1>1. PICK h \in Int, m \in Int, s \in Int, k \in Int :
            h = t.hour /\ m = t.minute /\ s = t.second /\ k = t.tick /\ t = Time(h, m, s, k)
    BY TimeParts
  <1> DEFINE given  == /\ IsValidDate(d) /\ h \in 0..23 /\ m \in 0..59
                       /\ s \in 0..59 /\ k \in 0..100 * PerSecond - 1
             narrow == Time(Int8(h), Int8(m), Int8(s), k)
  <1>2. answer = IF ~given THEN Invalid
                 ELSE [ticks |-> DatetimeTicks(Date(Int16(d.year), Int8(d.month), Int8(d.day)), narrow)]
    BY <1>1 DEF CalAnswer, CalGiven
  <1>3. given => /\ Date(Int16(d.year), Int8(d.month), Int8(d.day)) = d
                 /\ narrow = t
    <2> SUFFICES ASSUME given PROVE /\ Date(Int16(d.year), Int8(d.month), Int8(d.day)) = d
                                    /\ narrow = t
      OBVIOUS
    <2>1. IsValidDate(d) /\ 0 <= h /\ h <= 23 /\ 0 <= m /\ m <= 59 /\ 0 <= s /\ s <= 59
      OBVIOUS
    <2>2. /\ Date(Int16(d.year), Int8(d.month), Int8(d.day)) = d
          /\ Int8(h) = h /\ Int8(m) = m /\ Int8(s) = s
      BY <2>1, Narrowed
    <2> QED
      BY <1>1, <2>2
  <1>4. Exists(d) <=> IsValidDate(d)
    BY ExistsIs
  <1>5. IsValidTime(t) <=> h \in 0..23 /\ m \in 0..59 /\ s \in 0..60 /\ k \in 0..PerSecond - 1
    BY <1>1 DEF IsValidTime
  <1>6. ~(Exists(d) /\ IsValidTime(t) /\ s < 60) => ~given \/ (~IsValidTime(t) /\ k >= PerSecond)
    BY <1>4, <1>5, Spans
  <1>7. Exists(d) /\ IsValidTime(t) /\ s < 60 => given
    BY <1>4, <1>5, Spans
  <1> HIDE DEF narrow, given
  <1>8. given => answer = [ticks |-> DatetimeTicks(d, t)]
    BY <1>2, <1>3
  <1>9. given => answer.ticks = DatetimeTicks(d, t)
    BY <1>8
  <1>10. CASE Exists(d) /\ IsValidTime(t) /\ t.second < 60
    <2>1. answer.ticks = DatetimeTicks(d, t)
      BY <1>1, <1>7, <1>9, <1>10
    <2>2. /\ DatetimeFields(DatetimeTicks(d, t)).ymd = d
          /\ ClockOf(DatetimeFields(DatetimeTicks(d, t))) = t
      BY <1>10, DatetimeRead
    <2> QED
      BY <1>10, <2>1, <2>2
  <1>11. CASE ~(Exists(d) /\ IsValidTime(t) /\ t.second < 60)
    <2>1. CASE ~given
      <3>1. answer = Invalid
        BY <1>2, <2>1
      <3> QED
        BY <1>11, <3>1
    <2>2. CASE given
      <3>1. ~IsValidTime(t) /\ k >= PerSecond
        BY <1>1, <1>6, <1>11, <2>2
      <3>2. DatetimeTicks(d, t) = NA
        BY <3>1 DEF DatetimeTicks
      <3>3. answer.ticks = NA /\ t.tick >= PerSecond
        BY <1>1, <1>9, <2>2, <3>1, <3>2
      <3> QED
        BY <1>11, <3>3
    <2> QED
      BY <2>1, <2>2
  <1> QED
    BY <1>10, <1>11

(* NA is a number too.                                                       *)
LEMMA NAIs == NA \in Int
  BY DEF NA

(* A unit of many ticks: multiplied on the way to ticks, divided on the way  *)
(* back.                                                                     *)
LEMMA LongUnit ==
    ASSUME NEW n \in Int, NEW E \in Int, NEW u, NEW F \in Int, F > 0,
           u.factor = F, u.divisor = 1
    PROVE  ConvertedRight(n, E, u, TicksSince(n, E, u), SinceTicks(n, E, u))
  <1>1. ASSUME NEW v \in Int
        PROVE  /\ TicksSince(v, E, u) = IF v = NA THEN NA ELSE F * v + E
               /\ SinceTicks(v, E, u) = IF v = NA THEN NA ELSE (v - E) \div F
    <2>1. TicksSince(v, E, u) = IF v = NA THEN NA ELSE F * v + E
      BY DEF TicksSince, MultiplyAndOffset
    <2>2. SinceTicks(v, E, u) = IF v = NA THEN NA ELSE FloorDiv(v + (-E), F)
      BY DEF SinceTicks, OffsetAndDivide
    <2>3. PICK w \in Int : w = v + (-E) /\ w = v - E
      OBVIOUS
    <2>4. FloorDiv(w, F) = w \div F
      BY FloorDivIs
    <2> QED
      BY <2>1, <2>2, <2>3, <2>4
  <1>2. CASE n = NA
    BY <1>1, <1>2, NAIs DEF ConvertedRight
  <1>3. CASE n # NA
    <2>1. PICK T \in Int : T = TicksSince(n, E, u) /\ T = F * n + E
      BY <1>1, <1>3
    <2>2. PICK w \in Int, S \in Int, r \in Nat :
              w = n - E /\ S = w \div F /\ r = w % F /\ r < F /\ w = F * S + r
      <3>1. PICK w \in Int : w = n - E
        OBVIOUS
      <3> QED
        BY <3>1, DivMod
    <2>3. S = SinceTicks(n, E, u)
      BY <1>1, <1>3, <2>2
    <2>4. T # NA => SinceTicks(T, E, u) = n
      <3>1. PICK x \in Int : x = F * n /\ x = T - E /\ x = F * n + 0
        BY <2>1
      <3>2. x \div F = n
        BY <3>1, DivUnique
      <3>3. SinceTicks(T, E, u) = IF T = NA THEN NA ELSE (T - E) \div F
        BY <1>1
      <3> QED
        BY <3>1, <3>2, <3>3
    <2>5. S # NA => TicksSince(S, E, u) = F * S + E
      BY <1>1
    <2>6. S # NA => TicksSince(S, E, u) <= n /\ n < TicksSince(S, E, u) + F
      BY <2>2, <2>5
    <2>7. T * 1 \in F * n + E * 1 - 1 + 1 .. F * n + E * 1
      BY <2>1
    <2> QED
      BY <1>3, <2>1, <2>3, <2>4, <2>6, <2>7 DEF ConvertedRight
  <1> QED
    BY <1>2, <1>3

(* A unit of a part of a tick: divided on the way to ticks, multiplied on    *)
(* the way back.                                                             *)
LEMMA ShortUnit ==
    ASSUME NEW n \in Int, NEW E \in Int, NEW u, NEW D \in Int, D > 1,
           u.factor = 1, u.divisor = D
    PROVE  ConvertedRight(n, E, u, TicksSince(n, E, u), SinceTicks(n, E, u))
  <1>0. PICK e \in Int : e = E * D
    OBVIOUS
  <1>1. ASSUME NEW v \in Int
        PROVE  /\ TicksSince(v, E, u) = IF v = NA THEN NA ELSE (v + e) \div D
               /\ SinceTicks(v, E, u) = IF v = NA THEN NA ELSE D * v - e
    <2>1. TicksSince(v, E, u) = IF v = NA THEN NA ELSE FloorDiv(v + e, D)
      BY <1>0 DEF TicksSince, OffsetAndDivide
    <2>2. PICK w \in Int : w = v + e
      OBVIOUS
    <2>3. FloorDiv(w, D) = w \div D
      BY FloorDivIs
    <2>4. SinceTicks(v, E, u) = IF v = NA THEN NA ELSE D * v + (-E * D)
      BY DEF SinceTicks, MultiplyAndOffset
    <2>5. D * v + (-E * D) = D * v - e
      BY <1>0
    <2> QED
      BY <2>1, <2>2, <2>3, <2>4, <2>5
  <1>2. CASE n = NA
    BY <1>1, <1>2, NAIs DEF ConvertedRight
  <1>3. CASE n # NA
    <2>1. PICK S \in Int : S = SinceTicks(n, E, u) /\ S = D * n - e
      BY <1>1, <1>3
    <2>2. PICK w \in Int, T \in Int, r \in Nat :
              w = n + e /\ T = w \div D /\ r = w % D /\ r < D /\ w = D * T + r
      <3>1. PICK w \in Int : w = n + e
        OBVIOUS
      <3> QED
        BY <3>1, DivMod
    <2>3. T = TicksSince(n, E, u)
      BY <1>1, <1>3, <2>2
    <2>4. S # NA => TicksSince(S, E, u) = n
      <3>1. PICK x \in Int : x = D * n /\ x = S + e /\ x = D * n + 0
        BY <2>1
      <3>2. x \div D = n
        BY <3>1, DivUnique
      <3> QED
        BY <1>1, <3>1, <3>2
    <2>5. T # NA => SinceTicks(T, E, u) = D * T - e
      BY <1>1
    <2>6. T # NA => SinceTicks(T, E, u) <= n /\ n < SinceTicks(T, E, u) + D
      BY <2>2, <2>5
    <2>7. T * D \in 1 * n + E * D - D + 1 .. 1 * n + E * D
      <3>1. T * D = D * T
        OBVIOUS
      <3> QED
        BY <1>0, <2>2, <3>1
    <2> QED
      BY <1>3, <2>1, <2>3, <2>4, <2>6, <2>7 DEF ConvertedRight
  <1> QED
    BY <1>2, <1>3

(* ---- the calls ---------------------------------------------------------*)
(* What a call is given, by its operation.                                   *)
LEMMA CallIs ==
    ASSUME CalendarCall
    PROVE  /\ call.op = "day" => \E n \in Days \ {NA} : call.days = n
           /\ call.op = "count" => \E d \in DateFields, check \in BOOLEAN : call.date = d /\ call.check = check
           /\ call.op = "replace" => \E r \in Replacements : call.days = r.days /\ call.with = r.with
           /\ call.op = "clock" => \E t \in TimeInputs, check \in BOOLEAN : call.time = t /\ call.check = check
           /\ call.op = "cal" => \E c \in Datetimes, check \in BOOLEAN :
                  call.date = c.date /\ call.time = c.time /\ call.check = check
           /\ call.op = "datetime" => \E n \in Instants : call.ticks = n
           /\ call.op = "since" => \E c \in Conversions :
                  call.value = c.value /\ call.unit = c.unit /\ call.epoch = c.epoch
  <1>1. CASE \E n \in Days \ {NA} : call = [op |-> "day", days |-> n]
    BY <1>1
  <1>2. CASE \E d \in DateFields, check \in BOOLEAN : call = [op |-> "count", date |-> d, check |-> check]
    BY <1>2
  <1>3. CASE \E r \in Replacements : call = [op |-> "replace", days |-> r.days, with |-> r.with]
    BY <1>3
  <1>4. CASE \E t \in TimeInputs, check \in BOOLEAN : call = [op |-> "clock", time |-> t, check |-> check]
    BY <1>4
  <1>5. CASE \E c \in Datetimes, check \in BOOLEAN :
                 call = [op |-> "cal", date |-> c.date, time |-> c.time, check |-> check]
    BY <1>5
  <1>6. CASE \E n \in Instants : call = [op |-> "datetime", ticks |-> n]
    BY <1>6
  <1>7. CASE \E c \in Conversions :
                 call = [op |-> "since", value |-> c.value, unit |-> c.unit, epoch |-> c.epoch]
    BY <1>7
  <1> QED
    BY <1>1, <1>2, <1>3, <1>4, <1>5, <1>6, <1>7 DEF CalendarCall

(* What is said of a call holds of the calls of other operations.            *)
LEMMA OnlyAsked ==
    ASSUME UNCHANGED call
    PROVE  /\ call.op # "day" => DaysAreDates'
           /\ call.op # "count" => DatesAreDays'
           /\ call.op # "replace" => FieldsReplaced'
           /\ call.op # "clock" => ClocksCounted'
           /\ call.op # "datetime" => InstantsSplit'
           /\ call.op # "cal" => InstantsRead'
           /\ call.op # "since" => UnitsCounted'
  <1>1. call.op # "day" => DaysAreDates'
    BY DEF DaysAreDates, Answered
  <1>2. call.op # "count" => DatesAreDays'
    BY DEF DatesAreDays, Answered
  <1>3. call.op # "replace" => FieldsReplaced'
    BY DEF FieldsReplaced, Answered
  <1>4. call.op # "clock" => ClocksCounted'
    BY DEF ClocksCounted, Answered
  <1>5. call.op # "datetime" => InstantsSplit'
    BY DEF InstantsSplit, Answered
  <1>6. call.op # "cal" => InstantsRead'
    BY DEF InstantsRead, Answered
  <1>7. call.op # "since" => UnitsCounted'
    BY DEF UnitsCounted, Answered
  <1> QED
    BY <1>1, <1>2, <1>3, <1>4, <1>5, <1>6, <1>7

(* date_ymd::set_from_days                                                   *)
LEMMA DayStep == ASSUME CalendarCall, ConvertDay PROVE DaysAreDates'
  <1>1. PICK n \in Days \ {NA} : call.days = n
    BY CallIs, Zenon DEF ConvertDay
  <1>2. PICK d : d = SetFromDays(n)
    OBVIOUS
  <1>3. /\ call' = call
        /\ outcome' = <<[date |-> d, weekday |-> Weekday(ToDays(d)), yday |-> DayOfYear(d)]>>
    BY <1>1, <1>2 DEF ConvertDay, Asked
  <1>4. Answer'.date = d /\ Answer'.weekday = Weekday(ToDays(d)) /\ Answer'.yday = DayOfYear(d)
    BY <1>3 DEF Answer
  <1>5. n \in InYears => /\ Exists(d) /\ Counted(d) = n
                         /\ Weekday(ToDays(d)) = (n + 3) % 7
                         /\ DayOfYear(d) = n - DaysBefore(d.year)
    BY <1>1, <1>2, DayRight
  <1> QED
    BY <1>1, <1>3, <1>4, <1>5 DEF DaysAreDates

(* date_ymd::to_days                                                         *)
LEMMA CountStep == ASSUME CalendarCall, CountDays PROVE DatesAreDays'
  <1>1. PICK d \in DateFields, check \in BOOLEAN : call.date = d /\ call.check = check
    BY CallIs, Zenon DEF CountDays
  <1>2. d \in AnyDate
    BY CalendarInputs DEF AnyDate
  <1>3. call' = call /\ outcome' = <<SetYmd(d, check)>>
    BY <1>1 DEF CountDays, Asked
  <1>4. Answer' = SetYmd(d, check)
    BY <1>3 DEF Answer
  <1>5. SetYmd(d, check) = IF Exists(d) THEN [days |-> Counted(d)]
                           ELSE IF check THEN Invalid ELSE [days |-> NA]
    BY <1>2, CountRight
  <1> QED
    BY <1>1, <1>3, <1>4, <1>5 DEF DatesAreDays

(* date_replace_kernel_extra                                                 *)
LEMMA ReplaceStep == ASSUME CalendarCall, ReplaceField PROVE FieldsReplaced'
  <1>1. PICK r \in Replacements : call.days = r.days /\ call.with = r.with
    BY CallIs, Zenon DEF ReplaceField
  <1>2. PICK n \in Int, year \in Int, month \in Int, day \in Int :
            /\ n = call.days /\ year = call.with.year /\ month = call.with.month
            /\ day = call.with.day /\ (Int16(year) = year \/ year = Same)
    <2>1. /\ r.days \in Int /\ r.with \in [year : Int, month : Int, day : Int]
          /\ r.with.year = Same \/ Int16(r.with.year) = r.with.year
      BY CalendarInputs
    <2> QED
      BY <1>1, <2>1
  <1>3. PICK wanted : wanted = Wanted(SetFromDays(n), year, month, day)
    OBVIOUS
  <1>4. call' = call /\ Answer' = Replace(n, year, month, day)
    BY <1>2 DEF ReplaceField, Asked, Answer
  <1>5. Replace(n, year, month, day) =
            IF Exists(wanted) THEN [days |-> Counted(wanted)]
            ELSE IF month # Same \/ day # Same THEN Invalid ELSE [days |-> NA]
    BY <1>2, <1>3, ReplaceRight
  <1> QED
    BY <1>2, <1>3, <1>4, <1>5 DEF FieldsReplaced

(* time_hmst::to_ticks                                                       *)
LEMMA ClockStep == ASSUME CalendarCall, SetClock PROVE ClocksCounted'
  <1>1. PICK t \in TimeInputs, check \in BOOLEAN : call.time = t /\ call.check = check
    BY CallIs, Zenon DEF SetClock
  <1>2. t \in AnyTime
    BY CalendarInputs DEF AnyTime
  <1>3. call' = call /\ Answer' = SetTime(t, check)
    BY <1>1 DEF SetClock, Asked, Answer
  <1>4. IF IsValidTime(t) THEN SetFromTicks(SetTime(t, check).ticks) = OneLater(t)
        ELSE SetTime(t, check) = IF check THEN Invalid ELSE [ticks |-> NA]
    BY <1>2, ClocksRight
  <1> QED
    BY <1>1, <1>3, <1>4 DEF ClocksCounted

(* The datetime properties                                                   *)
LEMMA InstantStep == ASSUME CalendarCall, GetFields PROVE InstantsSplit'
  <1>1. PICK n \in Instants : call.ticks = n
    BY CallIs, Zenon DEF GetFields
  <1>2. n \in Int /\ DaysOfTicks(n) \in InYears
    BY CalendarInputs
  <1>3. call' = call /\ Answer' = DatetimeFields(n)
    BY <1>1 DEF GetFields, Asked, Answer
  <1>4. FieldsRight(DatetimeFields(n), n)
    BY <1>2, InstantRight
  <1> QED
    BY <1>1, <1>3, <1>4 DEF InstantsSplit

(* datetime_type::set_cal                                                    *)
LEMMA CalStep == ASSUME CalendarCall, SetInstant PROVE InstantsRead'
  <1>1. PICK c \in Datetimes, check \in BOOLEAN :
            call.date = c.date /\ call.time = c.time /\ call.check = check
    BY CallIs, Zenon DEF SetInstant
  <1>2. PICK d \in AnyDate, t \in AnyTime : d = c.date /\ t = c.time /\ Int16(d.year) = d.year
    <2>1. /\ c.date \in AnyDate /\ Int16(c.date.year) = c.date.year /\ c.time \in AnyTime
      BY CalendarInputs DEF AnyDate, AnyTime
    <2> QED
      BY <2>1
  <1>3. SUFFICES ASSUME check
                 PROVE  InstantsRead'
    BY <1>1 DEF InstantsRead, SetInstant, Asked
  <1>4. SetCal(d, t, check) = CalAnswer(d, t)
    BY <1>3, CalAnswerIs, Zenon
  <1>5. call' = call /\ Answer' = CalAnswer(d, t)
    BY <1>1, <1>2, <1>4 DEF SetInstant, Asked, Answer
  <1>6. PICK answer : answer = CalAnswer(d, t)
    OBVIOUS
  <1>7. IF Exists(d) /\ IsValidTime(t) /\ t.second < 60
        THEN /\ DatetimeFields(answer.ticks).ymd = d
             /\ ClockOf(DatetimeFields(answer.ticks)) = t
        ELSE \/ answer = Invalid
             \/ answer.ticks = NA /\ t.tick >= PerSecond
    BY <1>2, <1>6, CalRight
  <1> QED
    BY <1>1, <1>2, <1>5, <1>6, <1>7 DEF InstantsRead

(* make_datetime_adapter_arrfunc                                             *)
LEMMA UnitsStep == ASSUME CalendarCall, AdaptUnits PROVE UnitsCounted'
  <1>1. PICK c \in Conversions : call.value = c.value /\ call.unit = c.unit /\ call.epoch = c.epoch
    BY CallIs, Zenon DEF AdaptUnits
  <1>2. PICK u : u = c.unit
    OBVIOUS
  <1>5. PICK n \in Int, E \in Int : n = call.value /\ E = call.epoch
    BY <1>1, CalendarInputs
  <1>3. /\ call' = call
        /\ Answer'.ticks = TicksSince(n, E, u) /\ Answer'.since = SinceTicks(n, E, u)
    BY <1>1, <1>2, <1>5 DEF AdaptUnits, Asked, Answer
  <1>4. ConvertedRight(n, E, u, TicksSince(n, E, u), SinceTicks(n, E, u))
    <2>1. PICK F \in Int, D \in Int :
              /\ F = u.factor /\ D = u.divisor /\ F > 0 /\ D > 0 /\ (F = 1 \/ D = 1)
      BY <1>2, CalendarInputs
    <2>2. CASE D = 1
      <3>1. u.factor = F /\ u.divisor = 1 /\ F > 0
        BY <2>1, <2>2
      <3> QED
        BY <3>1, LongUnit
    <2>3. CASE D > 1
      <3>1. u.factor = 1 /\ u.divisor = D
        BY <2>1, <2>3
      <3> QED
        BY <2>3, <3>1, ShortUnit
    <2> QED
      BY <2>1, <2>2, <2>3
  <1>6. call.value = n /\ call.epoch = E /\ call.unit = u
    BY <1>1, <1>2, <1>5
  <1> QED
    BY <1>3, <1>4, <1>6 DEF UnitsCounted

(***************************************************************************)
(* Every day in the years of 16 bits is the date it is in the calendar,    *)
(* and every date is counted as that day or known not to exist; replacing  *)
(* a field gives the date asked for or throws; ticks and fields make up    *)
(* each other on both sides of 1970; and other units round down to the     *)
(* same instant (date_ymd, time_hmst, datetime_struct, the kernels of      *)
(* their properties and make_datetime_adapter_arrfunc).                    *)
(***************************************************************************)
THEOREM DatesAndTicks == CalendarSpec => []CalendarExact
  <1> DEFINE Inv == CalendarCall /\ CalendarExact
  <1>1. outcome = Pending /\ CalendarCall => Inv
    BY DEF CalendarExact, DatesCounted, TicksCounted, DaysAreDates, DatesAreDays, FieldsReplaced,
           ClocksCounted, InstantsSplit, InstantsRead, UnitsCounted, Answered
  <1>2. ASSUME Inv, [UseCalendar]_<<call, outcome>>
        PROVE  Inv'
    <2>1. ASSUME CalendarCall, UseCalendar, UNCHANGED call
          PROVE  CalendarExact'
      <3> USE <2>1, OnlyAsked DEF CalendarExact, DatesCounted, TicksCounted
      <3>1. CASE ConvertDay
        BY <3>1, DayStep DEF ConvertDay
      <3>2. CASE CountDays
        BY <3>2, CountStep DEF CountDays
      <3>3. CASE ReplaceField
        BY <3>3, ReplaceStep DEF ReplaceField
      <3>4. CASE SetClock
        BY <3>4, ClockStep DEF SetClock
      <3>5. CASE SetInstant
        BY <3>5, CalStep DEF SetInstant
      <3>6. CASE GetFields
        BY <3>6, InstantStep DEF GetFields
      <3>7. CASE AdaptUnits
        BY <3>7, UnitsStep DEF AdaptUnits
      <3> QED
        BY <3>1, <3>2, <3>3, <3>4, <3>5, <3>6, <3>7 DEF UseCalendar
    <2>2. UseCalendar => UNCHANGED call
      BY DEF UseCalendar, ConvertDay, CountDays, ReplaceField, SetClock, SetInstant, GetFields,
             AdaptUnits, Asked
    <2>3. UNCHANGED call => CalendarCall'
      BY <1>2 DEF CalendarCall
    <2>4. UNCHANGED <<call, outcome>> => CalendarExact'
      BY <1>2 DEF CalendarExact, DatesCounted, TicksCounted, DaysAreDates, DatesAreDays,
           FieldsReplaced, ClocksCounted, InstantsSplit, InstantsRead, UnitsCounted, Answered, Answer
    <2> QED
      BY <1>2, <2>1, <2>2, <2>3, <2>4
  <1>3. Inv => CalendarExact
    OBVIOUS
  <1> QED
    BY <1>1, <1>2, <1>3, PTL DEF CalendarSpec
=============================================================================
