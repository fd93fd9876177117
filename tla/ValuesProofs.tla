---------------------------- MODULE ValuesProofs ----------------------------
(***************************************************************************)
(* Theorems about Values and the Julian dates in it: what the code makes   *)
(* of every date of Python, that every parameter reaches the backend as    *)
(* what it means or is refused, and that what comes of a column is its     *)
(* value, with the exceptions that Values names.                           *)
(***************************************************************************)
EXTENDS Values, SequenceTheorems, WellFoundedInduction, TLAPS

---------------------------------------------------------------------------
(* Facts of arithmetic.                                                    *)

(* A leap year adds a leap day.                                            *)
LEMMA LeapDays ==
  ASSUME NEW y \in Int
  PROVE  y \div 4 - y \div 100 + y \div 400
         = (y - 1) \div 4 - (y - 1) \div 100 + (y - 1) \div 400
           + (IF IsLeap(y) THEN 1 ELSE 0)
  BY SMT DEF IsLeap

(* Four years have 1461 days.                                              *)
LEMMA FourYears ==
  ASSUME NEW y \in Int
  PROVE  (1461 * y) \div 4 = 365 * y + y \div 4
  BY SMT

(* Every fourth century has its leap day.                                  *)
LEMMA Centuries ==
  ASSUME NEW y \in Int
  PROVE  (y \div 100) \div 4 = y \div 400
  BY SMT

---------------------------------------------------------------------------
(* The year and the month of the formulas, in which a year begins in March *)
(* and its first month is the fourth.                                      *)
Year(y, m) == IF m > 2 THEN y ELSE y - 1
Month(m) == IF m > 2 THEN m + 1 ELSE m + 13

(* The days of that year before the month begins, and 122 more.            *)
MonthDays(m) == (306001 * Month(m)) \div 10000

(* The days of the calendar before that year, and what the Julian day has  *)
(* more.                                                                   *)
YearDays(jy) == 365 * jy + jy \div 4 - jy \div 100 + jy \div 400
Base == 1720997

(* The days of the formulas are those of the calendar, from March on.      *)
LEMMA MonthTypes ==
  ASSUME NEW m \in 1..12
  PROVE  /\ Month(m) \in 4..15
         /\ MonthDays(m) \in Int
         /\ DaysBefore[m] \in Int
         /\ m > 2 => MonthDays(m) = DaysBefore[m] + 63
         /\ m <= 2 => MonthDays(m) = DaysBefore[m] + 428
  BY SMT DEF Month, MonthDays, DaysBefore

(* The day number in the terms of that year.                               *)
LEMMA DayFormula ==
  ASSUME NEW y \in Int, NEW m \in 1..12, NEW d \in 1..31
  PROVE  JULIAN_START + DayNumber(<<y, m, d>>)
         = YearDays(Year(y, m)) + MonthDays(m) + d + Base
<1>1. DayNumber(<<y, m, d>>)
        = 365 * (y - 1) + (y - 1) \div 4 - (y - 1) \div 100 + (y - 1) \div 400
          + DaysBefore[m] + (IF m > 2 /\ IsLeap(y) THEN 1 ELSE 0) + d - 730120
  BY SMT DEF DayNumber
<1>2. CASE m > 2
  <2>1. y \div 4 - y \div 100 + y \div 400
        = (y - 1) \div 4 - (y - 1) \div 100 + (y - 1) \div 400
          + (IF m > 2 /\ IsLeap(y) THEN 1 ELSE 0)
    BY <1>2, LeapDays, SMT
  <2>. QED
    BY <1>1, <1>2, <2>1, MonthTypes, SMT DEF Year, YearDays, JULIAN_START, Base
<1>3. CASE m <= 2
  BY <1>1, <1>3, MonthTypes, SMT DEF Year, YearDays, JULIAN_START, Base
<1>. QED
  BY <1>2, <1>3, SMT

---------------------------------------------------------------------------
(* dateToJulian.                                                           *)

(* What a Julian day has more before the calendar: by how many days the    *)
(* Julian calendar is ahead in a century.                                  *)
Ahead(y, m) ==
    LET century == Year(y, m) \div 100
    IN  century - century \div 4 - 2

(* The day n, counted from 122 on, is in the year.                         *)
InYear(jy, n) ==
    /\ n \in 123..488
    /\ n = 488 => jy % 4 = 3 /\ (jy % 100 # 99 \/ jy % 400 = 399)

(* The first day of the Gregorian calendar.                                *)
Reform == DayNumber(<<1582, 10, 15>>)

(* A date is a day of the year that the formulas take it to be in.         *)
LEMMA YearSpan ==
  ASSUME NEW y \in Int, NEW m \in 1..12, NEW d \in 1..DaysInMonth(y, m)
  PROVE  InYear(Year(y, m), MonthDays(m) + d)
BY SMT DEF DaysInMonth, MonthDays, Month, Year, IsLeap, InYear

(* The test of dateToJulian for dates of the Gregorian calendar, 15        *)
(* October 1582 and later, is right.                                       *)
LEMMA Reformed ==
  ASSUME NEW y \in Int, NEW m \in 1..12, NEW d \in 1..DaysInMonth(y, m)
  PROVE  d + 31 * (m + 12 * y) >= GREGORIAN_OFFSET <=> DayNumber(<<y, m, d>>) >= Reform
<1>1. d \in 1..31
  BY SMT DEF DaysInMonth
<1>2. Reform = -152384
  BY SMT DEF Reform, DayNumber, DaysBefore, IsLeap
<1> QED
  BY <1>1, <1>2, SMT DEF DayNumber, DaysBefore, DaysInMonth, IsLeap, GREGORIAN_OFFSET

(* dateToJulian gives the Julian day of every date from the reform on;     *)
(* before, it takes the date for one of the Julian calendar.               *)
THEOREM JulianDays ==
  ASSUME NEW y \in Nat \ {0}, NEW m \in 1..12, NEW d \in 1..DaysInMonth(y, m)
  PROVE  dateToJulian(<<y, m, d>>)
         = JULIAN_START + DayNumber(<<y, m, d>>)
           + (IF DayNumber(<<y, m, d>>) >= Reform THEN 0 ELSE Ahead(y, m))
<1>. DEFINE jy == Year(y, m)
<1>0. y \in Int
  OBVIOUS
<1>1. d \in 1..31
  BY SMT DEF DaysInMonth
<1>2. dateToJulian(<<y, m, d>>)
        = (1461 * jy) \div 4 + MonthDays(m) + d + 1720995
          + (IF d + 31 * (m + 12 * y) >= GREGORIAN_OFFSET
             THEN 2 - jy \div 100 + (jy \div 100) \div 4 ELSE 0)
  BY <1>1, SMT DEF dateToJulian, Quot, Year, Month, MonthDays
<1>3. JULIAN_START + DayNumber(<<y, m, d>>)
        = YearDays(jy) + MonthDays(m) + d + Base
  BY <1>0, <1>1, DayFormula, Zenon
<1>4. jy \in Int /\ MonthDays(m) \in Int
  BY MonthTypes DEF Year
<1>5. d + 31 * (m + 12 * y) >= GREGORIAN_OFFSET <=> DayNumber(<<y, m, d>>) >= Reform
  BY <1>0, Reformed
<1>7. Ahead(y, m) = jy \div 100 - (jy \div 100) \div 4 - 2
  BY DEF Ahead
<1>. HIDE DEF jy
<1>6. /\ (1461 * jy) \div 4 = 365 * jy + jy \div 4
      /\ (jy \div 100) \div 4 = jy \div 400
  BY <1>4, FourYears, Centuries, SMT
<1>. QED
  BY <1>1, <1>2, <1>3, <1>4, <1>5, <1>6, <1>7, SMT DEF YearDays, Base

---------------------------------------------------------------------------
(* julianToDate.                                                           *)

(* The correction of julianToDate for a Julian day in a century of the     *)
(* Gregorian calendar.  Below the year 400 its division rounds up, which   *)
(* makes up for the century it is then off, but for the first day of one.  *)
LEMMA Correction ==
  ASSUME NEW C \in Nat, NEW J \in Int, J >= GREGORIAN_OFFSET,
         4 * (J - 1867216) - 1 >= 146097 * (C - 4),
         4 * (J - 1867216) - 1 < 146097 * (C - 3),
         C = 3 => J # 1830692
  PROVE  Corrected(J) = J + C - C \div 4 - 2
<1>. DEFINE num == 4 * (J - 1867216) - 1
            a == Quot(num, 146097)
<1>1. num \in Int
  OBVIOUS
<1>2. Corrected(J) = J + (1 + a - Quot(a, 4))
  BY DEF Corrected
<1>3. CASE C >= 4
  <2>1. num \div 146097 = C - 4
    BY <1>3, SMT
  <2>2. a = C - 4
    BY <1>3, <2>1, SMT DEF Quot
  <2>. QED
    BY <1>2, <1>3, <2>2, SMT DEF Quot
<1>4. CASE C = 3
  <2>1. a = 0
    BY <1>4, SMT DEF Quot
  <2>. QED
    BY <1>2, <1>4, <2>1, SMT DEF Quot
<1>5. CASE C = 2
  <2>1. a = -1
    BY <1>5, SMT DEF Quot
  <2>. QED
    BY <1>2, <1>5, <2>1, SMT DEF Quot
<1>6. CASE C = 1
  <2>1. a = -2
    BY <1>6, SMT DEF Quot
  <2>. QED
    BY <1>2, <1>6, <2>1, SMT DEF Quot
<1>7. CASE C = 0
  <2>1. a = -3
    BY <1>7, SMT DEF Quot
  <2>. QED
    BY <1>2, <1>7, <2>1, SMT DEF Quot
<1>. QED
  BY <1>3, <1>4, <1>5, <1>6, <1>7, SMT

(* What julianToDate makes of its intermediate results.                    *)
LEMMA FromSteps ==
  ASSUME NEW J, NEW y \in Int, NEW m \in 1..12, NEW d \in Int, y >= 1,
         YearOf(Corrected(J)) = Year(y, m) + 4716,
         MonthOf(Corrected(J)) = Month(m),
         DayOf(Corrected(J)) - Quot(306001 * Month(m), 10000) = d
  PROVE  julianToDate(J) = <<y, m, d>>
<1>1. CASE m > 2
  BY <1>1, SMT DEF julianToDate, Year, Month
<1>2. CASE m <= 2
  BY <1>2, SMT DEF julianToDate, Year, Month
<1>. QED
  BY <1>1, <1>2, SMT

(* The Julian day of a day of a year, and the century of the year.         *)
JulianDay(jy, n) == YearDays(jy) + n + Base
Century(jy) == jy \div 100

(* The century of a year, the rest, and the fours in both.                 *)
Parts(jy, C, r, q, l) ==
    C = jy \div 100 /\ r = jy % 100 /\ q = C \div 4 /\ l = r \div 4

(* The days of the years before a year, by its century and its rest.       *)
LEMMA YearsDays ==
  ASSUME NEW jy \in Int, NEW C, NEW r, NEW q, NEW l, Parts(jy, C, r, q, l)
  PROVE  /\ C \in Int /\ r \in 0..99 /\ jy = 100 * C + r
         /\ q \in Int /\ l \in 0..24
         /\ 4 * q <= C /\ C <= 4 * q + 3
         /\ 4 * l <= r /\ r <= 4 * l + 3
         /\ YearDays(jy) = 36524 * C + q + 365 * r + l
         /\ r = 99 /\ jy % 400 = 399 => C = 4 * q + 3
<1>0. C = jy \div 100 /\ r = jy % 100 /\ q = C \div 4 /\ l = r \div 4
  BY DEF Parts
<1>1. jy \div 400 = q
  BY <1>0, Centuries, SMT
<1>2. jy \div 4 = 25 * C + l
  BY <1>0, SMT
<1>3. /\ C \in Int /\ r \in 0..99 /\ jy = 100 * C + r
  BY <1>0, SMT
<1>4. /\ q \in Int /\ l \in 0..24
      /\ 4 * q <= C /\ C <= 4 * q + 3
      /\ 4 * l <= r /\ r <= 4 * l + 3
  BY <1>0, <1>3, SMT
<1>5. r = 99 /\ jy % 400 = 399 => C = 4 * q + 3
  BY <1>0, <1>3, <1>4, SMT
<1>6. YearDays(jy) = 36524 * C + q + 365 * r + l
  <2>1. YearDays(jy) = 365 * jy + (25 * C + l) - C + q
    BY <1>0, <1>1, <1>2, SMT DEF YearDays
  <2>. QED
    BY <1>3, <1>4, <2>1, SMT
<1>. QED
  BY <1>3, <1>4, <1>5, <1>6, SMT

(* A day of a century: between the first day of one and that of the next.  *)
LEMMA InCentury ==
  ASSUME NEW jy \in Int, NEW n, InYear(jy, n)
  PROVE  /\ 4 * (JulianDay(jy, n) - 1867216) - 1 >= 146097 * (Century(jy) - 4)
         /\ 4 * (JulianDay(jy, n) - 1867216) - 1 < 146097 * (Century(jy) - 3)
         /\ JulianDay(jy, n) = 1830692 => jy = 300 /\ n = 123
<1>1. PICK C, r, q, l : Parts(jy, C, r, q, l)
  BY DEF Parts
<1>2. /\ C \in Int /\ r \in 0..99 /\ jy = 100 * C + r
      /\ q \in Int /\ l \in 0..24
      /\ 4 * q <= C /\ C <= 4 * q + 3
      /\ 4 * l <= r /\ r <= 4 * l + 3
      /\ YearDays(jy) = 36524 * C + q + 365 * r + l
      /\ r = 99 /\ jy % 400 = 399 => C = 4 * q + 3
  BY <1>1, YearsDays, SMT
<1>3. n \in 123..488 /\ (n = 488 => (r # 99 \/ C = 4 * q + 3))
  BY <1>1, <1>2, SMT DEF InYear, Parts
<1>4. PICK J \in Int : J = JulianDay(jy, n)
  BY <1>2, <1>3, SMT DEF JulianDay, Base
<1>5. J = 36524 * C + q + 365 * r + l + n + 1720997
  BY <1>2, <1>4, SMT DEF JulianDay, Base
<1>6. /\ 4 * (J - 1867216) - 1 >= 146097 * (C - 4)
      /\ 4 * (J - 1867216) - 1 < 146097 * (C - 3)
  BY <1>2, <1>3, <1>5, SMT
<1>7. ASSUME J = 1830692 PROVE jy = 300 /\ n = 123
  <2>1. C = 3
    BY <1>2, <1>6, <1>7, SMT
  <2>2. q = 0
    BY <1>2, <2>1, SMT
  <2>3. r = 0 /\ n = 123
    BY <1>2, <1>3, <1>5, <1>7, <2>1, <2>2, SMT
  <2>. QED
    BY <1>2, <2>1, <2>3, SMT
<1>. QED
  BY <1>1, <1>4, <1>6, <1>7, SMT DEF Century, Parts

(* julianToDate finds the year and the day of all years from 1 BC on, with *)
(* the exception of one day.                                               *)
LEMMA YearFound ==
  ASSUME NEW jy \in Nat, NEW n, InYear(jy, n), ~(jy = 300 /\ n = 123)
  PROVE  /\ YearOf(Corrected(JulianDay(jy, n))) = jy + 4716
         /\ DayOf(Corrected(JulianDay(jy, n))) = n
<1>0. jy \in Int /\ n \in 123..488
  BY SMT DEF InYear
<1>2. PICK C \in Nat : C = Century(jy)
  BY SMT DEF Century
<1>3. PICK J \in Int : J = JulianDay(jy, n)
  BY <1>0, SMT DEF JulianDay, YearDays, Base
<1>1. /\ 4 * (J - 1867216) - 1 >= 146097 * (C - 4)
      /\ 4 * (J - 1867216) - 1 < 146097 * (C - 3)
      /\ J # 1830692
  BY <1>0, <1>2, <1>3, InCentury, SMT
<1>5. J >= GREGORIAN_OFFSET
  BY <1>0, <1>3, SMT DEF JulianDay, YearDays, Base, GREGORIAN_OFFSET
<1>4. PICK ja : ja = Corrected(J)
  OBVIOUS
<1>6. ja = J + C - C \div 4 - 2
  BY <1>1, <1>4, <1>5, Correction, SMT
<1>7. /\ ja \in Int
      /\ ja + 1524 = 365 * jy + jy \div 4 + n + 1722519
  <2>1. C \div 4 = jy \div 400
    BY <1>2, Centuries, SMT DEF Century
  <2>. QED
    BY <1>0, <1>2, <1>3, <1>6, <2>1, SMT DEF JulianDay, YearDays, Base, Century
<1>8. YearOf(ja) = jy + 4716
  <2>1. PICK days \in Int : days = 6680 * 36525 + 100 * (ja + 1524 - 2439870) - 12210
    BY <1>7, SMT
  <2>2. days >= 36525 * (jy + 4716) /\ days < 36525 * (jy + 4717)
    BY <1>0, <1>7, <2>1, SMT DEF InYear
  <2>3. days \div 36525 = jy + 4716
    BY <2>2, SMT
  <2>. QED
    BY <2>1, <2>2, <2>3, SMT DEF Quot, YearOf
<1>9. DayOf(ja) = n
  <2>1. Quot(jy + 4716, 4) = jy \div 4 + 1179
    BY SMT DEF Quot
  <2>. QED
    BY <1>0, <1>7, <1>8, <2>1, SMT DEF DayOf
<1>. QED
  BY <1>3, <1>4, <1>8, <1>9, SMT

(* julianToDate gives back every date of the calendar but one, the first   *)
(* of March 300.                                                           *)
THEOREM DatesBack ==
  ASSUME NEW y \in Nat \ {0}, NEW m \in 1..12, NEW d \in 1..DaysInMonth(y, m),
         ~(y = 300 /\ m = 3 /\ d = 1)
  PROVE  julianToDate(JULIAN_START + DayNumber(<<y, m, d>>)) = <<y, m, d>>
<1>0. y \in Int /\ y >= 1
  OBVIOUS
<1>1. d \in 1..31
  BY SMT DEF DaysInMonth
<1>2. /\ MonthDays(m) \in Int
      /\ Month(m) \in 4..15
  BY MonthTypes
<1>3. PICK jy \in Nat : jy = Year(y, m)
  BY SMT DEF Year
<1>4. PICK n \in Int : n = MonthDays(m) + d
  BY <1>1, <1>2, SMT
<1>5. PICK J : J = JULIAN_START + DayNumber(<<y, m, d>>)
  OBVIOUS
<1>6. InYear(jy, n)
  BY <1>0, <1>3, <1>4, YearSpan, SMT
<1>7. (10000 * n) \div 306001 = Month(m)
  BY <1>0, <1>4, SMT DEF DaysInMonth, MonthDays, Month, IsLeap
<1>8. J = JulianDay(jy, n)
  <2>1. J = YearDays(jy) + MonthDays(m) + d + Base
    BY <1>0, <1>1, <1>3, <1>5, DayFormula, Zenon
  <2>2. YearDays(jy) \in Int
    BY <1>3, SMT DEF YearDays
  <2>. QED
    BY <1>1, <1>2, <1>4, <2>1, <2>2, SMT DEF Base, JulianDay
<1>9. ~(jy = 300 /\ n = 123)
  BY <1>0, <1>1, <1>3, <1>4, SMT DEF MonthDays, Month, Year
<1>10. YearOf(Corrected(J)) = jy + 4716 /\ DayOf(Corrected(J)) = n
  BY <1>6, <1>8, <1>9, YearFound, SMT
<1>11. MonthOf(Corrected(J)) = Month(m)
  BY <1>6, <1>7, <1>10, SMT DEF Quot, MonthOf, InYear
<1>12. n - Quot(306001 * Month(m), 10000) = d
  <2>1. Quot(306001 * Month(m), 10000) = MonthDays(m)
    BY <1>2, SMT DEF Quot, MonthDays
  <2>. QED
    BY <1>1, <1>2, <1>4, <2>1, SMT
<1>13. julianToDate(J) = <<y, m, d>>
  BY <1>0, <1>1, <1>3, <1>10, <1>11, <1>12, FromSteps, SMT
<1>. QED
  BY <1>5, <1>13, Zenon

---------------------------------------------------------------------------
(* The calendar: every number is the day of one date, and the days are in  *)
(* the order of the dates.                                                 *)

(* A date of the calendar, in any year.                                    *)
Calendar(y, m, d) == y \in Int /\ m \in 1..12 /\ d \in 1..DaysInMonth(y, m)

(* The day before the first of a year.                                     *)
Eve(y) == 365 * (y - 1) + (y - 1) \div 4 - (y - 1) \div 100 + (y - 1) \div 400 - 730120
(* The days of a year.                                                     *)
Length(y) == IF IsLeap(y) THEN 366 ELSE 365
(* The day of the year.                                                    *)
Nth(y, m, d) == DaysBefore[m] + (IF m > 2 /\ IsLeap(y) THEN 1 ELSE 0) + d

(* A day is the last one before its year and the number it has in it.      *)
LEMMA YearAndDay ==
  ASSUME NEW y, NEW m, NEW d, Calendar(y, m, d)
  PROVE  /\ Eve(y) \in Int
         /\ Nth(y, m, d) \in 1..Length(y)
         /\ DayNumber(<<y, m, d>>) = Eve(y) + Nth(y, m, d)
         /\ DayNumber(<<y, m, d>>) \in Int
<1>1. Eve(y) \in Int
  BY SMT DEF Eve, Calendar
<1>2. Nth(y, m, d) \in 1..Length(y)
  BY SMT DEF Nth, Length, Calendar, DaysInMonth, DaysBefore
<1>3. d \in 1..31
  BY SMT DEF Calendar, DaysInMonth
<1>4. DayNumber(<<y, m, d>>) = Eve(y) + Nth(y, m, d)
  BY <1>3, SMT DEF Nth, Eve, Calendar, DaysBefore, DayNumber
<1>. QED
  BY <1>1, <1>2, <1>4, SMT DEF Length

(* A year ends with its last day.                                          *)
LEMMA NextEve ==
  ASSUME NEW y \in Int
  PROVE  Eve(y + 1) = Eve(y) + Length(y)
BY LeapDays, SMT DEF Eve, Length

(* All days of a year are before those of later years.                     *)
LEMMA EveOrder ==
  ASSUME NEW y \in Int, NEW z \in Int, y < z
  PROVE  Eve(y) + Length(y) <= Eve(z)
<1>2. Eve(y + 1) <= Eve(z)
  BY SMT DEF Eve
<1>. QED
  BY <1>2, NextEve, SMT

(* A day has one date, and the days are in the order of the years.         *)
LEMMA DaysOrdered ==
  ASSUME NEW y, NEW m, NEW d, Calendar(y, m, d), NEW yy, NEW mm, NEW dd, Calendar(yy, mm, dd),
         DayNumber(<<y, m, d>>) <= DayNumber(<<yy, mm, dd>>)
  PROVE  /\ y <= yy
         /\ DayNumber(<<y, m, d>>) = DayNumber(<<yy, mm, dd>>) => y = yy /\ m = mm /\ d = dd
<1>1. y \in Int /\ yy \in Int
  BY DEF Calendar
<1>2. y <= yy
  <2>. SUFFICES ASSUME yy < y PROVE FALSE
    BY <1>1, SMT
  <2>1. Eve(yy) + Length(yy) <= Eve(y)
    BY <1>1, EveOrder
  <2>. QED
    BY <1>1, <2>1, YearAndDay, SMT DEF Length
<1>3. ASSUME DayNumber(<<y, m, d>>) = DayNumber(<<yy, mm, dd>>) PROVE y = yy /\ m = mm /\ d = dd
  <2>1. y = yy
    <3>. SUFFICES ASSUME y < yy PROVE FALSE
      BY <1>1, <1>2, SMT
    <3>1. Eve(y) + Length(y) <= Eve(yy)
      BY <1>1, EveOrder
    <3>. QED
      BY <1>1, <1>3, <3>1, YearAndDay, SMT DEF Length
  <2>2. Nth(y, m, d) = Nth(y, mm, dd)
    BY <1>3, <2>1, YearAndDay, SMT DEF Length
  <2>3. m = mm /\ d = dd
    BY <2>1, <2>2, SMT DEF Nth, Calendar, DaysInMonth, DaysBefore
  <2>. QED
    BY <2>1, <2>3
<1>. QED
  BY <1>2, <1>3

(* A number in a range (whose ends are too far apart for a set).           *)
From(x, low, high) == x \in Int /\ low <= x /\ x <= high

(* Four hundred years are four centuries, of which the last has one day    *)
(* more.                                                                   *)
LEMMA SplitCenturies ==
  ASSUME NEW b \in Int, From(b, 0, 146096)
  PROVE  \E c, e : From(c, 0, 3) /\ From(e, 0, 36524) /\ b = 36524 * c + e /\ (c # 3 => e < 36524)
<1>. DEFINE c == IF b = 146096 THEN 3 ELSE b \div 36524
            e == b - 36524 * c
<1>1. From(c, 0, 3)
  BY SMT DEF From
<1>2. From(e, 0, 36524)
  BY SMT DEF From
<1>3. b = 36524 * c + e /\ (c # 3 => e < 36524)
  BY SMT DEF From
<1>. HIDE DEF c, e
<1>. QED
  BY <1>1, <1>2, <1>3, SMT

(* A century is 25 times four years, of which the last may have one day    *)
(* less.                                                                   *)
LEMMA SplitFours ==
  ASSUME NEW e \in Int, From(e, 0, 36524)
  PROVE  \E f, g : From(f, 0, 24) /\ From(g, 0, 1460) /\ e = 1461 * f + g
<1>. DEFINE f == e \div 1461
            g == e % 1461
<1>1. From(f, 0, 24)
  BY SMT DEF From
<1>2. From(g, 0, 1460)
  BY SMT DEF From
<1>3. e = 1461 * f + g
  BY SMT
<1>. HIDE DEF f, g
<1>. QED
  BY <1>1, <1>2, <1>3, SMT

(* Four years are four years, of which the last may have one day more.     *)
LEMMA SplitYears ==
  ASSUME NEW g \in Int, From(g, 0, 1460)
  PROVE  \E h, k : From(h, 0, 3) /\ From(k, 0, 365) /\ g = 365 * h + k /\ (h # 3 => k < 365)
<1>. DEFINE h == IF g = 1460 THEN 3 ELSE g \div 365
            k == g - 365 * h
<1>1. From(h, 0, 3)
  BY SMT DEF From
<1>2. From(k, 0, 365)
  BY SMT DEF From
<1>3. g = 365 * h + k /\ (h # 3 => k < 365)
  BY SMT DEF From
<1>. HIDE DEF h, k
<1>. QED
  BY <1>1, <1>2, <1>3, SMT

(* The parts of a year, which have the lengths of ever shorter cycles.     *)
LEMMA YearOfParts ==
  ASSUME NEW a \in Int, NEW c, NEW f, NEW h, NEW y,
         From(c, 0, 3), From(f, 0, 24), From(h, 0, 3),
         y = 400 * a + 100 * c + 4 * f + h + 1
  PROVE  /\ y \in Int
         /\ Eve(y) = 146097 * a + 36524 * c + 1461 * f + 365 * h - 730120
         /\ h = 3 /\ (f = 24 => c = 3) => IsLeap(y)
<1>1. y \in Int
  BY SMT DEF From
<1>2. (y - 1) \div 4 = 100 * a + 25 * c + f
  BY SMT DEF From
<1>3. (y - 1) \div 100 = 4 * a + c
  BY SMT DEF From
<1>4. (y - 1) \div 400 = a
  BY SMT DEF From
<1>5. Eve(y) = 365 * (400 * a + 100 * c + 4 * f + h) + (100 * a + 25 * c + f) - (4 * a + c) + a - 730120
  BY <1>2, <1>3, <1>4, SMT DEF Eve, From
<1>6. h = 3 => y % 4 = 0
  BY SMT DEF From
<1>7. h = 3 /\ f # 24 => y % 100 # 0
  BY SMT DEF From
<1>8. h = 3 /\ f = 24 /\ c = 3 => y % 400 = 0
  BY SMT DEF From
<1>. QED
  BY <1>1, <1>5, <1>6, <1>7, <1>8, SMT DEF IsLeap, From

(* Every number is that of a day in some year ...                          *)
LEMMA EveryYear ==
  ASSUME NEW n \in Int
  PROVE  \E y \in Int : \E k \in 1..Length(y) : n = Eve(y) + k
<1>. DEFINE a == (n + 730119) \div 146097
            b == (n + 730119) % 146097
<1>1. a \in Int /\ b \in Int
  BY SMT
<1>2. From(b, 0, 146096)
  BY SMT DEF From
<1>3. n + 730119 = a * 146097 + b
  BY SMT
<1>. HIDE DEF a, b
<1>4. PICK c, e : From(c, 0, 3) /\ From(e, 0, 36524) /\ b = 36524 * c + e /\ (c # 3 => e < 36524)
  BY <1>1, <1>2, SplitCenturies, SMT
<1>5. PICK f, g : From(f, 0, 24) /\ From(g, 0, 1460) /\ e = 1461 * f + g
  <2>1. e \in Int
    BY <1>4 DEF From
  <2>. QED
    BY <1>4, <2>1, SplitFours, SMT
<1>6. PICK h, k : From(h, 0, 3) /\ From(k, 0, 365) /\ g = 365 * h + k /\ (h # 3 => k < 365)
  <2>1. g \in Int
    BY <1>5 DEF From
  <2>. QED
    BY <1>5, <2>1, SplitYears, SMT
<1>7. PICK y : y = 400 * a + 100 * c + 4 * f + h + 1
  OBVIOUS
<1>8. /\ y \in Int
      /\ Eve(y) = 146097 * a + 36524 * c + 1461 * f + 365 * h - 730120
      /\ h = 3 /\ (f = 24 => c = 3) => IsLeap(y)
  BY <1>1, <1>4, <1>5, <1>6, <1>7, YearOfParts, SMT
<1>9. n = Eve(y) + (k + 1)
  BY <1>1, <1>3, <1>4, <1>5, <1>6, <1>8, SMT DEF From
<1>10. k = 365 => h = 3 /\ (f = 24 => c = 3)
  BY <1>4, <1>5, <1>6, SMT DEF From
<1>11. k + 1 \in 1..Length(y)
  BY <1>6, <1>8, <1>10, SMT DEF Length, From
<1>. QED
  BY <1>8, <1>9, <1>11

(* ... and of a date.                                                      *)
LEMMA EveryDay ==
  ASSUME NEW n \in Int
  PROVE  \E y, m, d : Calendar(y, m, d) /\ n = DayNumber(<<y, m, d>>)
<1>1. PICK y \in Int : \E k \in 1..Length(y) : n = Eve(y) + k
  BY EveryYear
<1>0. PICK k \in 1..Length(y) : n = Eve(y) + k
  BY <1>1
<1>2. \E m \in 1..12 : \E d \in 1..DaysInMonth(y, m) : k = Nth(y, m, d)
  <2>1. CASE IsLeap(y)
    <3>1. PICK m \in 1..12 : /\ k > DaysBefore[m] + (IF m > 2 THEN 1 ELSE 0)
                             /\ k <= DaysBefore[m] + (IF m > 2 THEN 1 ELSE 0) + DaysInMonth(y, m)
      BY <2>1, SMT DEF Length, DaysInMonth, DaysBefore
    <3>2. PICK d \in Int : d = k - (DaysBefore[m] + (IF m > 2 THEN 1 ELSE 0))
      BY SMT DEF DaysBefore, Length
    <3>. QED
      BY <2>1, <3>1, <3>2, SMT DEF Nth, DaysInMonth, DaysBefore, Length
  <2>2. CASE ~IsLeap(y)
    <3>1. PICK m \in 1..12 : k > DaysBefore[m] /\ k <= DaysBefore[m] + DaysInMonth(y, m)
      BY <2>2, SMT DEF Length, DaysInMonth, DaysBefore
    <3>2. PICK d \in Int : d = k - DaysBefore[m]
      BY SMT DEF DaysBefore, Length
    <3>. QED
      BY <2>2, <3>1, <3>2, SMT DEF Nth, DaysInMonth, DaysBefore, Length
  <2>. QED
    BY <2>1, <2>2
<1>. QED
  BY <1>0, <1>2, YearAndDay, SMT DEF Calendar

---------------------------------------------------------------------------
(* The dates of Python.                                                    *)

(* The one day that julianToDate gets wrong.                               *)
LEMMA Slip == julianToDate(JULIAN_START + DayNumber(<<300, 3, 1>>)) = <<300, 2, 29>>
<1>1. PICK J : J = JULIAN_START + DayNumber(<<300, 3, 1>>)
  OBVIOUS
<1>2. J = 1830692
  BY <1>1, SMT DEF JULIAN_START, DayNumber, DaysBefore, IsLeap
<1>3. Corrected(J) = 1830692
  BY <1>2, SMT DEF Corrected, Quot, GREGORIAN_OFFSET
<1>4. YearOf(1830692) = 5015
  BY SMT DEF YearOf, Quot
<1>5. DayOf(1830692) = 488
  BY <1>4, SMT DEF DayOf, Quot
<1>6. MonthOf(1830692) = 15
  BY <1>5, SMT DEF MonthOf, Quot
<1>7. julianToDate(J) = <<300, 2, 29>>
  BY <1>3, <1>4, <1>5, <1>6, SMT DEF julianToDate, Quot
<1>. QED
  BY <1>1, <1>7, SMT

(* All years of Python have at most four digits.                           *)
LEMMA MaxYear == MAXYEAR \in Int /\ MAXYEAR < 10000
  BY SMT DEF MAXYEAR

(* A day before the year 1 is no date of Python ...                        *)
LEMMA TooEarly ==
  ASSUME NEW J \in Int, J < JULIAN_START + DayNumber(<<1, 1, 1>>)
  PROVE  ~IsDate(julianToDate(J))
<1>1. J <= 1721425
  BY SMT DEF JULIAN_START, DayNumber, DaysBefore, IsLeap
<1>2. PICK ja : ja = Corrected(J)
  OBVIOUS
<1>3. ja \in Int /\ ja <= 1721423
  <2>1. CASE J < GREGORIAN_OFFSET
    BY <1>2, <2>1, SMT DEF Corrected, GREGORIAN_OFFSET
  <2>2. CASE J >= GREGORIAN_OFFSET
    <3>1. PICK num : num = 4 * (J - 1867216) - 1
      OBVIOUS
    <3>2. num \in Int /\ num <= -583165
      BY <1>1, <3>1, SMT
    <3>3. PICK a : a = Quot(num, 146097)
      OBVIOUS
    <3>4. a \in Int /\ a <= -3
      BY <3>2, <3>3, SMT DEF Quot
    <3>5. ja = J + (1 + a - Quot(a, 4))
      BY <1>2, <2>2, <3>1, <3>3 DEF Corrected
    <3>6. Quot(a, 4) \in Int /\ 1 + a - Quot(a, 4) <= -2
      BY <3>4, SMT DEF Quot
    <3>. QED
      BY <1>1, <3>4, <3>5, <3>6, SMT
  <2>. QED
    BY <2>1, <2>2, SMT DEF GREGORIAN_OFFSET
<1>4. PICK y : y = YearOf(ja)
  OBVIOUS
<1>5. y \in Int /\ y <= 4716
  BY <1>3, <1>4, SMT DEF YearOf, Quot
<1>6. PICK m : m = IF MonthOf(ja) - 1 > 12 THEN MonthOf(ja) - 13 ELSE MonthOf(ja) - 1
  OBVIOUS
<1>7. y = 4716 => m > 2
  <2>. SUFFICES ASSUME y = 4716 PROVE m > 2
    OBVIOUS
  <2>1. DayOf(ja) = ja - 1720995
    BY <1>3, <1>4, SMT DEF DayOf, Quot
  <2>2. ja >= 1721118
    BY <1>3, <1>4, SMT DEF YearOf, Quot
  <2>3. MonthOf(ja) \in 4..13
    BY <1>3, <2>1, <2>2, SMT DEF MonthOf, Quot
  <2>. QED
    BY <1>6, <2>3, SMT
<1>8. PICK year : year = y - 4715 - (IF m > 2 THEN 1 ELSE 0)
  OBVIOUS
<1>9. year \in Int /\ year <= 0
  BY <1>5, <1>7, <1>8, SMT
<1>10. julianToDate(J)[1] = IF year <= 0 THEN year - 1 ELSE year
  BY <1>2, <1>4, <1>6, <1>8 DEF julianToDate
<1>11. ~(julianToDate(J)[1] \in 1..MAXYEAR)
  BY <1>9, <1>10, MaxYear, SMT
<1>. QED
  BY <1>11 DEF IsDate

(* ... nor is one after the year 9999.                                     *)
LEMMA TooLate ==
  ASSUME NEW J \in Int, J > JULIAN_START + LastDay
  PROVE  ~IsDate(julianToDate(J))
<1>1. PICK n \in Int : J = JULIAN_START + n
  <2>1. J - JULIAN_START \in Int /\ J = JULIAN_START + (J - JULIAN_START)
    BY SMT DEF JULIAN_START
  <2>. QED
    BY <2>1
<1>2. PICK y, m, d : Calendar(y, m, d) /\ n = DayNumber(<<y, m, d>>)
  BY EveryDay
<1>3. Calendar(10000, 1, 1) /\ DayNumber(<<10000, 1, 1>>) = LastDay + 1
  BY SMT DEF LastDay, MAXYEAR, Calendar, DayNumber, DaysInMonth, DaysBefore, IsLeap
<1>4. LastDay \in Int
  BY SMT DEF LastDay, MAXYEAR, DayNumber, DaysBefore, IsLeap
<1>5. DayNumber(<<10000, 1, 1>>) <= n
  BY <1>1, <1>3, <1>4, SMT DEF JULIAN_START
<1>6. 10000 <= y
  BY <1>2, <1>3, <1>5, DaysOrdered, SMT
<1>7. y \in Nat \ {0} /\ m \in 1..12 /\ d \in 1..DaysInMonth(y, m)
  BY <1>2, <1>6, SMT DEF Calendar
<1>8. julianToDate(JULIAN_START + DayNumber(<<y, m, d>>)) = <<y, m, d>>
  BY <1>6, <1>7, DatesBack, SMT
<1>9. julianToDate(J)[1] = y
  BY <1>1, <1>2, <1>8, SMT
<1>. QED
  BY <1>6, <1>7, <1>9, MaxYear, SMT DEF IsDate

(* Python has the dates of the calendar from its first to its last.        *)
LEMMA PythonDays ==
  ASSUME NEW y, NEW m, NEW d, Calendar(y, m, d)
  PROVE  /\ FirstDay \in Int /\ LastDay \in Int
         /\ IsDate(<<y, m, d>>) <=> DayNumber(<<y, m, d>>) \in FirstDay..LastDay
<1>1. Calendar(1, 1, 1) /\ Calendar(0, 12, 31) /\ Calendar(9999, 12, 31) /\ Calendar(10000, 1, 1)
  BY SMT DEF Calendar, DaysInMonth
<1>2. /\ FirstDay = -730119 /\ LastDay = 2921939
      /\ DayNumber(<<0, 12, 31>>) = -730120 /\ DayNumber(<<10000, 1, 1>>) = 2921940
  <2>1. FirstDay = -730119
    BY SMT DEF FirstDay, DayNumber, DaysBefore, IsLeap
  <2>2. LastDay = 2921939
    BY SMT DEF LastDay, MAXYEAR, DayNumber, DaysBefore, IsLeap
  <2>3. DayNumber(<<0, 12, 31>>) = -730120
    <3>1. Eve(0) = -730486 /\ IsLeap(0)
      <4>1. ASSUME NEW e \in Int, -3 <= e, e <= 0 PROVE Eve(e) = 365 * (e - 1) - 730121
        BY <4>1, SMT DEF Eve
      <4>2. Eve(0) = 365 * (0 - 1) - 730121
        BY <4>1, SMT
      <4>3. IsLeap(0)
        BY SMT DEF IsLeap
      <4>. QED
        BY <4>2, <4>3, SMT
    <3>2. Nth(0, 12, 31) = 366
      BY <3>1, SMT DEF Nth, DaysBefore
    <3>. QED
      BY <1>1, <3>1, <3>2, YearAndDay, SMT
  <2>4. DayNumber(<<10000, 1, 1>>) = 2921940
    BY SMT DEF DayNumber, DaysBefore, IsLeap
  <2>. QED
    BY <2>1, <2>2, <2>3, <2>4, SMT
<1>3. PICK n \in Int : n = DayNumber(<<y, m, d>>)
  BY YearAndDay
<1>4. y \in Int /\ m \in 1..12 /\ d \in 1..DaysInMonth(y, m)
  BY DEF Calendar
<1>5. IsDate(<<y, m, d>>) <=> 1 <= y /\ y < 10000
  <2>1. MAXYEAR = 9999
    BY DEF MAXYEAR
  <2>. QED
    BY <1>4, <2>1, SMT DEF IsDate
<1>6. 1 <= y => FirstDay <= n
  <2>. SUFFICES ASSUME 1 <= y, n <= -730120 PROVE FALSE
    BY <1>2, <1>3, SMT
  <2>1. y <= 0
    BY <1>1, <1>2, <1>3, DaysOrdered, SMT
  <2>. QED
    BY <1>4, <2>1, SMT
<1>7. FirstDay <= n => 1 <= y
  BY <1>1, <1>3, DaysOrdered, SMT DEF FirstDay
<1>8. n <= LastDay => y <= 9999
  BY <1>1, <1>3, DaysOrdered, SMT DEF LastDay, MAXYEAR
<1>9. y < 10000 => n <= LastDay
  <2>. SUFFICES ASSUME y < 10000, 2921940 <= n PROVE FALSE
    BY <1>2, <1>3, SMT
  <2>1. 10000 <= y
    BY <1>1, <1>2, <1>3, DaysOrdered, SMT
  <2>. QED
    BY <1>4, <2>1, SMT
<1>10. FirstDay \in Int /\ LastDay \in Int
  BY <1>2, SMT
<1>11. IsDate(<<y, m, d>>) <=> FirstDay <= n /\ n <= LastDay
  BY <1>4, <1>5, <1>6, <1>7, <1>8, <1>9, SMT
<1>. QED
  BY <1>3, <1>10, <1>11, SMT

(* julianToDate gives the date of Python for a day, if there is one and it *)
(* is not the one that it gets wrong.  What it gives for any other day is  *)
(* no date of Python.                                                      *)
THEOREM DatesOfDays ==
  ASSUME NEW n \in Int
  PROVE  IF n \in FirstDay..LastDay /\ n # DayNumber(<<300, 3, 1>>)
         THEN /\ IsDate(julianToDate(JULIAN_START + n))
              /\ DayNumber(julianToDate(JULIAN_START + n)) = n
         ELSE ~IsDate(julianToDate(JULIAN_START + n))
<1>1. PICK y, m, d : Calendar(y, m, d) /\ n = DayNumber(<<y, m, d>>)
  BY EveryDay
<1>2. FirstDay \in Int /\ LastDay \in Int /\ JULIAN_START + n \in Int
  BY <1>1, PythonDays, SMT DEF JULIAN_START
<1>3. CASE n < FirstDay
  <2>1. JULIAN_START + n < JULIAN_START + FirstDay
    BY <1>2, <1>3, SMT DEF JULIAN_START
  <2>2. ~IsDate(julianToDate(JULIAN_START + n))
    BY <1>2, <2>1, TooEarly DEF FirstDay
  <2>. QED
    BY <1>2, <1>3, <2>2, SMT
<1>4. CASE n > LastDay
  <2>1. JULIAN_START + n > JULIAN_START + LastDay
    BY <1>2, <1>4, SMT DEF JULIAN_START
  <2>2. ~IsDate(julianToDate(JULIAN_START + n))
    BY <1>2, <2>1, TooLate
  <2>. QED
    BY <1>2, <1>4, <2>2, SMT
<1>5. CASE n = DayNumber(<<300, 3, 1>>)
  <2>1. ~IsDate(<<300, 2, 29>>)
    BY SMT DEF IsDate, DaysInMonth, IsLeap
  <2>2. julianToDate(JULIAN_START + n) = <<300, 2, 29>>
    BY <1>5, Slip
  <2>. QED
    BY <1>5, <2>1, <2>2
<1>6. CASE n \in FirstDay..LastDay /\ n # DayNumber(<<300, 3, 1>>)
  <2>1. IsDate(<<y, m, d>>)
    BY <1>1, <1>6, PythonDays
  <2>2. y \in Nat \ {0} /\ m \in 1..12 /\ d \in 1..DaysInMonth(y, m)
    BY <1>1, <2>1, MaxYear, SMT DEF IsDate, Calendar
  <2>3. ~(y = 300 /\ m = 3 /\ d = 1)
    BY <1>1, <1>6
  <2>4. julianToDate(JULIAN_START + n) = <<y, m, d>>
    BY <1>1, <2>2, <2>3, DatesBack
  <2>. QED
    BY <1>1, <1>6, <2>1, <2>4
<1>. QED
  BY <1>2, <1>3, <1>4, <1>5, <1>6, SMT

(* The Julian calendar is at most two days behind and ten days ahead of    *)
(* the Gregorian one before the latter began, and they agree in the third  *)
(* century only.                                                           *)
LEMMA AheadBounds ==
  ASSUME NEW y, NEW m, NEW d, Calendar(y, m, d), 1 <= y, DayNumber(<<y, m, d>>) < Reform
  PROVE  /\ Ahead(y, m) \in Int /\ -2 <= Ahead(y, m) /\ Ahead(y, m) <= 10
         /\ Ahead(y, m) = 0 <=> Year(y, m) >= 200 /\ Year(y, m) < 300
<1>1. y <= 1582
  <2>1. Calendar(1582, 10, 15)
    BY SMT DEF Calendar, DaysInMonth
  <2>2. Reform \in Int /\ DayNumber(<<y, m, d>>) \in Int
    BY <2>1, YearAndDay DEF Reform
  <2>. QED
    BY <2>1, <2>2, DaysOrdered, SMT DEF Reform
<1>2. PICK jy \in Int : jy = Year(y, m) /\ 0 <= jy /\ jy <= 1582
  BY <1>1, SMT DEF Year, Calendar
<1>3. PICK C \in Int : C = jy \div 100
  BY SMT
<1>4. Ahead(y, m) = C - C \div 4 - 2
  BY <1>2, <1>3 DEF Ahead
<1>5. 0 <= C /\ C <= 15
  BY <1>2, <1>3, SMT
<1>6. C = 2 <=> jy >= 200 /\ jy < 300
  BY <1>2, <1>3, SMT
<1>7. C - C \div 4 - 2 = 0 <=> C = 2
  BY <1>5, SMT
<1>8. C - C \div 4 - 2 \in Int /\ -2 <= C - C \div 4 - 2 /\ C - C \div 4 - 2 <= 10
  BY <1>5, SMT
<1>. QED
  BY <1>2, <1>4, <1>6, <1>7, <1>8

(* In the third century is all from March 200 to February 300.             *)
LEMMA ThirdCentury ==
  ASSUME NEW y, NEW m, NEW d, Calendar(y, m, d)
  PROVE  Year(y, m) >= 200 /\ Year(y, m) < 300
         <=> DayNumber(<<y, m, d>>) \in DayNumber(<<200, 3, 1>>)..DayNumber(<<300, 2, 28>>)
<1>1. Calendar(200, 3, 1) /\ Calendar(300, 2, 28) /\ Calendar(200, 2, 28) /\ Calendar(300, 3, 1)
  BY SMT DEF Calendar, DaysInMonth
<1>2. PICK n \in Int : n = DayNumber(<<y, m, d>>)
  BY YearAndDay
<1>3. /\ DayNumber(<<200, 3, 1>>) = -657377 /\ DayNumber(<<300, 2, 28>>) = -620854
  <2>1. DayNumber(<<200, 3, 1>>) = -657377
    BY SMT DEF DayNumber, DaysBefore, IsLeap
  <2>2. DayNumber(<<300, 2, 28>>) = -620854
    BY SMT DEF DayNumber, DaysBefore, IsLeap
  <2>. QED
    BY <2>1, <2>2
<1>4. y \in Int /\ m \in 1..12 /\ d \in 1..31
  BY SMT DEF Calendar, DaysInMonth
<1>5. PICK k \in Int : k = Nth(y, m, d)
  BY <1>4, SMT DEF Nth, DaysBefore
<1>6. n = Eve(y) + k
  BY <1>2, <1>5, YearAndDay
<1>7. Eve(200) = -657437 /\ Eve(300) = -620913
  BY SMT DEF Eve
<1>8. Eve(y) \in Int /\ k \in 1..Length(y)
  BY <1>5, YearAndDay
<1>9. CASE y < 200
  <2>1. Eve(y) + Length(y) <= Eve(200)
    BY <1>4, <1>9, EveOrder, SMT
  <2>2. Year(y, m) \in Int /\ Year(y, m) < 200
    BY <1>4, <1>9, SMT DEF Year
  <2>3. n < -657377
    BY <1>6, <1>7, <1>8, <2>1, SMT DEF Length
  <2>. QED
    BY <1>2, <1>3, <2>2, <2>3, SMT
<1>10. CASE y > 300
  <2>1. Eve(300) + Length(300) <= Eve(y)
    BY <1>4, <1>10, EveOrder, SMT
  <2>2. Year(y, m) \in Int /\ Year(y, m) >= 300
    BY <1>4, <1>10, SMT DEF Year
  <2>3. n > -620854
    BY <1>6, <1>7, <1>8, <2>1, SMT DEF Length, IsLeap
  <2>. QED
    BY <1>2, <1>3, <2>2, <2>3, SMT
<1>11. CASE y > 200 /\ y < 300
  <2>1. Eve(200) + Length(200) <= Eve(y)
    BY <1>4, <1>11, EveOrder, SMT
  <2>2. Eve(y) + Length(y) <= Eve(300)
    BY <1>4, <1>11, EveOrder, SMT
  <2>3. Year(y, m) >= 200 /\ Year(y, m) < 300
    BY <1>4, <1>11, SMT DEF Year
  <2>4. n >= -657377 /\ n <= -620854
    BY <1>6, <1>7, <1>8, <2>1, <2>2, SMT DEF Length, IsLeap
  <2>. QED
    BY <1>2, <1>3, <2>3, <2>4, SMT
<1>12. CASE y = 200
  <2>1. n >= -657377 <=> m > 2
    BY <1>4, <1>5, <1>6, <1>7, <1>12, SMT DEF Nth, DaysBefore, IsLeap, Calendar, DaysInMonth
  <2>2. n <= -620854
    BY <1>6, <1>7, <1>8, <1>12, SMT DEF Length
  <2>. QED
    BY <1>2, <1>3, <1>4, <1>12, <2>1, <2>2, SMT DEF Year
<1>13. CASE y = 300
  <2>1. n <= -620854 <=> ~(m > 2)
    BY <1>4, <1>5, <1>6, <1>7, <1>13, SMT DEF Nth, DaysBefore, IsLeap, Calendar, DaysInMonth
  <2>2. n >= -657377
    BY <1>6, <1>7, <1>8, <1>13, SMT DEF Length
  <2>. QED
    BY <1>2, <1>3, <1>4, <1>13, <2>1, <2>2, SMT DEF Year
<1>. QED
  BY <1>4, <1>9, <1>10, <1>11, <1>12, <1>13, SMT

(* dateToJulian gives the day of every date that the code does not take    *)
(* for one of the Julian calendar, or that is the same in both; and never  *)
(* one that is off by more than ten days.                                  *)
THEOREM DaysOfDates ==
  ASSUME NEW date, IsDate(date), date = <<date[1], date[2], date[3]>>
  PROVE  \E ahead \in Int :
            /\ dateToJulian(date) = JULIAN_START + DayNumber(date) + ahead
            /\ -2 <= ahead /\ ahead <= 10
            /\ ahead = 0 <=>
                 \/ DayNumber(date) >= Reform
                 \/ DayNumber(date) \in DayNumber(<<200, 3, 1>>)..DayNumber(<<300, 2, 28>>)
<1>1. PICK y, m, d : y = date[1] /\ m = date[2] /\ d = date[3] /\ date = <<y, m, d>>
  OBVIOUS
<1>2. Calendar(y, m, d) /\ 1 <= y /\ y \in Nat \ {0}
  BY <1>1, MaxYear, SMT DEF IsDate, Calendar
<1>3. DayNumber(date) \in Int /\ Reform \in Int
  <2>1. Calendar(1582, 10, 15)
    BY SMT DEF Calendar, DaysInMonth
  <2>. QED
    BY <1>1, <1>2, <2>1, YearAndDay DEF Reform
<1>4. dateToJulian(date)
      = JULIAN_START + DayNumber(date) + (IF DayNumber(date) >= Reform THEN 0 ELSE Ahead(y, m))
  BY <1>1, <1>2, JulianDays DEF Calendar
<1>5. CASE DayNumber(date) >= Reform
  BY <1>3, <1>4, <1>5, SMT
<1>6. CASE ~(DayNumber(date) >= Reform)
  <2>1. DayNumber(date) < Reform
    BY <1>3, <1>6, SMT
  <2>2. /\ Ahead(y, m) \in Int /\ -2 <= Ahead(y, m) /\ Ahead(y, m) <= 10
        /\ Ahead(y, m) = 0 <=> Year(y, m) >= 200 /\ Year(y, m) < 300
    BY <1>1, <1>2, <2>1, AheadBounds, SMT
  <2>3. Year(y, m) >= 200 /\ Year(y, m) < 300
        <=> DayNumber(date) \in DayNumber(<<200, 3, 1>>)..DayNumber(<<300, 2, 28>>)
    <3>1. Year(y, m) >= 200 /\ Year(y, m) < 300
          <=> DayNumber(<<y, m, d>>) \in DayNumber(<<200, 3, 1>>)..DayNumber(<<300, 2, 28>>)
      BY <1>2, ThirdCentury
    <3>. QED
      BY <1>1, <3>1, Zenon
  <2>4. dateToJulian(date) = JULIAN_START + DayNumber(date) + Ahead(y, m)
    BY <1>4, <1>6
  <2>. QED
    BY <1>6, <2>2, <2>3, <2>4
<1>. QED
  BY <1>5, <1>6

(* The year of a day is at most one off the estimate by which the date of  *)
(* a text is looked for.                                                   *)
LEMMA About ==
  ASSUME NEW y, NEW m, NEW d, Calendar(y, m, d)
  PROVE  LET about == (400 * DayNumber(<<y, m, d>>)) \div 146097 + 2000
         IN  y \in (about - 1)..(about + 1)
<1>1. PICK n \in Int : n = DayNumber(<<y, m, d>>)
  BY YearAndDay
<1>2. PICK p \in Int : p = y - 1
  BY SMT DEF Calendar
<1>3. y \in Int /\ y = p + 1
  BY <1>2, SMT DEF Calendar
<1>4. n > Eve(y) /\ n <= Eve(y) + 366 /\ Eve(y) \in Int
  BY <1>1, YearAndDay, SMT DEF Length
<1>5. PICK a \in Int, b \in Int, c \in Int : a = p \div 4 /\ b = p \div 100 /\ c = p \div 400
  BY SMT
<1>6. /\ 4 * a <= p /\ p <= 4 * a + 3
      /\ 100 * b <= p /\ p <= 100 * b + 99
      /\ 400 * c <= p /\ p <= 400 * c + 399
  BY <1>5, SMT
<1>7. Eve(y) = 365 * p + a - b + c - 730120
  BY <1>2, <1>5, SMT DEF Eve
<1>8. 400 * n >= 146097 * (y - 2001) /\ 400 * n < 146097 * (y - 1998)
  BY <1>3, <1>4, <1>6, <1>7, SMT
<1>9. PICK about \in Int : about = (400 * n) \div 146097 + 2000
  BY SMT
<1>10. y - 1 <= about /\ about <= y + 1
  BY <1>3, <1>8, <1>9, SMT
<1>. QED
  BY <1>1, <1>3, <1>9, <1>10, SMT

---------------------------------------------------------------------------
(* Integers, their bits, and the least and the greatest of a set.          *)

(* A quotient and a rest are those of a division, whatever the divisor.    *)
LEMMA Division ==
    ASSUME NEW m \in Nat \ {0}, NEW q \in Int, NEW r \in 0..(m - 1)
    PROVE  (q * m + r) \div m = q /\ (q * m + r) % m = r
<1>1. q * m + r \in Int
  OBVIOUS
<1> QED
  BY <1>1, SMTT(30)

(* A number is the sum of its parts.                                       *)
LEMMA Divided ==
    ASSUME NEW m \in Nat \ {0}, NEW n \in Int
    PROVE  /\ n \div m \in Int /\ n % m \in 0..(m - 1)
           /\ n = (n \div m) * m + (n % m)
<1>1. n \div m \in Int
  OBVIOUS
<1>2. n % m \in 0..(m - 1)
  OBVIOUS
<1>3. n = m * (n \div m) + (n % m)
  OBVIOUS
<1> QED
  BY <1>1, <1>2, <1>3

(* A number that fits its type comes back from its bits.                   *)
LEMMA SignedBack ==
    ASSUME NEW w \in Nat \ {0}, NEW n \in Int, Fits(n, w)
    PROVE Unsigned(n, w) \in 0..(2 * w - 1) /\ Signed(Unsigned(n, w), w) = n
BY SMTT(30) DEF Fits, Unsigned, Signed

(* The bits of any number are within their type ...                        *)
LEMMA UnsignedRange ==
    ASSUME NEW w \in Nat \ {0}, NEW n \in Int
    PROVE Unsigned(n, w) \in 0..(2 * w - 1)
<1>1. 2 * w \in Nat \ {0}
  OBVIOUS
<1>. QED
  BY <1>1, Divided DEF Unsigned

(* ... and any bits are a number that fits.                                *)
LEMMA SignedFits ==
    ASSUME NEW w \in Nat \ {0}, NEW u \in 0..(2 * w - 1)
    PROVE Signed(u, w) \in Int /\ Fits(Signed(u, w), w)
BY SMTT(30) DEF Fits, Signed

(* The limits are positive and in their order.                             *)
LEMMA Limits == /\ SmallLimit \in Nat \ {0} /\ IntLimit \in Nat \ {0} /\ LongLimit \in Nat \ {0}
                /\ SmallLimit < IntLimit /\ IntLimit < LongLimit
BY ValuesAssumption

(* The least number of a set ...                                           *)
LEMMA MinIs ==
    ASSUME NEW S, NEW x \in S, \A y \in S : y \in Int, \A y \in S : x <= y
    PROVE  Min(S) = x
<1>1. \A z \in S : (\A y \in S : z <= y) => z = x
  BY SMT
<1>. QED
  BY <1>1 DEF Min

(* ... and the greatest are known if there is one.                         *)
LEMMA MaxIs ==
    ASSUME NEW S, NEW x \in S, \A y \in S : y \in Int, \A y \in S : x >= y
    PROVE  Max(S) = x
<1>1. \A z \in S : (\A y \in S : z >= y) => z = x
  BY SMT
<1>. QED
  BY <1>1 DEF Max

---------------------------------------------------------------------------
(* Induction, recursion and the powers of ten.                             *)

(* A set of numbers that is not empty has a least one.                     *)
LEMMA Least ==
    ASSUME NEW S \in SUBSET Nat, S # {}
    PROVE  \E m \in S : \A n \in S : m <= n
<1> DEFINE R == {p \in Nat \X Nat : p[1] < p[2]}
<1>1. IsWellFoundedOn(R, Nat)
  BY NatLessThanWellFounded DEF OpToRel
<1>2. PICK m \in S : \A n \in S : ~(<<n, m>> \in R)
  BY <1>1, WFMin
<1>3. \A n \in S : m <= n
  <2> TAKE n \in S
  <2>1. n \in Nat /\ m \in Nat
    OBVIOUS
  <2>2. ~(n < m)
    BY <1>2, <2>1
  <2> QED
    BY <2>1, <2>2
<1> QED
  BY <1>3

(* Induction, as a set: one that has 0 and with each number the next has   *)
(* all of them.                                                            *)
LEMMA Induct ==
    ASSUME NEW S, 0 \in S, \A n \in Nat : n \in S => n + 1 \in S
    PROVE  \A n \in Nat : n \in S
<1>. SUFFICES ASSUME Nat \ S # {} PROVE FALSE
  OBVIOUS
<1>1. PICK m \in Nat \ S : \A n \in Nat \ S : m <= n
  BY Least
<1>2. m # 0 /\ m - 1 \in Nat /\ (m - 1) + 1 = m
  BY <1>1
<1>3. m - 1 \in S
  BY <1>1, <1>2
<1>. QED
  BY <1>2, <1>3

(* The first steps of a recursion ...                                      *)
Steps(a, b, g, n, t) ==
    /\ t \in [0..n -> Int] /\ t[0] = a
    /\ \A k \in 1..n : t[k] = b * t[k - 1] + g[k]

(* ... are the same however many there are ...                             *)
LEMMA SameSteps ==
    ASSUME NEW a, NEW b, NEW g, NEW n \in Nat, NEW t, Steps(a, b, g, n, t),
           NEW m \in Nat, NEW u, Steps(a, b, g, m, u)
    PROVE  \A k \in Nat : k <= n /\ k <= m => t[k] = u[k]
<1>. DEFINE S == {k \in Nat : k <= n /\ k <= m => t[k] = u[k]}
<1>1. 0 \in S
  BY DEF Steps
<1>2. ASSUME NEW k \in Nat, k \in S PROVE k + 1 \in S
  <2>. SUFFICES ASSUME k + 1 <= n, k + 1 <= m PROVE t[k + 1] = u[k + 1]
    OBVIOUS
  <2>1. k + 1 \in 1..n /\ k + 1 \in 1..m /\ (k + 1) - 1 = k
    OBVIOUS
  <2>2. t[k] = u[k]
    BY <1>2
  <2>3. t[k + 1] = b * t[k] + g[k + 1] /\ u[k + 1] = b * u[k] + g[k + 1]
    BY <2>1 DEF Steps
  <2>. QED
    BY <2>2, <2>3
<1>3. \A k \in Nat : k \in S
  <2>. HIDE DEF S
  <2>. QED
    BY <1>1, <1>2, Induct
<1>. QED
  BY <1>3

(* ... and there are so many as one likes.                                 *)
LEMMA AllSteps ==
    ASSUME NEW a \in Int, NEW b \in Int, NEW g \in [Nat -> Int]
    PROVE  \A n \in Nat : \E t : Steps(a, b, g, n, t)
<1>. DEFINE S == {n \in Nat : \E t : Steps(a, b, g, n, t)}
<1>1. 0 \in S
  <2>. DEFINE t == [k \in 0..0 |-> a]
  <2>1. Steps(a, b, g, 0, t)
    BY DEF Steps
  <2>. QED
    BY <2>1
<1>2. ASSUME NEW n \in Nat, n \in S PROVE n + 1 \in S
  <2>1. PICK t : Steps(a, b, g, n, t)
    BY <1>2
  <2>. DEFINE u == [k \in 0..(n + 1) |-> IF k = n + 1 THEN b * t[n] + g[n + 1] ELSE t[k]]
  <2>2. t \in [0..n -> Int] /\ t[0] = a /\ \A k \in 1..n : t[k] = b * t[k - 1] + g[k]
    BY <2>1 DEF Steps
  <2>3. u \in [0..(n + 1) -> Int]
    BY <2>2
  <2>4. u[0] = a
    BY <2>2
  <2>5. ASSUME NEW k \in 1..(n + 1) PROVE u[k] = b * u[k - 1] + g[k]
    <3>1. CASE k = n + 1
      BY <2>2, <3>1
    <3>2. CASE k # n + 1
      <4>1. k \in 1..n /\ k - 1 \in 0..n
        BY <3>2
      <4>. QED
        BY <2>2, <4>1
    <3>. QED
      BY <3>1, <3>2
  <2>6. Steps(a, b, g, n + 1, u)
    <3>. HIDE DEF u
    <3>. QED
      BY <2>3, <2>4, <2>5 DEF Steps
  <2>. QED
    BY <2>6
<1>3. \A n \in Nat : n \in S
  <2>. HIDE DEF S
  <2>. QED
    BY <1>1, <1>2, Induct
<1>. QED
  BY <1>3

(* So there is the function of all of them.                                *)
Recursive(a, b, g, f) ==
    /\ f \in [Nat -> Int] /\ f[0] = a
    /\ \A k \in Nat \ {0} : f[k] = b * f[k - 1] + g[k]

LEMMA Recursion ==
    ASSUME NEW a \in Int, NEW b \in Int, NEW g \in [Nat -> Int]
    PROVE  \E f : Recursive(a, b, g, f)
<1>. DEFINE t(n) == CHOOSE u : Steps(a, b, g, n, u)
            f == [n \in Nat |-> t(n)[n]]
<1>1. ASSUME NEW n \in Nat PROVE Steps(a, b, g, n, t(n))
  BY AllSteps
<1>. HIDE DEF t
<1>2. ASSUME NEW n \in Nat PROVE f[n] \in Int
  BY <1>1 DEF Steps
<1>3. f[0] = a
  BY <1>1 DEF Steps
<1>4. ASSUME NEW k \in Nat \ {0} PROVE f[k] = b * f[k - 1] + g[k]
  <2>1. Steps(a, b, g, k, t(k)) /\ Steps(a, b, g, k - 1, t(k - 1)) /\ k - 1 \in Nat
    BY <1>1
  <2>2. t(k)[k - 1] = t(k - 1)[k - 1]
    BY <2>1, SameSteps
  <2>3. k \in 1..k
    OBVIOUS
  <2>4. t(k)[k] = b * t(k)[k - 1] + g[k]
    BY <2>1, <2>3 DEF Steps
  <2>. QED
    BY <2>1, <2>2, <2>4
<1>5. f \in [Nat -> Int]
  BY <1>2
<1>6. Recursive(a, b, g, f)
  <2>. HIDE DEF f
  <2>. QED
    BY <1>3, <1>4, <1>5 DEF Recursive
<1>. QED
  BY <1>6

(* The powers of ten.                                                      *)
LEMMA Powers ==
    /\ \A n \in Nat : TenTo[n] \in Nat \ {0}
    /\ TenTo[0] = 1
    /\ \A n \in Nat : TenTo[n + 1] = 10 * TenTo[n]
<1>. DEFINE Is(h) == h = [n \in Nat |-> IF n = 0 THEN 1 ELSE 10 * h[n - 1]]
<1>1. \E h : Is(h)
  <2>. DEFINE g == [k \in Nat |-> 0]
  <2>0. g \in [Nat -> Int]
    OBVIOUS
  <2>1. PICK f : Recursive(1, 10, g, f)
    <3>. HIDE DEF g
    <3>. QED
      BY <2>0, Recursion, 1 \in Int, 10 \in Int
  <2>2. \A k \in Nat \ {0} : f[k] = 10 * f[k - 1]
    BY <2>1 DEF Recursive
  <2>3. Is(f)
    BY <2>1, <2>2 DEF Recursive
  <2>. QED
    BY <2>3
<1>2. Is(TenTo)
  <2>1. TenTo = CHOOSE h : Is(h)
    BY DEF TenTo
  <2>. HIDE DEF Is
  <2>. QED
    BY <1>1, <2>1
<1>3. TenTo[0] = 1 /\ \A n \in Nat : TenTo[n + 1] = 10 * TenTo[n]
  BY <1>2
<1>. DEFINE S == {n \in Nat : TenTo[n] \in Nat \ {0}}
<1>4. 0 \in S /\ \A n \in Nat : n \in S => n + 1 \in S
  BY <1>3
<1>5. \A n \in Nat : n \in S
  <2>. HIDE DEF S
  <2>. QED
    BY <1>4, Induct
<1>. QED
  BY <1>3, <1>5

(* A power of a sum is the product of the powers ...                       *)
LEMMA PowerSum == \A m, n \in Nat : TenTo[m + n] = TenTo[m] * TenTo[n]
<1>. SUFFICES ASSUME NEW m \in Nat PROVE \A n \in Nat : TenTo[m + n] = TenTo[m] * TenTo[n]
  OBVIOUS
<1>. DEFINE S == {n \in Nat : TenTo[m + n] = TenTo[m] * TenTo[n]}
<1>1. 0 \in S
  BY Powers
<1>2. ASSUME NEW n \in Nat, n \in S PROVE n + 1 \in S
  <2>1. PICK a \in Nat, b \in Nat : a = TenTo[m] /\ b = TenTo[n]
    BY Powers
  <2>2. TenTo[m + n] = a * b
    BY <1>2, <2>1
  <2>3. m + n \in Nat /\ m + (n + 1) = (m + n) + 1
    OBVIOUS
  <2>4. TenTo[m + (n + 1)] = 10 * (a * b) /\ TenTo[n + 1] = 10 * b
    BY <2>1, <2>2, <2>3, Powers
  <2>5. 10 * (a * b) = a * (10 * b)
    BY SMT
  <2>. QED
    BY <2>1, <2>4, <2>5
<1>3. \A n \in Nat : n \in S
  <2>. HIDE DEF S
  <2>. QED
    BY <1>1, <1>2, Induct
<1>. QED
  BY <1>3

(* ... so that a greater one has a greater power.                          *)
LEMMA PowerOrder ==
    ASSUME NEW m \in Nat, NEW n \in Nat, m <= n
    PROVE  /\ TenTo[n] = TenTo[m] * TenTo[n - m]
           /\ TenTo[m] <= TenTo[n]
           /\ m < n => 10 * TenTo[m] <= TenTo[n]
<1>1. n - m \in Nat /\ m + (n - m) = n
  OBVIOUS
<1>2. TenTo[n] = TenTo[m] * TenTo[n - m]
  BY <1>1, PowerSum
<1>3. PICK a \in Nat \ {0}, b \in Nat \ {0} : a = TenTo[m] /\ b = TenTo[n - m]
  BY <1>1, Powers
<1>4. a <= a * b
  BY SMT
<1>5. ASSUME m < n PROVE 10 * a <= TenTo[n]
  <2>1. n - m - 1 \in Nat /\ n - m = (n - m - 1) + 1
    BY <1>5
  <2>2. PICK d \in Nat \ {0} : d = TenTo[n - m - 1] /\ b = 10 * d
    BY <1>3, <2>1, Powers
  <2>3. a * b = 10 * (a * d) /\ a <= a * d /\ a * d \in Int
    BY <2>2, SMT
  <2>. QED
    BY <1>2, <1>3, <2>3
<1>. QED
  BY <1>2, <1>3, <1>4, <1>5

---------------------------------------------------------------------------
(* Parameters.                                                             *)

(* BindParams binds a value by the first test that it passes ...           *)
LEMMA Dispatch ==
    ASSUME NEW v, NEW k \in 1..14, IsInstance(v, Checks[k]),
           \A i \in 1..14 : i < k => ~IsInstance(v, Checks[i])
    PROVE  Bind(v) = BindAs(Checks[k], v)
<1>. DEFINE passed == {i \in DOMAIN Checks : IsInstance(v, Checks[i])}
<1>1. DOMAIN Checks = 1..14
  BY DEF Checks
<1>2. k \in passed /\ (\A i \in passed : i \in Int) /\ (\A i \in passed : k <= i)
  BY <1>1, SMT
<1>3. Min(passed) = k
  <2>. HIDE DEF passed
  <2>. QED BY <1>2, MinIs
<1>. QED
  BY <1>2, <1>3 DEF Bind

---------------------------------------------------------------------------
(* The tests of BindParams.                                                *)

(* The classes that BindParams tests for.                                  *)
Classes == {"None", "bool", "int", "str", "Decimal", "datetime", "datetimetz",
            "date", "time", "timetz", "timedelta", "float", "bytes",
            "bytearray", "UUID", "list"}

(* ... which is the one for its own class.                                 *)
LEMMA Bindings ==
    ASSUME NEW v
    PROVE  /\ Class(v) = "None" => Bind(v) = BindNone(v)
           /\ Class(v) = "bool" => Bind(v) = BindBool(v)
           /\ Class(v) = "int" => Bind(v) = BindLong(v)
           /\ Class(v) = "str" => Bind(v) = BindUnicode(v)
           /\ Class(v) = "Decimal" => Bind(v) = BindDecimal(v)
           /\ Class(v) \in {"datetime", "datetimetz"} => Bind(v) = BindDateTime(v)
           /\ Class(v) = "date" => Bind(v) = BindDate(v)
           /\ Class(v) \in {"time", "timetz"} => Bind(v) = BindTime(v)
           /\ Class(v) = "timedelta" => Bind(v) = BindDelta(v)
           /\ Class(v) = "float" => Bind(v) = BindFloat(v)
           /\ Class(v) = "bytes" => Bind(v) = BindBytes(v)
           /\ Class(v) = "bytearray" => Bind(v) = BindBytes(v)
           /\ Class(v) = "UUID" => Bind(v) = BindUUID(v)
           /\ Class(v) = "list" => Bind(v) = BindArray(v)
           /\ Class(v) \notin Classes => Bind(v) = Raised
<1>0. /\ DOMAIN Checks = 1..14
      /\ Checks[1] = "None"
      /\ Checks[2] = "bool"
      /\ Checks[3] = "int"
      /\ Checks[4] = "str"
      /\ Checks[5] = "Decimal"
      /\ Checks[6] = "datetime"
      /\ Checks[7] = "date"
      /\ Checks[8] = "time"
      /\ Checks[9] = "timedelta"
      /\ Checks[10] = "float"
      /\ Checks[11] = "bytes"
      /\ Checks[12] = "bytearray"
      /\ Checks[13] = "UUID"
      /\ Checks[14] = "list"
  BY DEF Checks
<1>1. ASSUME Class(v) = "None" PROVE Bind(v) = BindNone(v)
  <2>1. IsInstance(v, Checks[1]) /\ \A i \in 1..14 : i < 1 => ~IsInstance(v, Checks[i])
    BY <1>0, <1>1, SMT DEF IsInstance
  <2>2. Bind(v) = BindAs(Checks[1], v)
    BY <2>1, Dispatch, SMT
  <2>. QED
    BY <1>0, <2>2, SMT DEF BindAs
<1>2. ASSUME Class(v) = "bool" PROVE Bind(v) = BindBool(v)
  <2>1. IsInstance(v, Checks[2]) /\ \A i \in 1..14 : i < 2 => ~IsInstance(v, Checks[i])
    BY <1>0, <1>2, SMT DEF IsInstance
  <2>2. Bind(v) = BindAs(Checks[2], v)
    BY <2>1, Dispatch, SMT
  <2>. QED
    BY <1>0, <2>2, SMT DEF BindAs
<1>3. ASSUME Class(v) = "int" PROVE Bind(v) = BindLong(v)
  <2>1. IsInstance(v, Checks[3]) /\ \A i \in 1..14 : i < 3 => ~IsInstance(v, Checks[i])
    BY <1>0, <1>3, SMT DEF IsInstance
  <2>2. Bind(v) = BindAs(Checks[3], v)
    BY <2>1, Dispatch, SMT
  <2>. QED
    BY <1>0, <2>2, SMT DEF BindAs
<1>4. ASSUME Class(v) = "str" PROVE Bind(v) = BindUnicode(v)
  <2>1. IsInstance(v, Checks[4]) /\ \A i \in 1..14 : i < 4 => ~IsInstance(v, Checks[i])
    BY <1>0, <1>4, SMT DEF IsInstance
  <2>2. Bind(v) = BindAs(Checks[4], v)
    BY <2>1, Dispatch, SMT
  <2>. QED
    BY <1>0, <2>2, SMT DEF BindAs
<1>5. ASSUME Class(v) = "Decimal" PROVE Bind(v) = BindDecimal(v)
  <2>1. IsInstance(v, Checks[5]) /\ \A i \in 1..14 : i < 5 => ~IsInstance(v, Checks[i])
    BY <1>0, <1>5, SMT DEF IsInstance
  <2>2. Bind(v) = BindAs(Checks[5], v)
    BY <2>1, Dispatch, SMT
  <2>. QED
    BY <1>0, <2>2, SMT DEF BindAs
<1>6. ASSUME Class(v) \in {"datetime", "datetimetz"} PROVE Bind(v) = BindDateTime(v)
  <2>1. IsInstance(v, Checks[6]) /\ \A i \in 1..14 : i < 6 => ~IsInstance(v, Checks[i])
    BY <1>0, <1>6, SMT DEF IsInstance
  <2>2. Bind(v) = BindAs(Checks[6], v)
    BY <2>1, Dispatch, SMT
  <2>. QED
    BY <1>0, <2>2, SMT DEF BindAs
<1>7. ASSUME Class(v) = "date" PROVE Bind(v) = BindDate(v)
  <2>1. IsInstance(v, Checks[7]) /\ \A i \in 1..14 : i < 7 => ~IsInstance(v, Checks[i])
    BY <1>0, <1>7, SMT DEF IsInstance
  <2>2. Bind(v) = BindAs(Checks[7], v)
    BY <2>1, Dispatch, SMT
  <2>. QED
    BY <1>0, <2>2, SMT DEF BindAs
<1>8. ASSUME Class(v) \in {"time", "timetz"} PROVE Bind(v) = BindTime(v)
  <2>1. IsInstance(v, Checks[8]) /\ \A i \in 1..14 : i < 8 => ~IsInstance(v, Checks[i])
    BY <1>0, <1>8, SMT DEF IsInstance
  <2>2. Bind(v) = BindAs(Checks[8], v)
    BY <2>1, Dispatch, SMT
  <2>. QED
    BY <1>0, <2>2, SMT DEF BindAs
<1>9. ASSUME Class(v) = "timedelta" PROVE Bind(v) = BindDelta(v)
  <2>1. IsInstance(v, Checks[9]) /\ \A i \in 1..14 : i < 9 => ~IsInstance(v, Checks[i])
    BY <1>0, <1>9, SMT DEF IsInstance
  <2>2. Bind(v) = BindAs(Checks[9], v)
    BY <2>1, Dispatch, SMT
  <2>. QED
    BY <1>0, <2>2, SMT DEF BindAs
<1>10. ASSUME Class(v) = "float" PROVE Bind(v) = BindFloat(v)
  <2>1. IsInstance(v, Checks[10]) /\ \A i \in 1..14 : i < 10 => ~IsInstance(v, Checks[i])
    BY <1>0, <1>10, SMT DEF IsInstance
  <2>2. Bind(v) = BindAs(Checks[10], v)
    BY <2>1, Dispatch, SMT
  <2>. QED
    BY <1>0, <2>2, SMT DEF BindAs
<1>11. ASSUME Class(v) = "bytes" PROVE Bind(v) = BindBytes(v)
  <2>1. IsInstance(v, Checks[11]) /\ \A i \in 1..14 : i < 11 => ~IsInstance(v, Checks[i])
    BY <1>0, <1>11, SMT DEF IsInstance
  <2>2. Bind(v) = BindAs(Checks[11], v)
    BY <2>1, Dispatch, SMT
  <2>. QED
    BY <1>0, <2>2, SMT DEF BindAs
<1>12. ASSUME Class(v) = "bytearray" PROVE Bind(v) = BindBytes(v)
  <2>1. IsInstance(v, Checks[12]) /\ \A i \in 1..14 : i < 12 => ~IsInstance(v, Checks[i])
    BY <1>0, <1>12, SMT DEF IsInstance
  <2>2. Bind(v) = BindAs(Checks[12], v)
    BY <2>1, Dispatch, SMT
  <2>. QED
    BY <1>0, <2>2, SMT DEF BindAs
<1>13. ASSUME Class(v) = "UUID" PROVE Bind(v) = BindUUID(v)
  <2>1. IsInstance(v, Checks[13]) /\ \A i \in 1..14 : i < 13 => ~IsInstance(v, Checks[i])
    BY <1>0, <1>13, SMT DEF IsInstance
  <2>2. Bind(v) = BindAs(Checks[13], v)
    BY <2>1, Dispatch, SMT
  <2>. QED
    BY <1>0, <2>2, SMT DEF BindAs
<1>14. ASSUME Class(v) = "list" PROVE Bind(v) = BindArray(v)
  <2>1. IsInstance(v, Checks[14]) /\ \A i \in 1..14 : i < 14 => ~IsInstance(v, Checks[i])
    BY <1>0, <1>14, SMT DEF IsInstance
  <2>2. Bind(v) = BindAs(Checks[14], v)
    BY <2>1, Dispatch, SMT
  <2>. QED
    BY <1>0, <2>2, SMT DEF BindAs
<1>15. ASSUME Class(v) \notin Classes PROVE Bind(v) = Raised
  <2>1. \A i \in 1..14 : ~IsInstance(v, Checks[i])
    BY <1>0, <1>15, SMT DEF IsInstance, Classes
  <2>. QED
    BY <1>0, <2>1 DEF Bind
<1>. QED
  BY <1>1, <1>2, <1>3, <1>4, <1>5, <1>6, <1>7, <1>8, <1>9, <1>10, <1>11, <1>12, <1>13, <1>14, <1>15

---------------------------------------------------------------------------
(* Parameters.                                                             *)

(* A parameter arrives: what is bound for it is within its bits, and what  *)
(* the backend makes of that is a value that it can hold, and the right    *)
(* one unless the parameter is one of those that the code changes.         *)
WireFits(w) ==
    /\ Class(w) = "int2" => Content(w) \in 0..(2 * SmallLimit - 1)
    /\ Class(w) \in {"int4", "date"} => Content(w) \in 0..(2 * IntLimit - 1)
    /\ Class(w) \in {"int8", "timestamp"} => Content(w) \in 0..(2 * LongLimit - 1)

Stored(w) == Receive(Class(w), Content(w))

Arrives(v) ==
    Bind(v) # Raised =>
        /\ WireFits(Bind(v))
        /\ Stored(Bind(v)) # Raised =>
              /\ IsColumn(Stored(Bind(v)))
              /\ Denotes(v, Stored(Bind(v))) <=> ~Mangled(v)

(* A pair has a class and a content.                                       *)
LEMMA Pairs ==
    ASSUME NEW a, NEW b
    PROVE  Class(<<a, b>>) = a /\ Content(<<a, b>>) = b
BY DEF Class, Content

(* A decimal that is not infinite means a numeric.                         *)
LEMMA DecimalMeans ==
    ASSUME NEW x, IsDecimal(x), x[1] # "Infinity"
    PROVE  IsNumeric(NumericOf(x))
<1>1. CASE x[1] = "NaN"
  BY <1>1 DEF NumericOf, IsNumeric
<1>2. CASE x[1] = "number"
  <2>1. x[2] \in BOOLEAN /\ x[3] \in Nat /\ x[4] \in Int /\ HasGroups(NumericOf(x))
    BY <1>2 DEF IsDecimal
  <2>2. PICK y : y = NumericOf(x)
    OBVIOUS
  <2>3. PICK negative \in BOOLEAN : negative = (x[2] /\ x[3] # 0)
    BY Zenon
  <2>4. PICK n \in Nat : n = (IF x[4] < 0 THEN x[3] * TenTo[-x[4]] ELSE x[3]) /\ (x[3] # 0 => n # 0)
    <3>1. CASE x[4] < 0
      <4>1. PICK e \in Nat, c \in Nat : e = -x[4] /\ c = x[3]
        BY <2>1, <3>1
      <4>2. PICK p \in Nat \ {0} : p = TenTo[e]
        BY Powers
      <4>3. c * p \in Nat /\ (c # 0 => c * p # 0)
        BY SMT
      <4>. QED
        BY <3>1, <4>1, <4>2, <4>3
    <3>2. CASE ~(x[4] < 0)
      BY <2>1, <3>2
    <3>. QED
      BY <3>1, <3>2
  <2>5. PICK s \in Nat : s = Max({0, x[4]})
    <3>1. CASE x[4] >= 0
      <4>1. x[4] \in {0, x[4]} /\ (\A i \in {0, x[4]} : i \in Int) /\ \A i \in {0, x[4]} : x[4] >= i
        BY <2>1, <3>1
      <4>2. Max({0, x[4]}) = x[4]
        BY <4>1, MaxIs
      <4>. QED
        BY <2>1, <3>1, <4>2
    <3>2. CASE x[4] < 0
      <4>1. 0 \in {0, x[4]} /\ (\A i \in {0, x[4]} : i \in Int) /\ \A i \in {0, x[4]} : 0 >= i
        BY <2>1, <3>2
      <4>2. Max({0, x[4]}) = 0
        BY <4>1, MaxIs
      <4>. QED
        BY <4>2
    <3>. QED
      BY <2>1, <3>1, <3>2
  <2>6. y = <<"number", negative, n, s>>
    BY <1>2, <2>2, <2>3, <2>4, <2>5, Zenon DEF NumericOf
  <2>7. y[2] = negative /\ y[3] = n /\ y[4] = s
    BY <2>6
  <2>8. negative => n # 0
    BY <2>3, <2>4
  <2>9. IsNumeric(y)
    BY <2>1, <2>2, <2>6, <2>7, <2>8, Zenon DEF IsNumeric
  <2>. QED
    BY <2>2, <2>9
<1>. QED
  BY <1>1, <1>2 DEF IsDecimal

(* Values that are sent as they are arrive.                                *)
LEMMA Simple ==
    ASSUME NEW v, IsParam(v), Class(v) \in {"None", "bool", "Decimal", "float", "bytes", "bytearray", "UUID"}
    PROVE  Arrives(v)
<1>1. CASE Class(v) = "None"
  <2>1. Bind(v) = Null
    BY <1>1, Bindings DEF BindNone
  <2>2. Class(Null) = "NULL" /\ Stored(Null) = Null
    BY SMT DEF Stored, Receive, Class, Content, Null
  <2>. QED
    BY <1>1, <2>1, <2>2, SMT DEF Arrives, WireFits, IsColumn, Types, Denotes, Mangled
<1>2. CASE Class(v) = "bool"
  <2>1. Bind(v) = <<"bool", Content(v)>>
    BY <1>2, Bindings DEF BindBool
  <2>2. Stored(Bind(v)) = Bind(v) /\ Class(Bind(v)) = "bool" /\ Content(Bind(v)) = Content(v)
    BY <2>1, SMT DEF Stored, Receive, Class, Content
  <2>. QED
    BY <1>2, <2>2, SMT DEF Arrives, WireFits, IsColumn, Types, Denotes, Mangled
<1>3. CASE Class(v) = "Decimal"
  <2>1. Bind(v) = <<"numeric", Content(v)>>
    BY <1>3, Bindings DEF BindDecimal
  <2>2. Class(Bind(v)) = "numeric" /\ Content(Bind(v)) = Content(v)
    BY <2>1, SMT DEF Class, Content
  <2>3. Stored(Bind(v)) # Raised => Stored(Bind(v)) = <<"numeric", NumericOf(Content(v))>>
    BY <2>2, SMT DEF Stored, Receive
  <2>4. Stored(Bind(v)) # Raised => /\ Class(Stored(Bind(v))) = "numeric"
                                    /\ Content(Stored(Bind(v))) = NumericOf(Content(v))
    BY <2>3, SMT DEF Class, Content
  <2>5. Stored(Bind(v)) # Raised => IsNumeric(NumericOf(Content(v)))
    <3>1. IsDecimal(Content(v))
      BY <1>3 DEF IsParam
    <3>2. Stored(Bind(v)) # Raised => Content(v)[1] # "Infinity"
      BY <2>2, SMT DEF Stored, Receive
    <3>. QED
      BY <3>1, <3>2, DecimalMeans
  <2>. QED
    BY <1>3, <2>2, <2>4, <2>5, SMT DEF Arrives, WireFits, IsColumn, Types, Denotes, Mangled
<1>4. CASE Class(v) = "float"
  <2>1. Bind(v) = <<"float8", Content(v)>>
    BY <1>4, Bindings DEF BindFloat
  <2>2. Stored(Bind(v)) = Bind(v) /\ Class(Bind(v)) = "float8" /\ Content(Bind(v)) = Content(v)
    BY <2>1, SMT DEF Stored, Receive, Class, Content
  <2>. QED
    BY <1>4, <2>2, SMT DEF Arrives, WireFits, IsColumn, Types, Denotes, Mangled
<1>5. CASE Class(v) \in {"bytes", "bytearray"}
  <2>1. Bind(v) = <<"bytea", Content(v)>>
    BY <1>5, Bindings DEF BindBytes
  <2>2. Stored(Bind(v)) = Bind(v) /\ Class(Bind(v)) = "bytea" /\ Content(Bind(v)) = Content(v)
    BY <2>1, SMT DEF Stored, Receive, Class, Content
  <2>3. Content(v)[1] = "raw"
    BY <1>5, SMT DEF IsParam, IsScalar
  <2>. QED
    BY <1>5, <2>2, <2>3, SMT DEF Arrives, WireFits, IsColumn, Types, Denotes, Mangled
<1>6. CASE Class(v) = "UUID"
  <2>1. Bind(v) = <<"uuid", Content(v)>>
    BY <1>6, Bindings DEF BindUUID
  <2>2. Stored(Bind(v)) = Bind(v) /\ Class(Bind(v)) = "uuid" /\ Content(Bind(v)) = Content(v)
    BY <2>1, SMT DEF Stored, Receive, Class, Content
  <2>3. Content(v)[1] = "raw"
    BY <1>6, SMT DEF IsParam, IsScalar
  <2>. QED
    BY <1>6, <2>2, <2>3, SMT DEF Arrives, WireFits, IsColumn, Types, Denotes, Mangled
<1>. QED
  BY <1>1, <1>2, <1>3, <1>4, <1>5, <1>6

(* A digit more.                                                           *)
LEMMA Digit ==
    ASSUME NEW k \in Nat \ {0}, NEW m \in Nat \ {0}, NEW q \in 0..(k - 1), NEW r \in 0..(m - 1)
    PROVE  q * m + r \in 0..(k * m - 1)
<1>1. q \in Int /\ r \in Int /\ 0 <= q /\ q <= k - 1 /\ 0 <= r /\ r <= m - 1
  OBVIOUS
<1>2. q * m \in Int /\ 0 <= q * m
  BY <1>1, SMT
<1>3. q * m <= (k - 1) * m
  BY <1>1, SMT
<1>4. (k - 1) * m = k * m - m /\ k * m \in Int
  BY SMT
<1>. QED
  BY <1>1, <1>2, <1>3, <1>4, SMT

(* The bytes of an integer are the fewest that hold it.                    *)
LEMMA LongSizes ==
    ASSUME NEW v, AsInt(v) \in Int
    PROVE  /\ MinLongSize(v) \in {0, 2, 4, 8}
           /\ MinLongSize(v) # 0 => Fits(AsInt(v), Limit(MinLongSize(v)))
           /\ MinLongSize(v) = 0 => ~Fits(AsInt(v), LongLimit)
           /\ \A cb \in {2, 4, 8} : Fits(AsInt(v), Limit(cb)) => MinLongSize(v) # 0 /\ MinLongSize(v) <= cb
<1>. DEFINE enough == {cb \in {2, 4, 8} : Fits(AsInt(v), Limit(cb))}
<1>1. MinLongSize(v) = IF enough = {} THEN 0 ELSE Min(enough)
  BY DEF MinLongSize
<1>2. CASE 2 \in enough
  <2>1. Min(enough) = 2
    <3>1. 2 \in enough /\ (\A x \in enough : x \in Int) /\ (\A x \in enough : 2 <= x)
      BY <1>2, SMT
    <3>. HIDE DEF enough
    <3>. QED
      BY <3>1, MinIs
  <2>. QED
    BY <1>1, <1>2, <2>1, SMT
<1>3. CASE 2 \notin enough /\ 4 \in enough
  <2>1. Min(enough) = 4
    <3>1. 4 \in enough /\ (\A x \in enough : x \in Int) /\ (\A x \in enough : 4 <= x)
      BY <1>3, SMT
    <3>. HIDE DEF enough
    <3>. QED
      BY <3>1, MinIs
  <2>. QED
    BY <1>1, <1>3, <2>1, SMT
<1>4. CASE 2 \notin enough /\ 4 \notin enough /\ 8 \in enough
  <2>1. Min(enough) = 8
    <3>1. 8 \in enough /\ (\A x \in enough : x \in Int) /\ (\A x \in enough : 8 <= x)
      BY <1>4, SMT
    <3>. HIDE DEF enough
    <3>. QED
      BY <3>1, MinIs
  <2>. QED
    BY <1>1, <1>4, <2>1, SMT
<1>5. CASE 2 \notin enough /\ 4 \notin enough /\ 8 \notin enough
  BY <1>1, <1>5, SMT DEF Limit
<1>. QED
  BY <1>2, <1>3, <1>4, <1>5

(* The types of the limits.                                                *)
LEMMA LimitTypes ==
    ASSUME NEW cb \in {2, 4, 8}
    PROVE  Limit(cb) \in Nat \ {0} /\ Limit(cb) <= LongLimit
BY Limits, SMT DEF Limit

(* An integer arrives if it fits a bigint, and is refused otherwise.       *)
LEMMA IntArrives ==
    ASSUME NEW v, IsParam(v), Class(v) = "int"
    PROVE  Arrives(v)
<1>1. AsInt(v) = Content(v) /\ Content(v) \in Int
  BY SMT DEF AsInt, IsParam, IsScalar
<1>2. PICK cb \in {0, 2, 4, 8} : cb = MinLongSize(v)
  BY <1>1, LongSizes
<1>3. Bind(v) = BindLong(v)
  BY Bindings
<1>4. CASE cb = 0
  BY <1>2, <1>3, <1>4 DEF BindLong, Arrives
<1>5. CASE cb # 0
  <2>1. Bind(v) = <<IntType[cb], Unsigned(Content(v), Limit(cb))>>
    BY <1>1, <1>2, <1>3, <1>5 DEF BindLong
  <2>2. cb \in {2, 4, 8} /\ Limit(cb) \in Nat \ {0} /\ Fits(Content(v), Limit(cb))
    BY <1>1, <1>2, <1>5, LongSizes, LimitTypes
  <2>3. PICK u : u = Unsigned(Content(v), Limit(cb))
    OBVIOUS
  <2>4. u \in 0..(2 * Limit(cb) - 1) /\ Signed(u, Limit(cb)) = Content(v)
    BY <1>1, <2>2, <2>3, SignedBack
  <2>5. Class(Bind(v)) = IntType[cb] /\ Content(Bind(v)) = u
    BY <2>1, <2>3, Pairs
  <2>6. Stored(Bind(v)) = <<IntType[cb], Content(v)>>
    <3>1. CASE cb = 2
      BY <2>4, <2>5, <3>1, SMT DEF Stored, Receive, Limit, IntType
    <3>2. CASE cb = 4
      BY <2>4, <2>5, <3>2, SMT DEF Stored, Receive, Limit, IntType
    <3>3. CASE cb = 8
      BY <2>4, <2>5, <3>3, SMT DEF Stored, Receive, Limit, IntType
    <3>. QED
      BY <2>2, <3>1, <3>2, <3>3
  <2>7. Class(Stored(Bind(v))) = IntType[cb] /\ Content(Stored(Bind(v))) = Content(v)
    BY <2>6, Pairs
  <2>8. WireFits(Bind(v))
    BY <2>2, <2>4, <2>5, SMT DEF WireFits, Limit, IntType
  <2>9. IsColumn(Stored(Bind(v)))
    BY <1>1, <2>2, <2>7, SMT DEF IsColumn, Types, IsInteger, Limit, IntType
  <2>10. Denotes(v, Stored(Bind(v))) /\ ~Mangled(v)
    BY <2>2, <2>7, SMT DEF Denotes, Mangled, IntType
  <2>. QED
    BY <2>8, <2>9, <2>10 DEF Arrives
<1>. QED
  BY <1>4, <1>5

(* A time of the day is less than a day.                                   *)
LEMMA ClockTypes ==
    ASSUME NEW h, NEW m, NEW s, NEW us, IsClock(h, m, s, us)
    PROVE  /\ Ticks(h, m, s, us) \in Int
           /\ 0 <= Ticks(h, m, s, us) /\ Ticks(h, m, s, us) < TicksPerDay
<1>1. Hours \in Nat \ {0} /\ Minutes \in Nat \ {0} /\ Seconds \in Nat \ {0} /\ Micros \in Nat \ {0}
  BY ValuesAssumption
<1>2. h \in 0..(Hours - 1) /\ m \in 0..(Minutes - 1) /\ s \in 0..(Seconds - 1) /\ us \in 0..(Micros - 1)
  BY DEF IsClock
<1>3. PICK a : a = h * Minutes + m
  OBVIOUS
<1>4. a \in 0..(Hours * Minutes - 1)
  BY <1>1, <1>2, <1>3, Digit, Zenon
<1>5. PICK b : b = a * Seconds + s
  OBVIOUS
<1>6. Hours * Minutes \in Nat \ {0}
  BY <1>1, SMT
<1>7. b \in 0..(Hours * Minutes * Seconds - 1)
  BY <1>1, <1>2, <1>4, <1>5, <1>6, Digit, Zenon
<1>8. Hours * Minutes * Seconds \in Nat \ {0}
  BY <1>1, <1>6, SMT
<1>9. b * Micros + us \in 0..(Hours * Minutes * Seconds * Micros - 1)
  BY <1>1, <1>2, <1>7, <1>8, Digit, Zenon
<1>10. PICK t : t = b * Micros + us
  OBVIOUS
<1>11. Ticks(h, m, s, us) = t
  BY <1>3, <1>5, <1>10 DEF Ticks
<1>12. PICK T : T = TicksPerDay
  OBVIOUS
<1>13. T = Hours * Minutes * Seconds * Micros /\ T \in Int
  BY <1>1, <1>8, <1>12, SMT DEF TicksPerDay, SecondsPerDay
<1>14. t \in 0..(T - 1)
  BY <1>9, <1>10, <1>13
<1>15. t \in Int /\ 0 <= t /\ t < T
  BY <1>13, <1>14, SMT
<1>. QED
  BY <1>11, <1>12, <1>15

(* A time arrives.                                                         *)
LEMMA TimeArrives ==
    ASSUME NEW v, IsParam(v), Class(v) = "time"
    PROVE  Arrives(v)
<1>1. PICK h, m, s, us : h = Content(v)[1] /\ m = Content(v)[2] /\ s = Content(v)[3] /\ us = Content(v)[4]
  OBVIOUS
<1>2. PICK t : t = Ticks(h, m, s, us)
  OBVIOUS
<1>3. Bind(v) = <<"time", t>>
  BY <1>1, <1>2, Bindings DEF BindTime, Ticks
<1>4. Class(Bind(v)) = "time" /\ Content(Bind(v)) = t
  BY <1>3, Pairs
<1>5. Stored(Bind(v)) = Bind(v)
  BY <1>3, <1>4, SMT DEF Stored, Receive
<1>6. IsClock(h, m, s, us)
  BY <1>1, SMT DEF IsParam
<1>7. TicksPerDay \in Int
  BY ValuesAssumption, SMT DEF TicksPerDay, SecondsPerDay
<1>8. t \in 0..TicksPerDay
  BY <1>2, <1>6, <1>7, ClockTypes, SMT
<1>9. IsColumn(Stored(Bind(v)))
  BY <1>4, <1>5, <1>8, SMT DEF IsColumn, Types
<1>10. Denotes(v, Stored(Bind(v))) /\ ~Mangled(v)
  BY <1>1, <1>2, <1>4, <1>5, SMT DEF Denotes, Mangled
<1>. QED
  BY <1>4, <1>9, <1>10, SMT DEF Arrives, WireFits

(* A timedelta without microseconds arrives, and others are refused.       *)
LEMMA DeltaArrives ==
    ASSUME NEW v, IsParam(v), Class(v) = "timedelta"
    PROVE  Arrives(v)
<1>1. PICK days \in Int, s \in Int, us \in Int : days = Content(v)[1] /\ s = Content(v)[2] /\ us = Content(v)[3]
  BY SMT DEF IsParam
<1>2. Fits(days, IntLimit)
  BY <1>1, SMT DEF IsParam
<1>3. Bind(v) = BindDelta(v)
  BY Bindings
<1>4. CASE us # 0
  BY <1>1, <1>3, <1>4 DEF BindDelta, Arrives
<1>5. CASE us = 0
  <2>1. PICK u : u = Unsigned(days, IntLimit)
    OBVIOUS
  <2>2. Bind(v) = <<"interval", <<0, u, s * Micros>>>>
    BY <1>1, <1>3, <1>5, <2>1 DEF BindDelta
  <2>3. Class(Bind(v)) = "interval" /\ Content(Bind(v)) = <<0, u, s * Micros>>
    BY <2>2, Pairs
  <2>4. Signed(u, IntLimit) = days
    BY <1>2, <2>1, SignedBack, Limits
  <2>5. Stored(Bind(v)) = <<"interval", <<0, days, s * Micros>>>>
    BY <2>3, <2>4, SMT DEF Stored, Receive
  <2>6. Class(Stored(Bind(v))) = "interval" /\ Content(Stored(Bind(v))) = <<0, days, s * Micros>>
    BY <2>5, Pairs
  <2>7. s * Micros \in Int
    BY ValuesAssumption, SMT
  <2>8. IsColumn(Stored(Bind(v)))
    BY <1>2, <2>6, <2>7, SMT DEF IsColumn, Types
  <2>9. Denotes(v, Stored(Bind(v)))
    <3>1. PICK ticks \in Int : ticks = s * Micros
      BY <2>7
    <3>2. TicksPerDay \in Int
      BY ValuesAssumption, SMT DEF TicksPerDay, SecondsPerDay
    <3>3. PICK D \in Int : D = days * TicksPerDay
      BY <3>2
    <3>4. D + ticks + us = D + ticks
      BY <1>5, SMT
    <3>. QED
      BY <1>1, <2>6, <3>1, <3>3, <3>4, SMT DEF Denotes
  <2>10. ~Mangled(v)
    BY SMT DEF Mangled
  <2>. QED
    BY <2>3, <2>8, <2>9, <2>10, SMT DEF Arrives, WireFits
<1>. QED
  BY <1>4, <1>5

(* What C makes of a str is all of it unless it has a NUL.                 *)
LEMMA CStrings ==
    ASSUME NEW s \in Seq(STRING)
    PROVE  /\ CString(s) \in Seq(STRING)
           /\ "nul" \notin ToSet(CString(s))
           /\ CString(s) = s <=> "nul" \notin ToSet(s)
<1>. DEFINE S == {i \in 0..Len(s) : \A j \in 1..i : s[j] # "nul"}
            N == {i \in 1..Len(s) : s[i] = "nul"}
<1>1. Len(s) \in Nat /\ DOMAIN s = 1..Len(s)
  OBVIOUS
<1>2. CString(s) = SubSeq(s, 1, Max(S))
  BY DEF CString
<1>3. "nul" \in ToSet(s) <=> N # {}
  BY <1>1 DEF ToSet
<1>4. CASE N = {}
  <2>1. Len(s) \in S /\ (\A i \in S : i \in Int) /\ (\A i \in S : Len(s) >= i)
    BY <1>1, <1>4
  <2>2. Max(S) = Len(s)
    <3>. HIDE DEF S
    <3>. QED BY <2>1, MaxIs
  <2>3. SubSeq(s, 1, Len(s)) = s
    BY <1>1
  <2>. QED
    BY <1>2, <1>3, <1>4, <2>2, <2>3
<1>5. CASE N # {}
  <2>1. N \in SUBSET Nat
    BY <1>1, SMT
  <2>2. PICK m \in N : \A n \in N : m <= n
    <3>. HIDE DEF N
    <3>. QED BY <1>5, <2>1, Least
  <2>3. m \in 1..Len(s) /\ s[m] = "nul" /\ \A j \in 1..(m - 1) : s[j] # "nul"
    BY <1>1, <2>2, SMT
  <2>4. m - 1 \in S /\ (\A i \in S : i \in Int) /\ (\A i \in S : m - 1 >= i)
    BY <1>1, <2>3, SMT
  <2>5. Max(S) = m - 1
    <3>. HIDE DEF S
    <3>. QED BY <2>4, MaxIs
  <2>6. PICK c : c = SubSeq(s, 1, m - 1)
    OBVIOUS
  <2>7. c \in Seq(STRING) /\ Len(c) = m - 1 /\ \A j \in 1..(m - 1) : c[j] = s[j]
    BY <1>1, <2>3, <2>6, SMT
  <2>8. "nul" \notin ToSet(c)
    BY <2>3, <2>7, SMT DEF ToSet
  <2>9. c # s
    BY <1>1, <2>3, <2>7, SMT
  <2>. QED
    BY <1>2, <1>3, <1>5, <2>5, <2>6, <2>7, <2>8, <2>9
<1>. QED
  BY <1>4, <1>5

(* A str arrives up to its first NUL.                                      *)
LEMMA StrArrives ==
    ASSUME NEW v, IsParam(v), Class(v) = "str"
    PROVE  Arrives(v)
<1>1. PICK s \in Seq(STRING) : s = Content(v)
  BY SMT DEF IsParam, IsScalar
<1>2. Bind(v) = BindUnicode(v)
  BY Bindings
<1>3. CASE ~Encodable(s)
  BY <1>1, <1>2, <1>3 DEF BindUnicode, Arrives
<1>4. CASE Encodable(s)
  <2>1. Bind(v) = <<"text", CString(s)>>
    BY <1>1, <1>2, <1>4 DEF BindUnicode
  <2>2. Class(Bind(v)) = "text" /\ Content(Bind(v)) = CString(s)
    BY <2>1, Pairs
  <2>3. Stored(Bind(v)) = Bind(v)
    BY <2>1, <2>2, SMT DEF Stored, Receive
  <2>4. IsColumn(Stored(Bind(v)))
    BY <2>2, <2>3, CStrings, SMT DEF IsColumn, Types
  <2>5. Denotes(v, Stored(Bind(v))) <=> s = CString(s)
    BY <1>1, <2>2, <2>3, SMT DEF Denotes
  <2>6. Mangled(v) <=> "nul" \in ToSet(s)
    BY <1>1, SMT DEF Mangled
  <2>. QED
    BY <2>2, <2>4, <2>5, <2>6, CStrings, SMT DEF Arrives, WireFits
<1>. QED
  BY <1>3, <1>4

(* The edges of the calendar of Python.                                    *)
LEMMA DayRanges ==
    /\ FirstDay \in Int /\ LastDay \in Int /\ JULIAN_START \in Int /\ Reform \in Int
    /\ FirstDay < Reform /\ Reform + 10 < 0 /\ 0 < LastDay
    /\ JULIAN_START + LastDay < IntLimit
    /\ FirstDay - 2 >= -IntLimit /\ LastDay < IntLimit
<1>1. JULIAN_START = 2451545
  BY DEF JULIAN_START
<1>2. FirstDay = -730119
  BY SMT DEF FirstDay, DayNumber, DaysBefore, IsLeap
<1>3. LastDay = 2921939
  BY SMT DEF LastDay, MAXYEAR, DayNumber, DaysBefore, IsLeap
<1>5. Reform = -152384
  BY SMT DEF Reform, DayNumber, DaysBefore, IsLeap
<1>6. JULIAN_START + LastDay < IntLimit /\ IntLimit \in Int
  BY RangesAssumption, Limits
<1>. QED
  BY <1>1, <1>2, <1>3, <1>5, <1>6, SMT

(* What dateToJulian gives for a date of Python.                           *)
LEMMA DateOffset ==
    ASSUME NEW date, IsDate(date)
    PROVE  \E n, ahead \in Int :
              /\ n = DayNumber(date) /\ n \in Int /\ FirstDay <= n /\ n <= LastDay
              /\ dateToJulian(date) - JULIAN_START = n + ahead
              /\ -2 <= ahead /\ ahead <= 10
              /\ n >= Reform => ahead = 0
              /\ ahead = 0 <=>
                   \/ n >= Reform
                   \/ n \in DayNumber(<<200, 3, 1>>)..DayNumber(<<300, 2, 28>>)
<1>1. PICK d : d = <<date[1], date[2], date[3]>>
  OBVIOUS
<1>2. IsDate(d) /\ d = <<d[1], d[2], d[3]>> /\ DayNumber(d) = DayNumber(date)
  BY <1>1, SMT DEF IsDate, DayNumber
<1>3. dateToJulian(d) = dateToJulian(date)
  BY <1>1 DEF dateToJulian
<1>4. Calendar(d[1], d[2], d[3])
  BY <1>2, MaxYear, SMT DEF IsDate, Calendar
<1>5. PICK n \in Int : n = DayNumber(d)
  BY <1>2, <1>4, YearAndDay
<1>6. n \in FirstDay..LastDay
  BY <1>2, <1>4, <1>5, PythonDays
<1>7. PICK ahead \in Int : /\ dateToJulian(d) = JULIAN_START + n + ahead
                           /\ -2 <= ahead /\ ahead <= 10
                           /\ ahead = 0 <=>
                                \/ n >= Reform
                                \/ n \in DayNumber(<<200, 3, 1>>)..DayNumber(<<300, 2, 28>>)
  BY <1>2, <1>5, DaysOfDates
<1>8. dateToJulian(date) - JULIAN_START = n + ahead
  BY <1>3, <1>7, DayRanges, SMT
<1>9. FirstDay <= n /\ n <= LastDay
  BY <1>6, DayRanges, SMT
<1>. QED
  BY <1>2, <1>5, <1>7, <1>8, <1>9

(* A date arrives if it has the right Julian day.                          *)
LEMMA DateArrives ==
    ASSUME NEW v, IsParam(v), Class(v) = "date"
    PROVE  Arrives(v)
<1>1. IsDate(Content(v))
  BY SMT DEF IsParam
<1>2. PICK n, ahead \in Int :
              /\ n = DayNumber(Content(v)) /\ n \in Int /\ FirstDay <= n /\ n <= LastDay
              /\ dateToJulian(Content(v)) - JULIAN_START = n + ahead
              /\ -2 <= ahead /\ ahead <= 10
              /\ n >= Reform => ahead = 0
              /\ ahead = 0 <=>
                   \/ n >= Reform
                   \/ n \in DayNumber(<<200, 3, 1>>)..DayNumber(<<300, 2, 28>>)
  BY <1>1, DateOffset
<1>3. PICK o \in Int : o = n + ahead
  BY <1>2
<1>4. Fits(o, IntLimit)
  <2>1. n < Reform => n + 10 < 0
    BY <1>2, DayRanges, SMT
  <2>. QED
    BY <1>2, <1>3, <2>1, DayRanges, Limits, SMT DEF Fits
<1>5. PICK u : u = Unsigned(o, IntLimit)
  OBVIOUS
<1>6. Bind(v) = <<"date", u>>
  BY <1>2, <1>3, <1>5, Bindings DEF BindDate
<1>7. u \in 0..(2 * IntLimit - 1) /\ Signed(u, IntLimit) = o
  BY <1>4, <1>5, SignedBack, Limits
<1>8. Class(Bind(v)) = "date" /\ Content(Bind(v)) = u
  BY <1>6, Pairs
<1>9. Stored(Bind(v)) = <<"date", o>>
  BY <1>7, <1>8, SMT DEF Stored, Receive
<1>10. Class(Stored(Bind(v))) = "date" /\ Content(Stored(Bind(v))) = o
  BY <1>9, Pairs
<1>11. IsColumn(Stored(Bind(v)))
  BY <1>4, <1>10, SMT DEF IsColumn, Types, IsInteger
<1>12. Denotes(v, Stored(Bind(v))) <=> n = o
  BY <1>2, <1>10, SMT DEF Denotes
<1>13. n = o <=> ahead = 0
  BY <1>2, <1>3, SMT
<1>14. Mangled(v) <=> n < Reform /\ n \notin DayNumber(<<200, 3, 1>>)..DayNumber(<<300, 2, 28>>)
  BY <1>2, SMT DEF Mangled, Reform
<1>15. n < Reform <=> ~(n >= Reform)
  BY <1>2, DayRanges, SMT
<1>16. Denotes(v, Stored(Bind(v))) <=> ~Mangled(v)
  BY <1>2, <1>12, <1>13, <1>14, <1>15, Zenon
<1>. QED
  BY <1>7, <1>8, <1>11, <1>16, SMT DEF Arrives, WireFits

(* What is read back of a number that was cut to its bits is off by a      *)
(* multiple of what they can hold.                                         *)
LEMMA CutNumber ==
    ASSUME NEW w \in Nat \ {0}, NEW n \in Int
    PROVE  (n - Signed(Unsigned(n, w), w)) % (2 * w) = 0
<1>1. PICK m \in Nat \ {0} : m = 2 * w
  OBVIOUS
<1>2. PICK q \in Int, u \in 0..(m - 1) : u = n % m /\ n = q * m + u
  BY Divided
<1>3. PICK k \in Int : n - Signed(u, w) = k * m + 0
  <2>1. CASE u < w
    <3>1. n - Signed(u, w) = q * m + 0
      BY <1>1, <1>2, <2>1, SMT DEF Signed
    <3>. QED
      BY <3>1
  <2>2. CASE ~(u < w)
    <3>1. n - Signed(u, w) = q * m + m
      BY <1>1, <1>2, <2>2, SMT DEF Signed
    <3>2. q * m + m = (q + 1) * m + 0 /\ q + 1 \in Int
      BY <1>1, <1>2, SMT
    <3>. QED
      BY <3>1, <3>2
  <2>. QED
    BY <2>1, <2>2
<1>4. (k * m + 0) % m = 0
  <2>1. 0 \in 0..(m - 1)
    OBVIOUS
  <2>. QED
    BY <2>1, Division
<1>. QED
  BY <1>1, <1>2, <1>3, <1>4 DEF Unsigned

(* The ticks since some day.                                               *)
LEMMA TicksSince ==
    ASSUME NEW days \in Int, NEW h \in Int, NEW m \in Int, NEW s \in Int, NEW us \in Int
    PROVE  (((days * Hours + h) * Minutes + m) * Seconds + s) * Micros + us
           = days * TicksPerDay + Ticks(h, m, s, us)
<1>1. Hours \in Int /\ Minutes \in Int /\ Seconds \in Int /\ Micros \in Int
  BY ValuesAssumption, SMT
<1>2. (days * Hours + h) * Minutes + m = days * (Hours * Minutes) + (h * Minutes + m)
  BY <1>1, SMT
<1>3. PICK a \in Int, A \in Int : a = h * Minutes + m /\ A = Hours * Minutes
  BY <1>1
<1>4. (days * A + a) * Seconds + s = days * (A * Seconds) + (a * Seconds + s)
  BY <1>1, SMT
<1>5. PICK b \in Int, B \in Int : b = a * Seconds + s /\ B = A * Seconds
  BY <1>1
<1>6. (days * B + b) * Micros + us = days * (B * Micros) + (b * Micros + us)
  BY <1>1, SMT
<1>7. B * Micros = TicksPerDay
  BY <1>3, <1>5 DEF TicksPerDay, SecondsPerDay
<1>8. b * Micros + us = Ticks(h, m, s, us)
  BY <1>3, <1>5 DEF Ticks
<1>. QED
  BY <1>2, <1>3, <1>4, <1>5, <1>6, <1>7, <1>8

(* The parts of a time are integers.                                       *)
LEMMA ClockInts ==
    ASSUME NEW h, NEW m, NEW s, NEW us, IsClock(h, m, s, us)
    PROVE  h \in Int /\ m \in Int /\ s \in Int /\ us \in Int
BY ValuesAssumption, SMT DEF IsClock

(* A day has some ticks and some seconds.                                  *)
LEMMA DayTypes == TicksPerDay \in Nat \ {0} /\ SecondsPerDay \in Nat \ {0}
<1>1. Hours \in Nat \ {0} /\ Minutes \in Nat \ {0} /\ Seconds \in Nat \ {0} /\ Micros \in Nat \ {0}
  BY ValuesAssumption
<1>2. Hours * Minutes \in Nat \ {0}
  BY <1>1, SMT
<1>3. Hours * Minutes * Seconds \in Nat \ {0}
  BY <1>1, <1>2, SMT
<1>4. Hours * Minutes * Seconds * Micros \in Nat \ {0}
  BY <1>1, <1>3, SMT
<1>. QED
  BY <1>3, <1>4 DEF TicksPerDay, SecondsPerDay

(* A datetime arrives if its date is right and not before 2000: then the   *)
(* days lose their sign before they become ticks.                          *)
LEMMA DateTimeArrives ==
    ASSUME NEW v, IsParam(v), Class(v) = "datetime"
    PROVE  Arrives(v)
<1>1. PICK x : x = Content(v)
  OBVIOUS
<1>2. IsDate(x) /\ IsClock(x[4], x[5], x[6], x[7])
  BY <1>1, SMT DEF IsParam
<1>3. PICK n, ahead \in Int :
              /\ n = DayNumber(x) /\ n \in Int /\ FirstDay <= n /\ n <= LastDay
              /\ dateToJulian(x) - JULIAN_START = n + ahead
              /\ -2 <= ahead /\ ahead <= 10
              /\ n >= Reform => ahead = 0
  BY <1>2, DateOffset, Zenon
<1>4. PICK clock \in Int : clock = Ticks(x[4], x[5], x[6], x[7]) /\ 0 <= clock /\ clock < TicksPerDay
  BY <1>2, ClockTypes
<1>5. PICK o \in Int : o = n + ahead
  BY <1>3
<1>6. PICK days \in Int : days = Unsigned(o, IntLimit)
  BY UnsignedRange, Limits DEF Unsigned
<1>7. PICK T \in Int : T = TicksPerDay /\ T > 0
  BY DayTypes
<1>8. PICK ticks \in Int : ticks = days * T + clock
  BY <1>4, <1>6, <1>7
<1>9. PICK u : u = Unsigned(ticks, LongLimit)
  OBVIOUS
<1>10. Bind(v) = <<"timestamp", u>>
  <2>1. Bind(v) = BindDateTime(v)
    BY Bindings
  <2>2. PICK h, m, s, us \in Int : h = x[4] /\ m = x[5] /\ s = x[6] /\ us = x[7]
    BY <1>2, ClockInts
  <2>3. (((days * Hours + h) * Minutes + m) * Seconds + s) * Micros + us
           = days * TicksPerDay + Ticks(h, m, s, us)
    BY TicksSince
  <2>4. (((days * Hours + x[4]) * Minutes + x[5]) * Seconds + x[6]) * Micros + x[7] = ticks
    BY <1>4, <1>7, <1>8, <2>2, <2>3
  <2>. QED
    BY <1>1, <1>3, <1>5, <1>6, <1>9, <2>1, <2>4 DEF BindDateTime
<1>11. u \in 0..(2 * LongLimit - 1)
  BY <1>9, UnsignedRange, Limits
<1>12. PICK y : y = Signed(u, LongLimit)
  OBVIOUS
<1>13. y \in Int /\ Fits(y, LongLimit)
  BY <1>11, <1>12, SignedFits, Limits
<1>14. Class(Bind(v)) = "timestamp" /\ Content(Bind(v)) = u
  BY <1>10, Pairs
<1>15. Stored(Bind(v)) = <<"timestamp", y>>
  BY <1>12, <1>14, SMT DEF Stored, Receive
<1>16. Class(Stored(Bind(v))) = "timestamp" /\ Content(Stored(Bind(v))) = y
  BY <1>15, Pairs
<1>17. IsColumn(Stored(Bind(v)))
  BY <1>13, <1>16, SMT DEF IsColumn, Types, IsInteger
<1>18. Denotes(v, Stored(Bind(v))) <=> n * T + clock = y
  BY <1>1, <1>3, <1>4, <1>7, <1>16, SMT DEF Denotes
<1>19. Mangled(v) <=> n < 0
  BY <1>1, <1>3, SMT DEF Mangled
<1>20. CASE n >= 0
  <2>1. o = n
    BY <1>3, <1>5, <1>20, DayRanges, SMT
  <2>2. days = n
    <3>1. n >= 0 /\ n < IntLimit /\ IntLimit \in Int
      BY <1>3, <1>20, DayRanges, Limits, SMT
    <3>. QED
      BY <1>3, <1>6, <2>1, <3>1, SMT DEF Unsigned
  <2>3. ticks = n * T + clock
    BY <1>8, <2>2
  <2>4. ticks >= 0 /\ ticks < LongLimit
    <3>1. PICK D \in Int : D = LastDay + 1
      BY DayRanges
    <3>2. D * T <= LongLimit /\ LongLimit \in Int
      BY <1>7, <3>1, RangesAssumption, Limits
    <3>3. n + 1 <= D
      BY <1>3, <3>1, DayRanges, SMT
    <3>4. (n + 1) * T <= D * T
      BY <1>3, <1>7, <3>1, <3>3, SMT
    <3>5. (n + 1) * T = n * T + T /\ 0 <= n * T /\ n * T \in Int
      BY <1>3, <1>7, <1>20, SMT
    <3>6. D * T \in Int
      BY <1>7, <3>1
    <3>. QED
      BY <1>4, <1>7, <2>3, <3>2, <3>4, <3>5, <3>6, SMT
  <2>5. Fits(ticks, LongLimit)
    BY <2>4, Limits, SMT DEF Fits
  <2>6. y = ticks
    BY <1>9, <1>12, <2>5, SignedBack, Limits
  <2>7. ~(n < 0)
    BY <1>3, <1>20, SMT
  <2>8. Denotes(v, Stored(Bind(v))) <=> ~Mangled(v)
    BY <1>18, <1>19, <2>3, <2>6, <2>7
  <2>. QED
    BY <1>11, <1>14, <1>17, <2>8, SMT DEF Arrives, WireFits
<1>21. CASE n < 0
  <2>1. o < 0 /\ o >= -IntLimit
    BY <1>3, <1>5, <1>21, DayRanges, Limits, SMT
  <2>2. days = o + 2 * IntLimit
    BY <1>6, <2>1, Limits, SMT DEF Unsigned
  <2>3. PICK k \in Int : k = 2 * IntLimit + ahead
    BY Limits, <1>3
  <2>4. ticks = (n + k) * T + clock
    <3>1. days = n + k
      BY <1>3, <1>5, <2>2, <2>3, Limits, SMT
    <3>. QED
      BY <1>8, <3>1
  <2>5. ticks - (n * T + clock) = k * T
    <3>1. (n + k) * T = n * T + k * T /\ n * T \in Int /\ k * T \in Int
      BY <1>3, <1>7, <2>3, SMT
    <3>. QED
      BY <1>4, <2>4, <3>1, SMT
  <2>6. (ticks - y) % (2 * LongLimit) = 0
    BY <1>8, <1>9, <1>12, CutNumber, Limits
  <2>7. (k * T) % (2 * LongLimit) # 0
    <3>1. ahead \in -2..10
      BY <1>3, SMT
    <3>. QED
      BY <1>7, <2>3, <3>1, RangesAssumption
  <2>8. n * T + clock # y
    BY <2>5, <2>6, <2>7
  <2>9. Denotes(v, Stored(Bind(v))) <=> ~Mangled(v)
    BY <1>18, <1>19, <1>21, <2>8
  <2>. QED
    BY <1>11, <1>14, <1>17, <2>9, SMT DEF Arrives, WireFits
<1>. QED
  BY <1>3, <1>20, <1>21, SMT

(* An aware datetime is sent as some timestamp, ...                        *)
LEMMA AwareDateTimeArrives ==
    ASSUME NEW v, IsParam(v), Class(v) = "datetimetz"
    PROVE  Arrives(v)
<1>1. PICK x : x = Content(v)
  OBVIOUS
<1>2. IsDate(x) /\ IsClock(x[4], x[5], x[6], x[7])
  BY <1>1, SMT DEF IsParam
<1>3. PICK h, m, s, us \in Int : h = x[4] /\ m = x[5] /\ s = x[6] /\ us = x[7]
  BY <1>2, ClockInts
<1>4. PICK o \in Int : o = dateToJulian(x) - JULIAN_START
  BY <1>2, DateOffset
<1>5. PICK days \in Int : days = Unsigned(o, IntLimit)
  BY UnsignedRange, Limits DEF Unsigned
<1>6. PICK ticks \in Int :
        ticks = (((days * Hours + h) * Minutes + m) * Seconds + s) * Micros + us
  BY ValuesAssumption
<1>7. PICK u : u = Unsigned(ticks, LongLimit)
  OBVIOUS
<1>8. Bind(v) = <<"timestamp", u>>
  <2>1. Bind(v) = BindDateTime(v)
    BY Bindings
  <2>. QED
    BY <1>1, <1>3, <1>4, <1>5, <1>6, <1>7, <2>1 DEF BindDateTime
<1>9. u \in 0..(2 * LongLimit - 1)
  BY <1>7, UnsignedRange, Limits
<1>10. PICK y : y = Signed(u, LongLimit)
  OBVIOUS
<1>11. y \in Int /\ Fits(y, LongLimit)
  BY <1>9, <1>10, SignedFits, Limits
<1>12. Class(Bind(v)) = "timestamp" /\ Content(Bind(v)) = u
  BY <1>8, Pairs
<1>13. Stored(Bind(v)) = <<"timestamp", y>>
  BY <1>10, <1>12, SMT DEF Stored, Receive
<1>14. Class(Stored(Bind(v))) = "timestamp" /\ Content(Stored(Bind(v))) = y
  BY <1>13, Pairs
<1>15. IsColumn(Stored(Bind(v)))
  BY <1>11, <1>14, SMT DEF IsColumn, Types, IsInteger
<1>16. ~Denotes(v, Stored(Bind(v))) /\ Mangled(v)
  BY SMT DEF Denotes, Mangled
<1>. QED
  BY <1>9, <1>12, <1>15, <1>16, SMT DEF Arrives, WireFits

(* ... and an aware time as a time of the day.                             *)
LEMMA AwareTimeArrives ==
    ASSUME NEW v, IsParam(v), Class(v) = "timetz"
    PROVE  Arrives(v)
<1>1. PICK h, m, s, us : h = Content(v)[1] /\ m = Content(v)[2] /\ s = Content(v)[3] /\ us = Content(v)[4]
  OBVIOUS
<1>2. PICK t : t = Ticks(h, m, s, us)
  OBVIOUS
<1>3. Bind(v) = <<"time", t>>
  BY <1>1, <1>2, Bindings DEF BindTime, Ticks
<1>4. Class(Bind(v)) = "time" /\ Content(Bind(v)) = t
  BY <1>3, Pairs
<1>5. Stored(Bind(v)) = Bind(v)
  BY <1>3, <1>4, SMT DEF Stored, Receive
<1>6. IsClock(h, m, s, us)
  BY <1>1, SMT DEF IsParam
<1>7. TicksPerDay \in Int
  BY ValuesAssumption, SMT DEF TicksPerDay, SecondsPerDay
<1>8. t \in 0..TicksPerDay
  BY <1>2, <1>6, <1>7, ClockTypes, SMT
<1>9. IsColumn(Stored(Bind(v)))
  BY <1>4, <1>5, <1>8, SMT DEF IsColumn, Types
<1>10. ~Denotes(v, Stored(Bind(v))) /\ Mangled(v)
  BY SMT DEF Denotes, Mangled
<1>. QED
  BY <1>4, <1>9, <1>10, SMT DEF Arrives, WireFits

(* The size of the elements of an array is enough for each of them.        *)
LEMMA ItemSizes ==
    ASSUME NEW items, \A i \in Present(items) : AsInt(items[i]) \in Int
    PROVE  /\ ItemSize(items) \in {0, 2, 4, 8}
           /\ \A i \in Present(items) : MinLongSize(items[i]) <= ItemSize(items)
<1>. DEFINE sizes == {0} \cup {MinLongSize(items[i]) : i \in Present(items)}
<1>1. sizes \subseteq {0, 2, 4, 8}
  BY LongSizes
<1>2. ASSUME NEW k \in sizes, \A y \in sizes : k >= y
      PROVE  /\ ItemSize(items) = k
             /\ \A i \in Present(items) : MinLongSize(items[i]) <= k
  <2>1. Max(sizes) = k
    <3>1. \A y \in sizes : y \in Int
      BY <1>1, SMT
    <3>. HIDE DEF sizes
    <3>. QED
      BY <1>2, <3>1, MaxIs
  <2>. QED
    BY <1>1, <1>2, <2>1, SMT DEF ItemSize
<1>3. 0 \in sizes
  OBVIOUS
<1>4. PICK k \in sizes : \A y \in sizes : k >= y
  <2>. HIDE DEF sizes
  <2>. QED
    BY <1>1, <1>3, SMT
<1>. QED
  BY <1>1, <1>2, <1>4

(* A larger integer type holds what a smaller one does.                    *)
LEMMA Wider ==
    ASSUME NEW n \in Int, NEW a \in {2, 4, 8}, NEW b \in {2, 4, 8}, a <= b, Fits(n, Limit(a))
    PROVE  Fits(n, Limit(b))
BY Limits, SMT DEF Fits, Limit

(* A function of the first numbers is a sequence.                          *)
LEMMA Listed ==
    ASSUME NEW n \in Nat, NEW f, f = [i \in 1..n |-> f[i]]
    PROVE  IsSequence(f) /\ DOMAIN f = 1..n /\ (f = <<>> <=> n = 0)
<1>1. f \in [1..n -> ToSet(f)]
  BY DEF ToSet
<1>. QED
  BY <1>1, SMT DEF IsSequence

(* An array of the backend has its elements, and one dimension if there    *)
(* are any.                                                                *)
LEMMA Arrays ==
    ASSUME NEW f, NEW g
    PROVE  /\ Array(f)[2] = f /\ Array(f) = <<Array(f)[1], Array(f)[2]>> /\ (Array(f)[1] = 0 <=> f = <<>>)
           /\ Array(f)[1] \in {0, 1}
           /\ Array(f) = Array(g) <=> f = g
BY SMT DEF Array

(* The elements of a list, and what they are as integers.                  *)
LEMMA Items ==
    ASSUME NEW v, IsParam(v), Class(v) = "list"
    PROVE  \E n \in Nat :
              /\ IsSequence(Content(v)) /\ DOMAIN Content(v) = 1..n
              /\ Present(Content(v)) = {i \in 1..n : Content(v)[i] # None}
              /\ \A i \in 1..n : IsInt(Content(v)[i]) => AsInt(Content(v)[i]) \in Int
              /\ \A i \in 1..n : IsInt(Content(v)[i]) => i \in Present(Content(v))
<1>1. PICK x : x = Content(v)
  OBVIOUS
<1>2. IsSequence(x) /\ \A i \in DOMAIN x : IsScalar(x[i])
  BY <1>1, SMT DEF IsParam
<1>3. x \in Seq(ToSet(x))
  BY <1>2 DEF IsSequence
<1>4. PICK n \in Nat : n = Len(x)
  BY <1>3
<1>5. DOMAIN x = 1..n
  BY <1>3, <1>4
<1>6. \A i \in 1..n : IsInt(x[i]) => AsInt(x[i]) \in Int
  BY <1>2, <1>5, SMT DEF IsInt, AsInt, IsScalar
<1>7. Class(None) = "None"
  BY Pairs DEF None
<1>. QED
  BY <1>1, <1>2, <1>5, <1>6, <1>7, SMT DEF Present, IsInt

(* A list that is bound as one of texts arrives ...                        *)
LEMMA TextsArrive ==
    ASSUME NEW v, IsParam(v), Class(v) = "list", Bind(v) = BindUnicodeArray(Content(v))
    PROVE  Arrives(v)
<1>1. PICK x : x = Content(v)
  OBVIOUS
<1>2. PICK n \in Nat :
              /\ IsSequence(x) /\ DOMAIN x = 1..n
              /\ Present(x) = {i \in 1..n : x[i] # None}
              /\ \A i \in 1..n : IsInt(x[i]) => AsInt(x[i]) \in Int
              /\ \A i \in 1..n : IsInt(x[i]) => i \in Present(x)
  BY <1>1, Items
<1>3. SUFFICES ASSUME Bind(v) # Raised
               PROVE  Arrives(v)
  BY DEF Arrives
<1>4. /\ Bind(v) = <<"text[]", <<0, x>>>>
      /\ \A i \in Present(x) : Class(x[i]) = "str"
  BY <1>1, <1>3, SMT DEF BindUnicodeArray
<1>5. Class(Bind(v)) = "text[]" /\ Content(Bind(v)) = <<0, x>>
  BY <1>4, Pairs
<1>6. Stored(Bind(v)) = Raised \/ Stored(Bind(v)) = <<"text[]", Array(x)>>
  BY <1>5, SMT DEF Stored, Receive
<1>7. WireFits(Bind(v))
  BY <1>5, SMT DEF WireFits
<1>8. ASSUME Stored(Bind(v)) = <<"text[]", Array(x)>>
      PROVE  IsColumn(Stored(Bind(v))) /\ (Denotes(v, Stored(Bind(v))) <=> ~Mangled(v))
  <2>1. Class(Stored(Bind(v))) = "text[]" /\ Content(Stored(Bind(v))) = Array(x)
    BY <1>8, Pairs
  <2>3. IsTexts(Array(x))
    BY <1>2, <1>4, Arrays, SMT DEF IsTexts, IsArray
  <2>4. \A i \in 1..n : ~IsInt(x[i])
    BY <1>2, <1>4, SMT DEF IsInt
  <2>5. Elements(v) = x
    <3>1. x = [i \in 1..n |-> x[i]]
      BY <1>2 DEF IsSequence
    <3>. QED
      BY <1>1, <1>2, <2>4, <3>1 DEF Elements
  <2>6. ~Mangled(v)
    BY <1>1, <1>2, <2>4, SMT DEF Mangled
  <2>7. Denotes(v, Stored(Bind(v)))
    BY <2>1, <2>5, SMT DEF Denotes
  <2>8. IsColumn(Stored(Bind(v)))
    BY <2>1, <2>3, SMT DEF IsColumn, Types
  <2>. QED
    BY <2>6, <2>7, <2>8
<1>. QED
  BY <1>6, <1>7, <1>8 DEF Arrives

(* What the backend reads of an element: -1 for one that no bigint holds.  *)
LEMMA ElementArrives ==
    ASSUME NEW e, NEW cb \in {2, 4, 8}, AsInt(e) \in Int, e # None, MinLongSize(e) <= cb
    PROVE  \E n \in Int :
              /\ ReceiveElement(LongElement(e, cb), cb) = <<"int", n>>
              /\ Fits(n, Limit(cb))
              /\ n = AsInt(e) <=> MinLongSize(e) # 0
<1>1. PICK lvalue : lvalue = IF MinLongSize(e) = 0 THEN -1 ELSE AsInt(e)
  OBVIOUS
<1>2. Limit(cb) \in Nat \ {0} /\ Limit(cb) <= LongLimit
  BY LimitTypes
<1>3. lvalue \in Int
  BY <1>1
<1>4. Fits(lvalue, Limit(cb))
  <2>1. CASE MinLongSize(e) = 0
    BY <1>1, <1>2, <2>1, SMT DEF Fits
  <2>2. CASE MinLongSize(e) # 0
    <3>1. MinLongSize(e) \in {2, 4, 8} /\ Fits(AsInt(e), Limit(MinLongSize(e)))
      BY <2>2, LongSizes
    <3>. QED
      BY <1>1, <2>2, <3>1, Wider
  <2>. QED
    BY <2>1, <2>2
<1>5. lvalue = AsInt(e) <=> MinLongSize(e) # 0
  <2>1. ASSUME MinLongSize(e) = 0 PROVE AsInt(e) # -1
    BY <2>1, LongSizes, Limits, SMT DEF Fits
  <2>. QED
    BY <1>1, <2>1
<1>6. PICK u : u = Unsigned(lvalue, Limit(cb))
  OBVIOUS
<1>7. Signed(u, Limit(cb)) = lvalue
  BY <1>2, <1>3, <1>4, <1>6, SignedBack
<1>8. LongElement(e, cb) = <<"int", u>>
  BY <1>1, <1>6 DEF LongElement
<1>9. ReceiveElement(LongElement(e, cb), cb) = <<"int", lvalue>>
  BY <1>7, <1>8, Pairs, SMT DEF ReceiveElement
<1>. QED
  BY <1>3, <1>4, <1>5, <1>9

(* ... one of integers arrives if they all fit a bigint ...                *)
LEMMA IntsArrive ==
    ASSUME NEW v, IsParam(v), Class(v) = "list", Bind(v) = BindLongArray(Content(v))
    PROVE  Arrives(v)
<1>1. PICK x : x = Content(v)
  OBVIOUS
<1>2. PICK n \in Nat :
              /\ IsSequence(x) /\ DOMAIN x = 1..n
              /\ Present(x) = {i \in 1..n : x[i] # None}
              /\ \A i \in 1..n : IsInt(x[i]) => AsInt(x[i]) \in Int
              /\ \A i \in 1..n : IsInt(x[i]) => i \in Present(x)
  BY <1>1, Items
<1>3. SUFFICES ASSUME Bind(v) # Raised
               PROVE  Arrives(v)
  BY DEF Arrives
<1>4. \A i \in Present(x) : IsInt(x[i])
  BY <1>1, <1>3 DEF BindLongArray
<1>5. PICK cb \in {0, 2, 4, 8} :
        cb = ItemSize(x) /\ \A i \in Present(x) : MinLongSize(x[i]) <= cb
  BY <1>2, <1>4, ItemSizes
<1>6. PICK sent : sent = [i \in 1..n |-> LongElement(x[i], cb)]
  OBVIOUS
<1>7. Bind(v) = <<ArrayType[cb], <<cb, sent>>>>
  <2>. QED
    BY <1>1, <1>2, <1>3, <1>5, <1>6 DEF BindLongArray
<1>8. Class(Bind(v)) = ArrayType[cb] /\ Content(Bind(v)) = <<cb, sent>>
  BY <1>7, Pairs
<1>9. ArrayType[0] = "unspecified" /\ ArrayType[2] = "int2[]"
        /\ ArrayType[4] = "int4[]" /\ ArrayType[8] = "int8[]"
  BY SMT DEF ArrayType
<1>10. WireFits(Bind(v))
  BY <1>8, <1>9, SMT DEF WireFits
<1>11. CASE cb = 0
  <2>1. Stored(Bind(v)) = Raised
    BY <1>8, <1>9, <1>11, SMT DEF Stored, Receive
  <2>. QED
    BY <1>10, <2>1 DEF Arrives
<1>12. CASE cb # 0
  <2>1. PICK got : got = [i \in 1..n |-> ReceiveElement(sent[i], cb)]
    OBVIOUS
  <2>2. Stored(Bind(v)) = <<ArrayType[cb], Array(got)>>
    <3>1. DOMAIN sent = 1..n
      BY <1>6
    <3>2. Stored(Bind(v)) = <<ArrayType[cb],
                Array([i \in DOMAIN sent |-> ReceiveElement(sent[i], cb)])>>
      BY <1>8, <1>9, <1>12, SMT DEF Stored, Receive
    <3>. QED
      BY <2>1, <3>1, <3>2
  <2>3. Class(Stored(Bind(v))) = ArrayType[cb] /\ Content(Stored(Bind(v))) = Array(got)
    BY <2>2, Pairs
  <2>4. \A i \in 1..n : x[i] = None => got[i] = None
    BY <1>6, <2>1, Pairs, SMT DEF LongElement, ReceiveElement, None
  <2>5. \A i \in 1..n : x[i] # None =>
          \E m \in Int : /\ got[i] = <<"int", m>> /\ Fits(m, Limit(cb))
                         /\ m = AsInt(x[i]) <=> MinLongSize(x[i]) # 0
    <3>. SUFFICES ASSUME NEW i \in 1..n, x[i] # None
                  PROVE  \E m \in Int : /\ got[i] = <<"int", m>> /\ Fits(m, Limit(cb))
                                        /\ m = AsInt(x[i]) <=> MinLongSize(x[i]) # 0
      OBVIOUS
    <3>1. i \in Present(x)
      BY <1>2
    <3>2. cb \in {2, 4, 8} /\ AsInt(x[i]) \in Int /\ MinLongSize(x[i]) <= cb
      BY <1>2, <1>4, <1>5, <1>12, <3>1
    <3>3. got[i] = ReceiveElement(LongElement(x[i], cb), cb)
      BY <1>6, <2>1
    <3>. QED
      BY <3>2, <3>3, ElementArrives
  <2>6. IsSequence(got) /\ DOMAIN got = 1..n
    BY <2>1, Listed
  <2>7. IsIntegers(Array(got), Limit(cb))
    <3>1. IsArray(Array(got))
      BY <2>6, Arrays DEF IsArray
    <3>2. ASSUME NEW i \in 1..n
          PROVE  \/ got[i] = None
                 \/ got[i] = <<"int", Content(got[i])>> /\ IsInteger(Content(got[i]), Limit(cb))
      <4>1. CASE x[i] = None
        BY <2>4, <4>1
      <4>2. CASE x[i] # None
        <5>1. PICK m \in Int : got[i] = <<"int", m>> /\ Fits(m, Limit(cb))
          BY <2>5, <4>2
        <5>2. Content(got[i]) = m
          BY <5>1, Pairs
        <5>. QED
          BY <5>1, <5>2 DEF IsInteger
      <4>. QED
        BY <4>1, <4>2
    <3>. QED
      BY <2>6, <3>1, <3>2, Arrays DEF IsIntegers
  <2>8. IsColumn(Stored(Bind(v)))
    <3>1. CASE cb = 2
      BY <1>9, <2>3, <3>1, SMT DEF IsColumn, Types
    <3>2. CASE cb = 4
      BY <1>9, <2>3, <2>7, <3>2, SMT DEF IsColumn, Types, Limit
    <3>3. CASE cb = 8
      BY <1>9, <2>3, <2>7, <3>3, SMT DEF IsColumn, Types, Limit
    <3>. QED
      BY <1>12, <3>1, <3>2, <3>3
  <2>9. Elements(v) = [i \in 1..n |-> IF IsInt(x[i]) THEN <<"int", AsInt(x[i])>> ELSE x[i]]
    BY <1>1, <1>2 DEF Elements
  <2>10. Elements(v) = got <=> \A i \in 1..n : x[i] # None => MinLongSize(x[i]) # 0
    <3>1. \A i \in 1..n : x[i] = None => Elements(v)[i] = None
      BY <1>2, <2>9
    <3>2. \A i \in 1..n : x[i] # None => Elements(v)[i] = <<"int", AsInt(x[i])>>
      BY <1>2, <1>4, <2>9
    <3>3. Elements(v) = got <=> \A i \in 1..n : Elements(v)[i] = got[i]
      BY <2>1, <2>9
    <3>4. ASSUME NEW i \in 1..n, x[i] # None
          PROVE  Elements(v)[i] = got[i] <=> MinLongSize(x[i]) # 0
      <4>1. PICK m \in Int : got[i] = <<"int", m>> /\ (m = AsInt(x[i]) <=> MinLongSize(x[i]) # 0)
        BY <2>5, <3>4
      <4>. QED
        BY <3>2, <3>4, <4>1, SMT
    <3>. QED
      BY <2>4, <3>1, <3>3, <3>4
  <2>11. Mangled(v) <=> \E i \in 1..n : x[i] # None /\ MinLongSize(x[i]) = 0
    BY <1>1, <1>2, <1>4, SMT DEF Mangled
  <2>12. Denotes(v, Stored(Bind(v))) <=> Array(Elements(v)) = Array(got)
    <3>1. ArrayType[cb] \in {"int2[]", "int4[]", "int8[]", "text[]"}
      BY <1>9, <1>12
    <3>. QED
      BY <2>3, <3>1, SMT DEF Denotes
  <2>13. Array(Elements(v)) = Array(got) <=> Elements(v) = got
    BY Arrays
  <2>. QED
    BY <1>10, <2>8, <2>10, <2>11, <2>12, <2>13 DEF Arrives
<1>. QED
  BY <1>11, <1>12

(* ... and every list is bound as one or the other, or refused.            *)
LEMMA ListArrives ==
    ASSUME NEW v, IsParam(v), Class(v) = "list"
    PROVE  Arrives(v)
<1>1. Bind(v) = BindArray(v)
  BY Bindings
<1>2. \/ Bind(v) = BindUnicodeArray(Content(v))
      \/ Bind(v) = BindLongArray(Content(v))
      \/ Bind(v) = Raised
  BY <1>1 DEF BindArray
<1>. QED
  BY <1>2, TextsArrive, IntsArrive DEF Arrives

(* Every parameter arrives.                                                *)
LEMMA ParamArrives ==
    ASSUME NEW v, IsParam(v)
    PROVE  Arrives(v)
<1>1. CASE Class(v) \notin Classes
  BY <1>1, Bindings DEF Arrives
<1>2. CASE Class(v) \in Classes
  BY <1>2, Simple, IntArrives, StrArrives, TimeArrives, DeltaArrives, DateArrives,
     DateTimeArrives, AwareDateTimeArrives, AwareTimeArrives, ListArrives
     DEF Classes
<1>. QED
  BY <1>1, <1>2

---------------------------------------------------------------------------
(* The invariant.                                                          *)

(* The stages and the formats.                                             *)
StageInv ==
    /\ stage \in {"start", "bound", "held", "got", "raised"}
    /\ pending \in BOOLEAN
    /\ format \in {"binary", "text"}

(* What was bound is what the parameter binds to, and a query is only sent *)
(* if it was not refused.                                                  *)
WireInv ==
    /\ param = Nothing => wire \in {Nothing, Raised} /\ pending = FALSE
    /\ param # Nothing =>
          param \in Params /\ wire = Bind(param) /\ pending = LeavesException(param)
    /\ stage = "bound" => param # Nothing /\ wire # Raised
    /\ stage = "start" => param = Nothing /\ wire = Nothing
    /\ stage \in {"start", "bound"} => column = Nothing /\ format = "binary"

(* The backend holds what it made of that, or a value of its own.          *)
ColumnInv ==
    /\ column # Nothing => IsColumn(column)
    /\ stage \in {"held", "got"} => column # Nothing
    /\ param # Nothing /\ column # Nothing =>
          wire # Raised /\ column = Stored(wire) /\ column # Raised

(* The program got one of the values that the column is read as, unless    *)
(* there is an exception from binding, or reading raised one.              *)
ResultInv ==
    /\ stage = "got" => result \in Outcomes(column, format) /\ result # Raised
    /\ stage = "raised" /\ column # Nothing =>
          pending \/ Raised \in Outcomes(column, format)

(* The invariant.                                                          *)
Inv == StageInv /\ WireInv /\ ColumnInv /\ ResultInv

(* Nothing is no value that was refused, and nothing that can be bound.    *)
LEMMA Refused ==
    /\ Nothing # Raised
    /\ Bind(Nothing) = Raised /\ LeavesException(Nothing) = FALSE
<1>1. Class(Nothing) = "nothing" /\ Class(Raised) = "raised"
  BY Pairs DEF Nothing, Raised
<1>2. Bind(Nothing) = Raised
  BY <1>1, Bindings, SMT DEF Classes
<1>3. LeavesException(Nothing) = FALSE
  BY <1>1, SMT DEF LeavesException
<1>. QED
  BY <1>1, <1>2, <1>3

(* A value of the backend is not nothing.                                  *)
LEMMA ColumnsAre ==
    ASSUME NEW c, IsColumn(c)
    PROVE  c # Nothing
<1>1. Class(Nothing) = "nothing"
  BY Pairs DEF Nothing
<1>. QED
  BY <1>1, SMT DEF IsColumn, Types

(* The invariant holds of the initial states ...                           *)
LEMMA Initially == Init => Inv
<1>. SUFFICES ASSUME Init
              PROVE  Inv
  OBVIOUS
<1>1. stage = "start" /\ column = Nothing /\ param = Nothing
  BY DEF Init
<1>2. StageInv /\ WireInv
  BY Zenon DEF Init, StageInv, WireInv
<1>3. ColumnInv /\ ResultInv
  BY <1>1 DEF ColumnInv, ResultInv
<1>. QED
  BY <1>2, <1>3 DEF Inv

(* ... and every step keeps it.                                            *)
LEMMA Preserved == Inv /\ [Next]_vars => Inv'
<1>. SUFFICES ASSUME Inv, [Next]_vars
              PROVE  Inv'
  OBVIOUS
<1>1. CASE BindParams
  <2>1. PICK v \in Params : param' = v /\ wire' = Bind(v) /\ pending' = LeavesException(v)
    BY <1>1 DEF BindParams
  <2>2. /\ column' = Nothing /\ format' = "binary"
        /\ stage' = IF wire' = Raised THEN "raised" ELSE "bound"
    BY <1>1 DEF BindParams, Inv, WireInv
  <2>3. StageInv'
    BY <2>1, <2>2, Zenon DEF StageInv, LeavesException
  <2>4. WireInv'
    BY <2>1, <2>2, Refused DEF WireInv
  <2>5. ColumnInv' /\ ResultInv'
    BY <2>2 DEF ColumnInv, ResultInv
  <2>. QED
    BY <2>3, <2>4, <2>5 DEF Inv
<1>2. CASE Execute
  <2>1. /\ stage = "bound" /\ column = Nothing
        /\ param # Nothing /\ param \in Params /\ wire = Bind(param) /\ wire # Raised
        /\ UNCHANGED <<param, wire, pending, format, result>>
    BY <1>2 DEF Execute, Inv, WireInv
  <2>2. \/ Stored(wire) = Raised /\ stage' = "raised" /\ column' = column
        \/ Stored(wire) # Raised /\ stage' = "held" /\ column' = Stored(wire)
    BY <1>2, Zenon DEF Execute, Stored
  <2>3. Stored(wire) # Raised => IsColumn(Stored(wire))
    BY <2>1, ParamsAssumption, ParamArrives DEF Arrives
  <2>4. StageInv'
    BY <2>1, <2>2 DEF Inv, StageInv
  <2>5. WireInv'
    BY <2>1, <2>2 DEF Inv, WireInv
  <2>6. ColumnInv'
    BY <2>1, <2>2, <2>3, ColumnsAre DEF ColumnInv
  <2>7. ResultInv'
    BY <2>1, <2>2 DEF ResultInv
  <2>. QED
    BY <2>4, <2>5, <2>6, <2>7 DEF Inv
<1>3. CASE Select
  <2>1. /\ stage = "start" /\ stage' = "held"
        /\ param = Nothing /\ wire = Nothing
        /\ UNCHANGED <<param, wire, pending, result>>
    BY <1>3 DEF Select, Inv, WireInv
  <2>2. column' \in Columns \cup TextColumns /\ format' \in {"binary", "text"}
    BY <1>3 DEF Select
  <2>3. StageInv' /\ WireInv'
    BY <2>1, <2>2 DEF Inv, StageInv, WireInv
  <2>4. ColumnInv' /\ ResultInv'
    BY <2>1, <2>2, ColumnsAssumption, ColumnsAre DEF ColumnInv, ResultInv
  <2>. QED
    BY <2>3, <2>4 DEF Inv
<1>4. CASE ReadColumn
  <2>1. /\ stage = "held"
        /\ UNCHANGED <<param, wire, pending, column, format>>
    BY <1>4 DEF ReadColumn
  <2>2. PICK r \in IF pending THEN {Raised} ELSE Outcomes(column, format) :
              result' = r /\ stage' = IF r = Raised THEN "raised" ELSE "got"
    BY <1>4 DEF ReadColumn
  <2>3. StageInv' /\ WireInv' /\ ColumnInv'
    BY <2>1, <2>2 DEF Inv, StageInv, WireInv, ColumnInv
  <2>4. ResultInv'
    BY <2>1, <2>2, Zenon DEF ResultInv
  <2>. QED
    BY <2>3, <2>4 DEF Inv
<1>5. CASE NextCall
  <2>1. stage' = "start" /\ column' = Nothing /\ param' = Nothing
    BY <1>5 DEF NextCall
  <2>2. StageInv' /\ WireInv'
    BY <1>5, Zenon DEF NextCall, StageInv, WireInv
  <2>3. ColumnInv' /\ ResultInv'
    BY <2>1 DEF ColumnInv, ResultInv
  <2>. QED
    BY <2>2, <2>3 DEF Inv
<1>6. CASE UNCHANGED vars
  BY <1>6, Zenon DEF vars, Inv, StageInv, WireInv, ColumnInv, ResultInv
<1>. QED
  BY <1>1, <1>2, <1>3, <1>4, <1>5, <1>6 DEF Next

(* The invariant that the others follow from holds always.                 *)
THEOREM Invariant == Spec => []Inv
  BY Initially, Preserved, PTL DEF Spec

(* The variables are of their types, and what travels to the backend is    *)
(* within the bits of its type.                                            *)
THEOREM ValuesTypeCorrect == Spec => []TypeOK
<1>1. Inv => TypeOK
  <2>1. ASSUME Inv PROVE WireFits(wire)
    <3>1. CASE param = Nothing
      <4>1. Class(wire) \in {"nothing", "raised"}
        BY <2>1, <3>1, Pairs DEF Inv, WireInv, Nothing, Raised
      <4>. QED
        BY <4>1, SMT DEF WireFits
    <3>2. CASE param # Nothing
      <4>1. wire = Bind(param) /\ IsParam(param)
        BY <2>1, <3>2, ParamsAssumption DEF Inv, WireInv
      <4>2. CASE wire = Raised
        <5>1. Class(wire) = "raised"
          BY <4>2, Pairs DEF Raised
        <5>. QED
          BY <5>1, SMT DEF WireFits
      <4>3. CASE wire # Raised
        BY <4>1, <4>3, ParamArrives DEF Arrives
      <4>. QED
        BY <4>2, <4>3
    <3>. QED
      BY <3>1, <3>2
  <2>. QED
    BY <2>1 DEF TypeOK, Inv, StageInv, WireFits
<1>. QED
  BY <1>1, Invariant, PTL

(* Every parameter that the backend accepts means what the program passed, *)
(* but for those that the code is known to change.                         *)
THEOREM ParamsArrive == Spec => []ParamsExact
<1>1. Inv => ParamsExact
  <2>. SUFFICES ASSUME Inv, param # Nothing, column # Nothing
                PROVE  Denotes(param, column) <=> ~Mangled(param)
    BY DEF ParamsExact
  <2>1. /\ IsParam(param) /\ Bind(param) # Raised
        /\ column = Stored(Bind(param)) /\ Stored(Bind(param)) # Raised
    BY ParamsAssumption DEF Inv, WireInv, ColumnInv
  <2>. QED
    BY <2>1, ParamArrives DEF Arrives
<1>. QED
  BY <1>1, Invariant, PTL

---------------------------------------------------------------------------
(* Results.                                                                *)

(* What is read of a column, unless it is an interval in text.             *)
Read(c, f) ==
    IF f = "text" THEN ConvertText(Class(c), SendText(Class(c), Content(c)))
                  ELSE ConvertValue(Class(c), Send(Class(c), Content(c)))

(* It is the value of the column, or no value at all, as the model has it. *)
Reads(c, f) ==
    /\ Read(c, f) = Raised <=> Unreadable(c, f)
    /\ Read(c, f) # Raised => (Denotes(Read(c, f), c) <=> ~Misread(c, f))

(* A value was read: it is the right one unless the model says that it is  *)
(* misread.                                                                *)
LEMMA Valued ==
    ASSUME NEW c, NEW f, NEW v, Read(c, f) = v, Class(v) # "raised",
           ~Unreadable(c, f), Denotes(v, c) <=> ~Misread(c, f)
    PROVE  Reads(c, f)
<1>1. Class(Raised) = "raised"
  BY Pairs DEF Raised
<1>. QED
  BY <1>1 DEF Reads

(* A value of Python, by a name for it.                                    *)
LEMMA Value ==
    ASSUME NEW class, NEW x
    PROVE  \E v : v = <<class, x>> /\ Class(v) = class /\ Content(v) = x
BY Pairs

(* What a value of Python denotes, by its class.                           *)
LEMMA Meanings ==
    ASSUME NEW v, NEW c
    PROVE  /\ Class(v) = "bool" /\ Class(c) = "bool" => (Denotes(v, c) <=> Content(v) = Content(c))
           /\ Class(v) = "int" /\ Class(c) \in {"int2", "int4", "int8"} =>
                 (Denotes(v, c) <=> Content(v) = Content(c))
           /\ Class(v) = "float" /\ Class(c) \in {"float4", "float8"} =>
                 (Denotes(v, c) <=> Content(v) = Content(c))
           /\ Class(v) = "bytes" /\ Class(c) \in {"bytea", "other"} =>
                 (Denotes(v, c) <=> Content(v) = Content(c))
           /\ Class(v) = "UUID" /\ Class(c) = "uuid" => (Denotes(v, c) <=> Content(v) = Content(c))
           /\ Class(v) = "str" /\ Class(c) = "text" => (Denotes(v, c) <=> Content(v) = Content(c))
           /\ Class(v) = "date" /\ Class(c) = "date" => (Denotes(v, c) <=> DayNumber(Content(v)) = Content(c))
           /\ Class(v) = "datetime" /\ Class(c) = "timestamp" =>
                 (Denotes(v, c) <=>
                    DayNumber(Content(v)) * TicksPerDay
                    + Ticks(Content(v)[4], Content(v)[5], Content(v)[6], Content(v)[7]) = Content(c))
           /\ Class(v) = "timedelta" /\ Class(c) = "interval" =>
                 (Denotes(v, c) <=>
                    /\ Content(c)[1] = 0
                    /\ Content(v)[1] * TicksPerDay + Content(v)[2] * Micros + Content(v)[3]
                       = Content(c)[2] * TicksPerDay + Content(c)[3])
<1>1. Class(v) = "bool" /\ Class(c) = "bool" => (Denotes(v, c) <=> Content(v) = Content(c))
  BY SMT DEF Denotes
<1>2. Class(v) = "int" /\ Class(c) \in {"int2", "int4", "int8"} =>
         (Denotes(v, c) <=> Content(v) = Content(c))
  BY SMT DEF Denotes
<1>3. Class(v) = "float" /\ Class(c) \in {"float4", "float8"} =>
         (Denotes(v, c) <=> Content(v) = Content(c))
  BY SMT DEF Denotes
<1>4. Class(v) = "bytes" /\ Class(c) \in {"bytea", "other"} =>
         (Denotes(v, c) <=> Content(v) = Content(c))
  BY SMT DEF Denotes
<1>5. Class(v) = "UUID" /\ Class(c) = "uuid" => (Denotes(v, c) <=> Content(v) = Content(c))
  BY SMT DEF Denotes
<1>6. Class(v) = "str" /\ Class(c) = "text" => (Denotes(v, c) <=> Content(v) = Content(c))
  BY SMT DEF Denotes
<1>7. Class(v) = "datetime" /\ Class(c) = "timestamp" =>
         (Denotes(v, c) <=>
            DayNumber(Content(v)) * TicksPerDay
            + Ticks(Content(v)[4], Content(v)[5], Content(v)[6], Content(v)[7]) = Content(c))
  BY Zenon DEF Denotes
<1>8. Class(v) = "timedelta" /\ Class(c) = "interval" =>
         (Denotes(v, c) <=>
            /\ Content(c)[1] = 0
            /\ Content(v)[1] * TicksPerDay + Content(v)[2] * Micros + Content(v)[3]
               = Content(c)[2] * TicksPerDay + Content(c)[3])
  BY Zenon DEF Denotes
<1>9. Class(v) = "date" /\ Class(c) = "date" => (Denotes(v, c) <=> DayNumber(Content(v)) = Content(c))
  BY SMT DEF Denotes
<1>. QED
  BY <1>1, <1>2, <1>3, <1>4, <1>5, <1>6, <1>7, <1>8, <1>9

(* What can be misread or unreadable, by its type.                         *)
LEMMA Hard ==
    ASSUME NEW c, NEW f
    PROVE  /\ Misread(c, f) => Class(c) \in {"numeric", "interval", "int2[]", "bytea", "uuid", "date"}
           /\ Class(c) \in {"bytea", "uuid"} => (Misread(c, f) <=> f = "text")
           /\ Class(c) = "date" => (Misread(c, f) <=> f = "text" /\ Content(c) < FirstDay)
           /\ Class(c) = "int2[]" => Misread(c, f)
           /\ Unreadable(c, f) => Class(c) \in {"date", "timestamp", "time", "numeric", "interval",
                                                "int4[]", "int8[]", "text[]", "money"}
           /\ Unreadable(c, f) /\ Class(c) = "money" => f = "text"
           /\ Class(c) \in {"int4[]", "int8[]", "text[]"} /\ f = "binary" =>
                 (Unreadable(c, f) <=> Content(c)[1] # 1)
           /\ Class(c) = "timestamp" /\ f = "binary" =>
                 (Unreadable(c, f) <=> Content(c) \notin 0..((LastDay + 1) * TicksPerDay - 1))
           /\ Class(c) = "interval" =>
                 /\ Unreadable(c, f) <=> Content(c)[1] # 0
                 /\ f = "binary" =>
                       (Misread(c, f) <=>
                           \/ Content(c)[3] % Micros # 0
                           \/ Content(c)[3] \notin (1 - TicksPerDay)..(TicksPerDay - 1))
           /\ Class(c) = "date" /\ f = "text" =>
                 (Unreadable(c, f) <=> ~IsDate(SendText("date", Content(c))))
           /\ Class(c) = "date" /\ f = "binary" =>
                 (Unreadable(c, f) <=> \/ Content(c) \notin FirstDay..LastDay
                                      \/ Content(c) = DayNumber(<<300, 3, 1>>))
           /\ Class(c) \in {"numeric", "money", "time", "timestamp", "int4[]", "int8[]", "text[]"}
                /\ f = "text" => Unreadable(c, f)
<1>1. Misread(c, f) => Class(c) \in {"numeric", "interval", "int2[]", "bytea", "uuid", "date"}
  BY Zenon DEF Misread, Garbled
<1>2. Class(c) \in {"bytea", "uuid"} => (Misread(c, f) <=> f = "text")
  BY Zenon DEF Misread, Garbled
<1>3. Class(c) = "date" => (Misread(c, f) <=> f = "text" /\ Content(c) < FirstDay)
  BY Zenon DEF Misread, Garbled
<1>4. Class(c) = "int2[]" => Misread(c, f)
  BY Zenon DEF Misread
<1>5. Unreadable(c, f) => Class(c) \in {"date", "timestamp", "time", "numeric", "interval",
                                        "int4[]", "int8[]", "text[]", "money"}
  <2>. SUFFICES ASSUME Class(c) \notin {"date", "timestamp", "time", "numeric", "interval",
                                        "int4[]", "int8[]", "text[]", "money"}
                PROVE  ~Unreadable(c, f)
    OBVIOUS
  <2>1. /\ Class(c) # "date" /\ Class(c) # "timestamp" /\ Class(c) # "time"
        /\ Class(c) # "numeric" /\ Class(c) # "interval"
        /\ Class(c) \notin {"int4[]", "int8[]", "text[]"}
        /\ Class(c) \notin {"numeric", "money", "time", "timestamp", "int4[]", "int8[]", "text[]"}
    BY SMT
  <2>. QED
    BY <2>1, Zenon DEF Unreadable
<1>6. Unreadable(c, f) /\ Class(c) = "money" => f = "text"
  BY SMT DEF Unreadable
<1>7. Class(c) \in {"numeric", "money", "time", "timestamp", "int4[]", "int8[]", "text[]"}
        /\ f = "text" => Unreadable(c, f)
  BY Zenon DEF Unreadable
<1>8. Class(c) \in {"int4[]", "int8[]", "text[]"} /\ f = "binary" =>
         (Unreadable(c, f) <=> Content(c)[1] # 1)
  BY Zenon DEF Unreadable
<1>9. Class(c) = "timestamp" /\ f = "binary" =>
         (Unreadable(c, f) <=> Content(c) \notin 0..((LastDay + 1) * TicksPerDay - 1))
  BY Zenon DEF Unreadable
<1>10. Class(c) = "interval" => (Unreadable(c, f) <=> Content(c)[1] # 0)
  BY Zenon DEF Unreadable
<1>11. Class(c) = "interval" /\ f = "binary" =>
          (Misread(c, f) <=> \/ Content(c)[3] % Micros # 0
                            \/ Content(c)[3] \notin (1 - TicksPerDay)..(TicksPerDay - 1))
  BY Zenon DEF Misread, Garbled
<1>12. Class(c) = "date" /\ f = "text" =>
          (Unreadable(c, f) <=> ~IsDate(SendText("date", Content(c))))
  BY Zenon DEF Unreadable
<1>13. Class(c) = "date" /\ f = "binary" =>
          (Unreadable(c, f) <=> \/ Content(c) \notin FirstDay..LastDay
                               \/ Content(c) = DayNumber(<<300, 3, 1>>))
  BY Zenon DEF Unreadable
<1>. QED
  BY <1>1, <1>2, <1>3, <1>4, <1>5, <1>6, <1>7, <1>8, <1>9, <1>10, <1>11, <1>12, <1>13

(* NULL is read as None.                                                   *)
LEMMA NoneReads ==
    ASSUME NEW c, NEW f, f \in {"binary", "text"}, Class(c) = "NULL"
    PROVE  Reads(c, f)
<1>v. PICK v : v = <<"None", 0>> /\ Class(v) = "None" /\ Content(v) = 0
  BY Value
<1>1. Read(c, f) = v
  BY <1>v, SMT DEF Read, ConvertText, ConvertValue, None
<1>2. ~Unreadable(c, f) /\ ~Misread(c, f)
  BY Hard, SMT
<1>3. Denotes(v, c)
  BY <1>v, SMT DEF Denotes
<1>. QED
  BY <1>1, <1>2, <1>3, <1>v, Valued

(* A column that travels as it is, in either format.                       *)
LEMMA Unaltered ==
    ASSUME NEW c, NEW f, f \in {"binary", "text"},
           Class(c) \in {"bool", "float4", "float8", "other", "int2[]", "text"}
    PROVE  Read(c, f) = ConvertValue(Class(c), Content(c))
<1>1. Send(Class(c), Content(c)) = Content(c)
  BY SMT DEF Send
<1>2. SendText(Class(c), Content(c)) = Content(c)
  BY SMT DEF SendText
<1>3. ConvertText(Class(c), Content(c)) = ConvertValue(Class(c), Content(c))
  BY SMT DEF ConvertText
<1>. QED
  BY <1>1, <1>2, <1>3, Zenon DEF Read

(* Truth values and numbers with a fraction, and bytes of a type that the  *)
(* code does not know.                                                     *)
LEMMA PlainReads ==
    ASSUME NEW c, NEW f, f \in {"binary", "text"}, Class(c) \in {"bool", "float4", "float8", "other"}
    PROVE  Reads(c, f)
<1>1. PICK class : class = IF Class(c) = "bool" THEN "bool"
                           ELSE IF Class(c) = "other" THEN "bytes" ELSE "float"
  OBVIOUS
<1>v. PICK v : v = <<class, Content(c)>> /\ Class(v) = class /\ Content(v) = Content(c)
  BY Value
<1>2. Read(c, f) = v
  BY <1>v, <1>1, Unaltered, SMT DEF ConvertValue
<1>3. ~Unreadable(c, f) /\ ~Misread(c, f)
  BY Hard, SMT
<1>4. Denotes(v, c)
  BY <1>1, <1>v, Meanings, SMT
<1>. QED
  BY <1>1, <1>2, <1>3, <1>4, <1>v, Valued

(* Bytes of a type that the code should know.                              *)
LEMMA SmallArrayReads ==
    ASSUME NEW c, NEW f, f \in {"binary", "text"}, Class(c) = "int2[]"
    PROVE  Reads(c, f)
<1>v. PICK v : v = <<"bytes", Content(c)>> /\ Class(v) = "bytes" /\ Content(v) = Content(c)
  BY Value
<1>1. Read(c, f) = v
  BY <1>v, Unaltered, SMT DEF ConvertValue
<1>2. ~Unreadable(c, f) /\ Misread(c, f)
  BY Hard, SMT
<1>3. ~Denotes(v, c)
  BY <1>v, SMT DEF Denotes
<1>. QED
  BY <1>1, <1>2, <1>3, <1>v, Valued

(* Bytes, which come in hexadecimal in a text.                             *)
LEMMA BytesRead ==
    ASSUME NEW c, NEW f, f \in {"binary", "text"}, Class(c) \in {"bytea", "uuid"}, IsColumn(c)
    PROVE  Reads(c, f)
<1>1. PICK class : class = IF Class(c) = "uuid" THEN "UUID" ELSE "bytes"
  OBVIOUS
<1>2. PICK x : x = IF f = "text" THEN <<"hex", Content(c)[2]>> ELSE Content(c)
  OBVIOUS
<1>v. PICK v : v = <<class, x>> /\ Class(v) = class /\ Content(v) = x
  BY Value
<1>3. Read(c, f) = v
  <2>1. CASE f = "text"
    <3>1. SendText(Class(c), Content(c)) = x
      BY <1>2, <2>1, SMT DEF SendText
    <3>2. ConvertText(Class(c), x) = v
      BY <1>v, <1>1, SMT DEF ConvertText, ConvertValue
    <3>. QED
      BY <2>1, <3>1, <3>2, Zenon DEF Read
  <2>2. CASE f = "binary"
    <3>1. Send(Class(c), Content(c)) = x
      BY <1>2, <2>2, SMT DEF Send
    <3>2. ConvertValue(Class(c), x) = v
      BY <1>v, <1>1, SMT DEF ConvertValue
    <3>. QED
      BY <2>2, <3>1, <3>2, "binary" # "text", Zenon DEF Read
  <2>. QED
    BY <2>1, <2>2
<1>4. ~Unreadable(c, f) /\ (Misread(c, f) <=> f = "text")
  BY Hard, SMT
<1>5. Denotes(v, c) <=> x = Content(c)
  BY <1>1, <1>v, Meanings, SMT
<1>6. x = Content(c) <=> f # "text"
  <2>1. Content(c)[1] = "raw"
    BY SMT DEF IsColumn
  <2>. QED
    BY <1>2, <2>1, SMT
<1>. QED
  BY <1>1, <1>3, <1>4, <1>5, <1>6, <1>v, Valued

(* A text is read as it is.                                                *)
LEMMA TextReads ==
    ASSUME NEW c, NEW f, f \in {"binary", "text"}, Class(c) = "text", IsColumn(c)
    PROVE  Reads(c, f)
<1>1. CString(Content(c)) = Content(c)
  BY CStrings, SMT DEF IsColumn
<1>v. PICK v : v = <<"str", Content(c)>> /\ Class(v) = "str" /\ Content(v) = Content(c)
  BY Value
<1>2. Read(c, f) = v
  BY <1>v, <1>1, Unaltered, SMT DEF ConvertValue
<1>3. ~Unreadable(c, f) /\ ~Misread(c, f)
  BY Hard, SMT
<1>4. Denotes(v, c)
  BY <1>v, SMT DEF Denotes
<1>. QED
  BY <1>2, <1>3, <1>4, <1>v, Valued

(* An integer of any width is read with its sign.                          *)
LEMMA IntegerReads ==
    ASSUME NEW c, NEW f, f \in {"binary", "text"}, Class(c) \in {"int2", "int4", "int8"}, IsColumn(c)
    PROVE  Reads(c, f)
<1>1. PICK limit \in Nat \ {0} :
        limit = IF Class(c) = "int2" THEN SmallLimit ELSE IF Class(c) = "int4" THEN IntLimit ELSE LongLimit
  BY Limits
<1>2. Content(c) \in Int /\ Fits(Content(c), limit)
  BY <1>1, SMT DEF IsColumn, IsInteger
<1>3. Signed(Unsigned(Content(c), limit), limit) = Content(c)
  BY <1>2, SignedBack
<1>v. PICK v : v = <<"int", Content(c)>> /\ Class(v) = "int" /\ Content(v) = Content(c)
  BY Value
<1>4. Read(c, f) = v
  BY <1>v, <1>1, <1>3, SMT DEF Read, ConvertText, ConvertValue, Send, SendText
<1>5. ~Unreadable(c, f) /\ ~Misread(c, f)
  BY Hard, SMT
<1>6. Denotes(v, c)
  BY <1>v, SMT DEF Denotes
<1>. QED
  BY <1>4, <1>5, <1>6, <1>v, Valued

(* Types that are refused in text.                                         *)
LEMMA Refuses ==
    ASSUME NEW c, Class(c) \in {"numeric", "money", "time", "timestamp", "int4[]", "int8[]", "text[]"}
    PROVE  Reads(c, "text")
<1>1. Read(c, "text") = Raised
  BY SMT DEF Read, ConvertText
<1>2. Unreadable(c, "text")
  BY Hard, SMT
<1>. QED
  BY <1>1, <1>2 DEF Reads

(* Money is read as it is, with its sign.                                  *)
LEMMA CashReads ==
    ASSUME NEW c, Class(c) = "money", IsColumn(c)
    PROVE  Reads(c, "binary")
<1>1. PICK n \in Int : n = Content(c) /\ Fits(n, LongLimit)
  BY SMT DEF IsColumn, IsInteger
<1>2. Signed(Unsigned(n, LongLimit), LongLimit) = n
  BY <1>1, Limits, SignedBack
<1>3. PICK x : x = <<"number", n < 0, IF n < 0 THEN -n ELSE n, 2>>
  BY Zenon
<1>v. PICK v : v = <<"Decimal", x>> /\ Class(v) = "Decimal" /\ Content(v) = x
  BY Value
<1>4. Read(c, "binary") = v
  <2>1. Read(c, "binary") = GetCash(Unsigned(n, LongLimit))
    BY <1>v, <1>1, SMT DEF Read, ConvertValue, Send
  <2>. QED
    BY <1>v, <1>2, <1>3, <2>1 DEF GetCash
<1>5. ~Unreadable(c, "binary") /\ ~Misread(c, "binary")
  BY Hard, SMT
<1>6. ASSUME n < 0 PROVE Denotes(v, c)
  <2>1. x = <<"number", TRUE, -n, 2>>
    BY <1>3, <1>6
  <2>2. x[1] = "number" /\ x[2] /\ x[3] = -n /\ x[4] = 2
    BY <2>1
  <2>3. n = -(-n)
    OBVIOUS
  <2>. QED
    BY <1>1, <1>v, <2>2, <2>3, Zenon DEF Denotes
<1>7. ASSUME ~(n < 0) PROVE Denotes(v, c)
  <2>1. x = <<"number", FALSE, n, 2>>
    <3>1. (n < 0) = FALSE
      BY <1>7, SMT
    <3>. QED
      BY <1>3, <1>7, <3>1, Zenon
  <2>2. x[1] = "number" /\ ~x[2] /\ x[3] = n /\ x[4] = 2
    BY <2>1
  <2>. QED
    BY <1>1, <1>v, <2>2, Zenon DEF Denotes
<1>. QED
  BY <1>4, <1>5, <1>6, <1>7, <1>v, Valued

(* An integer comes back from an array, with its sign.                     *)
LEMMA ElementReads ==
    ASSUME NEW e, NEW limit \in Nat \ {0},
           \/ e = None
           \/ e = <<"int", Content(e)>> /\ IsInteger(Content(e), limit)
    PROVE  /\ GetElement(SendElement(e, limit), limit) = e
           /\ IsInt(e) => <<"int", AsInt(e)>> = e
<1>1. CASE e = None
  <2>1. Class(e) = "None"
    BY <1>1, Pairs DEF None
  <2>. QED
    BY <2>1, SMT DEF GetElement, SendElement, IsInt
<1>2. CASE e = <<"int", Content(e)>> /\ IsInteger(Content(e), limit)
  <2>1. PICK n \in Int : n = Content(e) /\ Fits(n, limit) /\ e = <<"int", n>>
    BY <1>2 DEF IsInteger
  <2>2. Class(e) = "int"
    BY <2>1, Pairs
  <2>3. AsInt(e) = n
    BY <2>1, <2>2, SMT DEF AsInt
  <2>4. PICK u : u = Unsigned(n, limit)
    OBVIOUS
  <2>5. Signed(u, limit) = n
    BY <2>1, <2>4, SignedBack
  <2>6. SendElement(e, limit) = <<"int", u>>
    BY <2>1, <2>2, <2>4 DEF SendElement
  <2>7. GetElement(<<"int", u>>, limit) = <<"int", n>>
    BY <2>5, Pairs DEF GetElement
  <2>. QED
    BY <2>1, <2>3, <2>6, <2>7
<1>. QED
  BY <1>1, <1>2

(* An array of one dimension comes back if its elements do.                *)
LEMMA ArrayReads ==
    ASSUME NEW c, Class(c) \in {"int4[]", "int8[]", "text[]"}, IsColumn(c)
    PROVE  Reads(c, "binary")
<1>1. PICK limit \in Nat \ {0} : limit = IF Class(c) = "int4[]" THEN IntLimit ELSE LongLimit
  BY Limits
<1>2. PICK x : x = Content(c)
  OBVIOUS
<1>3. IsArray(x)
  BY <1>2, SMT DEF IsColumn, IsIntegers, IsTexts
<1>4. PICK d, e : d = x[1] /\ e = x[2]
  OBVIOUS
<1>5. x = <<d, e>> /\ IsSequence(e) /\ (d = 0 <=> e = <<>>)
  BY <1>3, <1>4 DEF IsArray
<1>6. e = [i \in DOMAIN e |-> e[i]]
  BY <1>5 DEF IsSequence
<1>7. PICK sent : sent = IF Class(c) = "text[]" THEN e
                         ELSE [i \in DOMAIN e |-> SendElement(e[i], limit)]
  OBVIOUS
<1>8. DOMAIN sent = DOMAIN e
  BY <1>7
<1>9. \A i \in DOMAIN e : /\ GetElement(sent[i], limit) = e[i]
                          /\ IsInt(e[i]) => <<"int", AsInt(e[i])>> = e[i]
  <2>1. CASE Class(c) = "text[]"
    <3>1. \A i \in DOMAIN e : e[i] = None \/ Class(e[i]) = "str"
      BY <1>2, <1>4, <2>1, SMT DEF IsColumn, IsTexts
    <3>2. \A i \in DOMAIN e : Class(e[i]) \in {"None", "str"}
      BY <3>1, Pairs DEF None
    <3>. QED
      BY <1>7, <2>1, <3>2, SMT DEF GetElement, IsInt
  <2>2. CASE Class(c) # "text[]"
    <3>1. IsIntegers(x, limit)
      BY <1>1, <1>2, <2>2, SMT DEF IsColumn
    <3>2. \A i \in DOMAIN e : \/ e[i] = None
                              \/ e[i] = <<"int", Content(e[i])>> /\ IsInteger(Content(e[i]), limit)
      BY <1>4, <3>1 DEF IsIntegers
    <3>3. \A i \in DOMAIN e : sent[i] = SendElement(e[i], limit)
      BY <1>7, <2>2
    <3>. QED
      BY <3>2, <3>3, ElementReads
  <2>. QED
    BY <2>1, <2>2
<1>10. Read(c, "binary") = GetArray(<<d, sent>>, limit)
  <2>1. CASE Class(c) = "text[]"
    BY <1>1, <1>2, <1>5, <1>7, <2>1, SMT DEF Read, ConvertValue, Send
  <2>2. CASE Class(c) # "text[]"
    <3>1. SendArray(x, limit) = <<d, sent>>
      BY <1>4, <1>7, <2>2 DEF SendArray
    <3>. QED
      BY <1>1, <1>2, <2>2, <3>1, SMT DEF Read, ConvertValue, Send
  <2>. QED
    BY <2>1, <2>2
<1>11. Unreadable(c, "binary") <=> d # 1
  BY <1>2, <1>4, Hard, SMT
<1>12. CASE d # 1
  <2>1. Read(c, "binary") = Raised
    BY <1>10, <1>12 DEF GetArray
  <2>. QED
    BY <1>11, <1>12, <2>1 DEF Reads
<1>13. CASE d = 1
  <2>1. PICK v : v = <<"list", e>> /\ Class(v) = "list" /\ Content(v) = e
    BY Value
  <2>2. Read(c, "binary") = v
    <3>1. [i \in DOMAIN sent |-> GetElement(sent[i], limit)] = e
      BY <1>6, <1>8, <1>9
    <3>2. <<d, sent>>[1] = 1 /\ <<d, sent>>[2] = sent
      BY <1>13
    <3>. QED
      BY <1>10, <2>1, <3>1, <3>2 DEF GetArray
  <2>3. Elements(v) = e
    BY <1>6, <1>9, <2>1 DEF Elements
  <2>4. Array(e) = x
    BY <1>5, <1>13 DEF Array
  <2>5. Denotes(v, c)
    BY <1>2, <2>1, <2>3, <2>4, SMT DEF Denotes
  <2>6. ~Misread(c, "binary")
    BY Hard, SMT
  <2>. QED
    BY <1>11, <1>13, <2>1, <2>2, <2>5, <2>6, Valued
<1>. QED
  BY <1>12, <1>13

(* A number of ticks is a number of days and a time of the day.            *)
LEMMA Clocks ==
    ASSUME NEW u \in Nat
    PROVE  \E n, h, m, s, us \in Int :
              /\ n >= 0 /\ IsClock(h, m, s, us)
              /\ u = n * TicksPerDay + Ticks(h, m, s, us)
              /\ TimeOf(u) = <<n * Hours + h, m, s, us>>
              /\ TimeOf(u)[1] \div Hours = n /\ TimeOf(u)[1] % Hours = h
              /\ u % Micros = us /\ u \div Micros = ((n * Hours + h) * Minutes + m) * Seconds + s
<1>1. Hours \in Nat \ {0} /\ Minutes \in Nat \ {0} /\ Seconds \in Nat \ {0} /\ Micros \in Nat \ {0}
  BY ValuesAssumption
<1>2. PICK a \in Int, us \in 0..(Micros - 1) : a = u \div Micros /\ us = u % Micros /\ u = a * Micros + us
  BY <1>1, Divided
<1>3. PICK b \in Int, s \in 0..(Seconds - 1) : b = a \div Seconds /\ s = a % Seconds /\ a = b * Seconds + s
  BY <1>1, Divided
<1>4. PICK k \in Int, m \in 0..(Minutes - 1) : k = b \div Minutes /\ m = b % Minutes /\ b = k * Minutes + m
  BY <1>1, Divided
<1>5. PICK n \in Int, h \in 0..(Hours - 1) : n = k \div Hours /\ h = k % Hours /\ k = n * Hours + h
  BY <1>1, Divided
<1>6. IsClock(h, m, s, us) /\ h \in Int /\ m \in Int /\ s \in Int /\ us \in Int
  BY <1>1, <1>2, <1>3, <1>4, <1>5, SMT DEF IsClock
<1>7. u = n * TicksPerDay + Ticks(h, m, s, us)
  <2>1. (((n * Hours + h) * Minutes + m) * Seconds + s) * Micros + us
        = n * TicksPerDay + Ticks(h, m, s, us)
    BY <1>6, TicksSince
  <2>. QED
    BY <1>2, <1>3, <1>4, <1>5, <2>1
<1>8. TimeOf(u) = <<k, m, s, us>>
  BY <1>2, <1>3, <1>4 DEF TimeOf
<1>9. n >= 0
  <2>1. PICK T \in Nat \ {0} : T = TicksPerDay
    BY DayTypes
  <2>2. PICK clock \in Int : clock = Ticks(h, m, s, us) /\ 0 <= clock /\ clock < T
    BY <1>6, <2>1, ClockTypes
  <2>3. u = n * T + clock
    BY <1>7, <2>1, <2>2
  <2>4. n <= -1 => n * T <= -T
    BY <2>1, SMT
  <2>5. n * T \in Int
    BY <2>1, SMT
  <2>. QED
    BY <2>2, <2>3, <2>4, <2>5, SMT
<1>10. TimeOf(u) = <<n * Hours + h, m, s, us>>
  BY <1>5, <1>8
<1>11. TimeOf(u)[1] \div Hours = n /\ TimeOf(u)[1] % Hours = h
  BY <1>5, <1>8
<1>12. u % Micros = us /\ u \div Micros = ((n * Hours + h) * Minutes + m) * Seconds + s
  BY <1>2, <1>3, <1>4, <1>5
<1>. QED
  BY <1>6, <1>7, <1>9, <1>10, <1>11, <1>12

(* Which day that is.                                                      *)
LEMMA DayOrder ==
    ASSUME NEW n \in Int, NEW D \in Int, NEW T \in Nat \ {0}, NEW clock \in Int, 0 <= clock, clock < T
    PROVE  n < D <=> n * T + clock < D * T
<1>1. n * T \in Int /\ D * T \in Int
  BY SMT
<1>2. n + 1 <= D => (n + 1) * T <= D * T
  BY SMT
<1>3. (n + 1) * T = n * T + T
  BY SMT
<1>4. D <= n => D * T <= n * T
  BY SMT
<1>. QED
  BY <1>1, <1>2, <1>3, <1>4, SMT

(* A time is read, but for 24:00, which Python does not have.              *)
LEMMA TimeReads ==
    ASSUME NEW c, Class(c) = "time", IsColumn(c)
    PROVE  Reads(c, "binary")
<1>1. PICK T \in Nat \ {0} : T = TicksPerDay
  BY DayTypes
<1>2. PICK u \in Nat : u = Content(c) /\ u <= T
  BY <1>1, SMT DEF IsColumn
<1>3. PICK n, h, m, s, us \in Int :
              /\ n >= 0 /\ IsClock(h, m, s, us)
              /\ u = n * TicksPerDay + Ticks(h, m, s, us)
              /\ TimeOf(u) = <<n * Hours + h, m, s, us>>
              /\ TimeOf(u)[1] \div Hours = n /\ TimeOf(u)[1] % Hours = h
              /\ u % Micros = us /\ u \div Micros = ((n * Hours + h) * Minutes + m) * Seconds + s
  BY Clocks
<1>4. PICK clock \in Int : clock = Ticks(h, m, s, us) /\ 0 <= clock /\ clock < T
  BY <1>1, <1>3, ClockTypes
<1>5. u = n * T + clock
  BY <1>1, <1>3, <1>4
<1>6. Hours \in Nat \ {0} /\ 0 <= h /\ h < Hours
  BY <1>3, ValuesAssumption, SMT DEF IsClock
<1>7. n < 1 <=> n * Hours + h < 1 * Hours
  BY <1>6, DayOrder
<1>8. n < 1 <=> u < 1 * T
  BY <1>4, <1>5, DayOrder
<1>9. Unreadable(c, "binary") <=> u = T
  BY <1>1, <1>2, SMT DEF Unreadable
<1>10. Read(c, "binary") = MakeTime(TimeOf(u))
  BY <1>2, SMT DEF Read, ConvertValue, Send, GetTime
<1>11. TimeOf(u)[1] < Hours <=> u < T
  BY <1>3, <1>6, <1>7, <1>8, SMT
<1>12. CASE u = T
  <2>1. Read(c, "binary") = Raised
    BY <1>10, <1>11, <1>12, SMT DEF MakeTime
  <2>. QED
    BY <1>9, <1>12, <2>1 DEF Reads
<1>13. CASE u # T
  <2>1. n = 0
    BY <1>2, <1>3, <1>8, <1>13, SMT
  <2>2. PICK x : x = <<h, m, s, us>>
    OBVIOUS
  <2>3. TimeOf(u) = x
    <3>1. n * Hours + h = h
      BY <1>6, <2>1, SMT
    <3>. QED
      BY <1>3, <2>2, <3>1
  <2>4. PICK v : v = <<"time", x>> /\ Class(v) = "time" /\ Content(v) = x
    BY Value
  <2>5. Read(c, "binary") = v
    <3>1. TimeOf(u)[1] < Hours
      BY <1>2, <1>11, <1>13, SMT
    <3>. QED
      BY <1>10, <2>3, <2>4, <3>1 DEF MakeTime
  <2>6. u = Ticks(x[1], x[2], x[3], x[4])
    BY <1>4, <1>5, <2>1, <2>2, SMT
  <2>7. Denotes(v, c)
    BY <1>2, <2>4, <2>6, SMT DEF Denotes
  <2>8. ~Misread(c, "binary")
    BY Hard, SMT
  <2>. QED
    BY <1>9, <1>13, <2>4, <2>5, <2>7, <2>8, Valued
<1>. QED
  BY <1>12, <1>13

(* julianToDate gives a year, a month and a day.                           *)
LEMMA Triple ==
    ASSUME NEW J
    PROVE  julianToDate(J) = <<julianToDate(J)[1], julianToDate(J)[2], julianToDate(J)[3]>>
BY DEF julianToDate

(* A date and a time make a datetime.                                      *)
LEMMA Joined ==
    ASSUME NEW y, NEW mo, NEW d, NEW h, NEW m, NEW s, NEW us
    PROVE  <<y, mo, d>> \o <<h, m, s, us>> = <<y, mo, d, h, m, s, us>>
<1>1. PICK S : y \in S /\ mo \in S /\ d \in S /\ h \in S /\ m \in S /\ s \in S /\ us \in S
  <2>1. \E S : S = {y, mo, d, h, m, s, us}
    OBVIOUS
  <2>. QED
    BY <2>1
<1>2. <<y, mo, d>> \in Seq(S) /\ <<h, m, s, us>> \in Seq(S)
  BY <1>1
<1>3. Len(<<y, mo, d>>) = 3 /\ Len(<<h, m, s, us>>) = 4
  OBVIOUS
<1>4. PICK w : w = <<y, mo, d>> \o <<h, m, s, us>>
  OBVIOUS
<1>5. /\ w \in Seq(S) /\ Len(w) = 7
      /\ \A i \in 1..7 : w[i] = IF i <= 3 THEN <<y, mo, d>>[i] ELSE <<h, m, s, us>>[i - 3]
  <2>1. /\ w \in Seq(S) /\ Len(w) = 3 + 4
        /\ \A i \in 1..(3 + 4) : w[i] = IF i <= 3 THEN <<y, mo, d>>[i] ELSE <<h, m, s, us>>[i - 3]
    BY <1>2, <1>3, <1>4, ConcatProperties
  <2>2. 3 + 4 = 7
    OBVIOUS
  <2>. QED
    BY <2>1, <2>2
<1>6. w[1] = y /\ w[2] = mo /\ w[3] = d /\ w[4] = h /\ w[5] = m /\ w[6] = s /\ w[7] = us
  BY <1>5
<1>7. w = [i \in 1..7 |-> w[i]]
  BY <1>5
<1>8. <<y, mo, d, h, m, s, us>> = [i \in 1..7 |-> <<y, mo, d, h, m, s, us>>[i]]
  OBVIOUS
<1>9. \A i \in 1..7 : <<y, mo, d, h, m, s, us>>[i] = w[i]
  <2>1. PICK x : x = <<y, mo, d, h, m, s, us>>
    OBVIOUS
  <2>2. x[1] = y /\ x[2] = mo /\ x[3] = d /\ x[4] = h /\ x[5] = m /\ x[6] = s /\ x[7] = us
    BY <2>1
  <2>3. \A i \in 1..7 : i \in {1, 2, 3, 4, 5, 6, 7}
    OBVIOUS
  <2>4. \A i \in {1, 2, 3, 4, 5, 6, 7} : x[i] = w[i]
    BY <1>6, <2>2
  <2>. QED
    BY <2>1, <2>3, <2>4, Zenon
<1>. QED
  BY <1>4, <1>7, <1>8, <1>9, Zenon

(* A timestamp is read if it is a date and a time from 2000 on: before, it *)
(* is taken for one after the dates of Python.                             *)
LEMMA TimestampReads ==
    ASSUME NEW c, Class(c) = "timestamp", IsColumn(c)
    PROVE  Reads(c, "binary")
<1>1. PICK T \in Nat \ {0} : T = TicksPerDay
  BY DayTypes
<1>2. PICK x \in Int : x = Content(c) /\ Fits(x, LongLimit)
  BY SMT DEF IsColumn, IsInteger
<1>3. PICK u \in Nat : u = Unsigned(x, LongLimit)
  <2>1. Unsigned(x, LongLimit) \in 0..(2 * LongLimit - 1)
    BY UnsignedRange, Limits
  <2>. QED
    BY <2>1, Limits
<1>4. u = IF x >= 0 THEN x ELSE x + 2 * LongLimit
  BY <1>2, <1>3, Limits, SMT DEF Unsigned, Fits
<1>5. PICK n, h, m, s, us \in Int :
              /\ n >= 0 /\ IsClock(h, m, s, us)
              /\ u = n * TicksPerDay + Ticks(h, m, s, us)
              /\ TimeOf(u) = <<n * Hours + h, m, s, us>>
              /\ TimeOf(u)[1] \div Hours = n /\ TimeOf(u)[1] % Hours = h
              /\ u % Micros = us /\ u \div Micros = ((n * Hours + h) * Minutes + m) * Seconds + s
  BY Clocks
<1>6. PICK clock \in Int : clock = Ticks(h, m, s, us) /\ 0 <= clock /\ clock < T
  BY <1>1, <1>5, ClockTypes
<1>7. u = n * T + clock
  BY <1>1, <1>5, <1>6
<1>8. PICK D \in Int : D = LastDay + 1 /\ D * T \in Int /\ D * T <= LongLimit
  <2>1. (LastDay + 1) * T <= LongLimit /\ LastDay + 1 \in Int
    BY <1>1, RangesAssumption, DayRanges
  <2>2. PICK D \in Int : D = LastDay + 1
    BY <2>1
  <2>3. D * T \in Int
    BY SMT
  <2>. QED
    BY <2>1, <2>2, <2>3
<1>9. n < D <=> u < D * T
  BY <1>6, <1>7, <1>8, DayOrder
<1>10. n < D <=> x >= 0 /\ x < D * T
  BY <1>2, <1>4, <1>8, <1>9, Limits, SMT DEF Fits
<1>11. Unreadable(c, "binary") <=> ~(x >= 0 /\ x < D * T)
  <2>1. Unreadable(c, "binary") <=> x \notin 0..(D * T - 1)
    BY <1>1, <1>2, <1>8, Hard
  <2>. QED
    BY <1>8, <2>1, SMT
<1>12. PICK date : date = julianToDate(JULIAN_START + n)
  OBVIOUS
<1>13. Read(c, "binary") = MakeDateTime(date, <<h, m, s, us>>)
  <2>1. Read(c, "binary") = GetTimestamp(u)
    BY <1>2, <1>3, SMT DEF Read, ConvertValue, Send
  <2>2. n + JULIAN_START = JULIAN_START + n
    BY DayRanges, SMT
  <2>3. [TimeOf(u) EXCEPT ![1] = @ % Hours] = <<h, m, s, us>>
    BY <1>5
  <2>. QED
    BY <1>5, <1>12, <2>1, <2>2, <2>3 DEF GetTimestamp
<1>14. n \in FirstDay..LastDay <=> n < D
  BY <1>5, <1>8, DayRanges, SMT
<1>15. CASE ~(n < D)
  <2>1. ~IsDate(date)
    BY <1>12, <1>14, <1>15, DatesOfDays
  <2>2. Read(c, "binary") = Raised
    BY <1>13, <2>1 DEF MakeDateTime
  <2>. QED
    BY <1>10, <1>11, <1>15, <2>2 DEF Reads
<1>16. CASE n < D
  <2>1. n # DayNumber(<<300, 3, 1>>)
    <3>1. DayNumber(<<300, 3, 1>>) < 0
      BY SMT DEF DayNumber, DaysBefore, IsLeap
    <3>. QED
      BY <1>5, <3>1, SMT
  <2>2. IsDate(date) /\ DayNumber(date) = n
    BY <1>12, <1>14, <1>16, <2>1, DatesOfDays
  <2>3. PICK y, mo, d : date = <<y, mo, d>>
    BY <1>12, Triple
  <2>4. PICK t : t = <<y, mo, d, h, m, s, us>>
    OBVIOUS
  <2>5. PICK v : v = <<"datetime", t>> /\ Class(v) = "datetime" /\ Content(v) = t
    BY Value
  <2>6. Read(c, "binary") = v
    BY <1>13, <2>2, <2>3, <2>4, <2>5, Joined DEF MakeDateTime
  <2>7. DayNumber(t) = n
    <3>1. t[1] = y /\ t[2] = mo /\ t[3] = d
      BY <2>4
    <3>2. date[1] = y /\ date[2] = mo /\ date[3] = d
      BY <2>3
    <3>. QED
      BY <2>2, <3>1, <3>2 DEF DayNumber
  <2>8. x = n * T + clock
    BY <1>4, <1>7, <1>10, <1>16
  <2>9. x = DayNumber(t) * TicksPerDay + Ticks(t[4], t[5], t[6], t[7])
    <3>1. t[4] = h /\ t[5] = m /\ t[6] = s /\ t[7] = us
      BY <2>4
    <3>. QED
      BY <1>1, <1>6, <2>7, <2>8, <3>1
  <2>10. Denotes(v, c)
    BY <1>2, <2>5, <2>9, Meanings
  <2>11. ~Misread(c, "binary")
    BY Hard, SMT
  <2>. QED
    BY <1>10, <1>11, <1>16, <2>5, <2>6, <2>10, <2>11, Valued
<1>. QED
  BY <1>15, <1>16

(* The seconds that GetInterval makes of the ticks of an interval.         *)
DeltaSeconds(x) ==
    LET s == Quot(x, Micros)
        m == Quot(s, Seconds)
    IN  Rem(s, Seconds) + Seconds * Rem(m, Minutes)
        + Seconds * Minutes * Rem(Quot(m, Minutes), Hours)

(* For a negative number they are those of the positive one, negated.      *)
LEMMA Mirrored ==
    ASSUME NEW x \in Int, NEW b \in Nat \ {0}
    PROVE  /\ Quot(x, b) \in Int /\ Rem(x, b) \in Int
           /\ Quot(-x, b) = -Quot(x, b) /\ Rem(-x, b) = -Rem(x, b)
<1>1. 0 \div b = 0
  <2>1. 0 = 0 * b + 0 /\ 0 \in 0..(b - 1)
    OBVIOUS
  <2>. QED
    BY <2>1, Division
<1>2. x \div b \in Int /\ (-x) \div b \in Int /\ -x \in Int /\ -(-x) = x
  OBVIOUS
<1>3. Quot(x, b) \in Int /\ Quot(-x, b) = -Quot(x, b)
  BY <1>1, <1>2, SMT DEF Quot
<1>4. PICK q \in Int : q = Quot(x, b) /\ Quot(-x, b) = -q
  BY <1>3
<1>5. b * q \in Int /\ b * (-q) = -(b * q)
  BY SMT
<1>6. Rem(x, b) = x - b * q /\ Rem(-x, b) = -x - b * (-q)
  BY <1>4 DEF Rem
<1>. QED
  BY <1>3, <1>5, <1>6, SMT

(* A quotient of a positive number is not negative.                        *)
LEMMA NotNegative ==
    ASSUME NEW m \in Nat \ {0}, NEW q \in Int, NEW r \in 0..(m - 1), q * m + r >= 0
    PROVE  q >= 0
<1>1. q <= -1 => q * m <= -m
  BY SMT
<1>2. q * m \in Int
  BY SMT
<1>. QED
  BY <1>1, <1>2, SMT

(* The ticks are a number of days, which is dropped, and the seconds, and  *)
(* a rest of a second, which is dropped.                                   *)
LEMMA PositiveSeconds ==
    ASSUME NEW u \in Nat
    PROVE  /\ DeltaSeconds(u) \in Int
           /\ DeltaSeconds(u) * Micros = u <=> u % Micros = 0 /\ u < TicksPerDay
<1>1. Hours \in Nat \ {0} /\ Minutes \in Nat \ {0} /\ Seconds \in Nat \ {0} /\ Micros \in Nat \ {0}
  BY ValuesAssumption
<1>2. PICK T \in Nat \ {0} : T = TicksPerDay
  BY DayTypes
<1>3. PICK a \in Int, us \in 0..(Micros - 1) : a = u \div Micros /\ us = u % Micros /\ u = a * Micros + us
  BY <1>1, Divided
<1>4. PICK b \in Int, s \in 0..(Seconds - 1) : b = a \div Seconds /\ s = a % Seconds /\ a = b * Seconds + s
  BY <1>1, Divided
<1>5. PICK k \in Int, m \in 0..(Minutes - 1) : k = b \div Minutes /\ m = b % Minutes /\ b = k * Minutes + m
  BY <1>1, Divided
<1>6. PICK n \in Int, h \in 0..(Hours - 1) : n = k \div Hours /\ h = k % Hours /\ k = n * Hours + h
  BY <1>1, Divided
<1>7. IsClock(h, m, s, us) /\ h \in Int /\ m \in Int /\ s \in Int /\ us \in Int
  BY <1>1, <1>3, <1>4, <1>5, <1>6, SMT DEF IsClock
<1>8. a >= 0 /\ b >= 0 /\ k >= 0
  <2>1. a >= 0
    BY <1>1, <1>3, NotNegative
  <2>2. b >= 0
    BY <1>1, <1>4, <2>1, NotNegative
  <2>. QED
    BY <1>1, <1>5, <2>1, <2>2, NotNegative
<1>9. PICK seconds \in Int : seconds = s + Seconds * m + Seconds * Minutes * h
  BY <1>1, <1>7
<1>10. DeltaSeconds(u) = seconds
  <2>1. Quot(u, Micros) = a
    BY <1>3, SMT DEF Quot
  <2>2. Quot(a, Seconds) = b /\ Rem(a, Seconds) = s
    <3>1. Quot(a, Seconds) = b
      BY <1>4, <1>8, SMT DEF Quot
    <3>2. Rem(a, Seconds) = a - Seconds * b
      BY <3>1 DEF Rem
    <3>. QED
      BY <1>1, <1>4, <3>1, <3>2, SMT
  <2>3. Quot(b, Minutes) = k /\ Rem(b, Minutes) = m
    <3>1. Quot(b, Minutes) = k
      BY <1>5, <1>8, SMT DEF Quot
    <3>2. Rem(b, Minutes) = b - Minutes * k
      BY <3>1 DEF Rem
    <3>. QED
      BY <1>1, <1>5, <3>1, <3>2, SMT
  <2>4. Rem(k, Hours) = h
    <3>1. Quot(k, Hours) = n
      BY <1>6, <1>8, SMT DEF Quot
    <3>2. Rem(k, Hours) = k - Hours * n
      BY <3>1 DEF Rem
    <3>. QED
      BY <1>1, <1>6, <3>2, SMT
  <2>. QED
    BY <1>9, <2>1, <2>2, <2>3, <2>4 DEF DeltaSeconds
<1>11. PICK clock \in Int : clock = Ticks(h, m, s, us) /\ 0 <= clock /\ clock < T
  BY <1>2, <1>7, ClockTypes
<1>12. u = n * T + clock
  <2>1. (((n * Hours + h) * Minutes + m) * Seconds + s) * Micros + us
        = n * TicksPerDay + Ticks(h, m, s, us)
    BY <1>7, TicksSince
  <2>2. u = (((n * Hours + h) * Minutes + m) * Seconds + s) * Micros + us
    BY <1>3, <1>4, <1>5, <1>6, Zenon
  <2>. QED
    BY <1>2, <1>11, <2>1, <2>2, Zenon
<1>13. seconds * Micros + us = clock
  <2>1. seconds = (h * Minutes + m) * Seconds + s
    BY <1>1, <1>7, <1>9, SMT
  <2>. QED
    BY <1>11, <2>1 DEF Ticks
<1>14. n * T \in Int /\ seconds * Micros \in Int /\ n \in Int
  BY <1>1, <1>2
<1>15. n >= 0
  BY <1>1, <1>6, <1>8, NotNegative
<1>16. n < 1 <=> u < 1 * T
  BY <1>11, <1>12, DayOrder
<1>17. n * T >= 0 /\ (n = 0 => n * T = 0) /\ (n >= 1 => n * T >= T)
  BY <1>2, <1>15, SMT
<1>18. seconds * Micros = u <=> us = 0 /\ n = 0
  <2>1. PICK P \in Int, Q \in Int : P = n * T /\ Q = seconds * Micros
    BY <1>14
  <2>2. Q + us = clock /\ u = P + clock /\ P >= 0 /\ (P = 0 <=> n = 0)
    BY <1>2, <1>12, <1>13, <1>14, <1>15, <1>17, <2>1, SMT
  <2>3. us >= 0
    BY <1>1, SMT
  <2>4. Q = u <=> us = 0 /\ P = 0
    BY <1>7, <2>2, <2>3, SMT
  <2>. QED
    BY <2>1, <2>2, <2>4
<1>. QED
  BY <1>2, <1>3, <1>10, <1>15, <1>16, <1>18, SMT

(* So for negative numbers.                                                *)
LEMMA IntervalSeconds ==
    ASSUME NEW x \in Int
    PROVE  /\ DeltaSeconds(x) \in Int
           /\ DeltaSeconds(x) * Micros = x
              <=> x % Micros = 0 /\ x \in (1 - TicksPerDay)..(TicksPerDay - 1)
<1>1. Hours \in Nat \ {0} /\ Minutes \in Nat \ {0} /\ Seconds \in Nat \ {0} /\ Micros \in Nat \ {0}
  BY ValuesAssumption
<1>2. PICK T \in Nat \ {0} : T = TicksPerDay
  BY DayTypes
<1>3. CASE x >= 0
  BY <1>2, <1>3, PositiveSeconds, SMT
<1>4. CASE x < 0
  <2>1. PICK u \in Nat : u = -x
    BY <1>4
  <2>2. PICK d \in Int : d = DeltaSeconds(u) /\ (d * Micros = u <=> u % Micros = 0 /\ u < T)
    BY <1>2, PositiveSeconds
  <2>3. DeltaSeconds(-u) = -d
    <3>1. PICK s \in Int : s = Quot(u, Micros) /\ Quot(-u, Micros) = -s
      BY <1>1, Mirrored
    <3>2. PICK m \in Int, a \in Int : /\ m = Quot(s, Seconds) /\ Quot(-s, Seconds) = -m
                                      /\ a = Rem(s, Seconds) /\ Rem(-s, Seconds) = -a
      <4>1. /\ Quot(s, Seconds) \in Int /\ Rem(s, Seconds) \in Int
            /\ Quot(-s, Seconds) = -Quot(s, Seconds) /\ Rem(-s, Seconds) = -Rem(s, Seconds)
        BY <1>1, Mirrored, Zenon
      <4>. QED
        BY <4>1
    <3>3. PICK k \in Int, b \in Int : /\ k = Quot(m, Minutes) /\ Quot(-m, Minutes) = -k
                                      /\ b = Rem(m, Minutes) /\ Rem(-m, Minutes) = -b
      <4>1. /\ Quot(m, Minutes) \in Int /\ Rem(m, Minutes) \in Int
            /\ Quot(-m, Minutes) = -Quot(m, Minutes) /\ Rem(-m, Minutes) = -Rem(m, Minutes)
        BY <1>1, Mirrored, Zenon
      <4>. QED
        BY <4>1
    <3>4. PICK c \in Int : c = Rem(k, Hours) /\ Rem(-k, Hours) = -c
      BY <1>1, Mirrored
    <3>5. d = a + Seconds * b + Seconds * Minutes * c
      BY <2>2, <3>1, <3>2, <3>3, <3>4 DEF DeltaSeconds
    <3>6. DeltaSeconds(-u) = -a + Seconds * (-b) + Seconds * Minutes * (-c)
      BY <3>1, <3>2, <3>3, <3>4 DEF DeltaSeconds
    <3>7. PICK A \in Int, B \in Int : A = Seconds * b /\ B = Seconds * Minutes * c
      BY <1>1
    <3>8. Seconds * (-b) = -A /\ Seconds * Minutes * (-c) = -B
      BY <1>1, <3>7, SMT
    <3>. QED
      BY <3>5, <3>6, <3>7, <3>8, SMT
  <2>4. x = -u
    BY <2>1
  <2>5. (-d) * Micros = x <=> d * Micros = u
    BY <1>1, <2>1, SMT
  <2>6. x % Micros = 0 <=> u % Micros = 0
    <3>1. ASSUME NEW p \in Int, p % Micros = 0 PROVE (-p) % Micros = 0
      <4>1. PICK q \in Int : q = p \div Micros /\ p = q * Micros + 0
        BY <1>1, <3>1, Divided
      <4>2. PICK r \in Int : r = -q
        OBVIOUS
      <4>3. -p = r * Micros + 0 /\ 0 \in 0..(Micros - 1)
        BY <1>1, <4>1, <4>2, SMT
      <4>4. (r * Micros + 0) % Micros = 0
        BY <1>1, <4>3, Division
      <4>. QED
        BY <4>3, <4>4
    <3>2. x \in Int /\ u \in Int /\ u = -x
      BY <2>1
    <3>. QED
      BY <2>4, <3>1, <3>2
  <2>7. u < T <=> x \in (1 - T)..(T - 1)
    BY <1>2, <1>4, <2>1, SMT
  <2>. QED
    BY <1>2, <2>2, <2>3, <2>4, <2>5, <2>6, <2>7
<1>. QED
  BY <1>3, <1>4, SMT

(* An interval is read if it has no months, but for what GetInterval       *)
(* drops.                                                                  *)
LEMMA IntervalReads ==
    ASSUME NEW c, Class(c) = "interval", IsColumn(c)
    PROVE  Reads(c, "binary")
<1>1. PICK mo \in Int, days \in Int, x \in Int :
        mo = Content(c)[1] /\ days = Content(c)[2] /\ x = Content(c)[3]
  BY SMT DEF IsColumn
<1>2. Fits(days, IntLimit)
  BY <1>1, SMT DEF IsColumn
<1>3. PICK u : u = Unsigned(days, IntLimit)
  OBVIOUS
<1>4. Signed(u, IntLimit) = days
  BY <1>2, <1>3, SignedBack, Limits
<1>5. PICK p : p = <<mo, u, x>>
  OBVIOUS
<1>6. p[1] = mo /\ p[2] = u /\ p[3] = x
  BY <1>5
<1>7. Read(c, "binary") = GetInterval(p)
  BY <1>1, <1>3, <1>5, SMT DEF Read, ConvertValue, Send
<1>8. Read(c, "binary") = IF mo # 0 THEN Raised ELSE MakeDelta(days, DeltaSeconds(x))
  BY <1>4, <1>6, <1>7 DEF GetInterval, DeltaSeconds
<1>9. Unreadable(c, "binary") <=> mo # 0
  BY <1>1, Hard
<1>10. CASE mo # 0
  <2>1. Read(c, "binary") = Raised
    BY <1>8, <1>10
  <2>. QED
    BY <1>9, <1>10, <2>1 DEF Reads
<1>11. CASE mo = 0
  <2>1. PICK S \in Nat \ {0}, T \in Nat \ {0} : S = SecondsPerDay /\ T = TicksPerDay /\ T = S * Micros
    BY DayTypes DEF TicksPerDay
  <2>2. PICK d \in Int : d = DeltaSeconds(x)
    BY IntervalSeconds
  <2>3. PICK q \in Int, r \in Int : q = d \div S /\ r = d % S /\ d = q * S + r
    <3>1. PICK q \in Int, r \in 0..(S - 1) : q = d \div S /\ r = d % S /\ d = q * S + r
      BY Divided
    <3>2. r \in Int
      OBVIOUS
    <3>. QED
      BY <3>1, <3>2
  <2>4. PICK t : t = <<days + q, r, 0>>
    OBVIOUS
  <2>5. t[1] = days + q /\ t[2] = r /\ t[3] = 0
    BY <2>4
  <2>6. PICK v : v = <<"timedelta", t>> /\ Class(v) = "timedelta" /\ Content(v) = t
    BY Value
  <2>7. Read(c, "binary") = v
    BY <1>8, <1>11, <2>1, <2>2, <2>3, <2>4, <2>6 DEF MakeDelta
  <2>8. (days + q) * T + r * Micros + 0 = days * T + x <=> d * Micros = x
    <3>1. Micros \in Int
      BY ValuesAssumption
    <3>2. (days + q) * T = days * T + q * T /\ days * T \in Int /\ q * T \in Int /\ r * Micros \in Int
      BY <3>1, SMT
    <3>3. d * Micros = q * T + r * Micros
      <4>1. (q * S + r) * Micros = q * (S * Micros) + r * Micros
        BY <3>1, SMT
      <4>. QED
        BY <2>1, <2>3, <4>1
    <3>. QED
      BY <3>2, <3>3, SMT
  <2>9. Denotes(v, c) <=> d * Micros = x
    <3>1. Denotes(v, c) <=>
            /\ Content(c)[1] = 0
            /\ Content(v)[1] * TicksPerDay + Content(v)[2] * Micros + Content(v)[3]
               = Content(c)[2] * TicksPerDay + Content(c)[3]
      BY <2>6, Meanings
    <3>. QED
      BY <1>1, <1>11, <2>1, <2>5, <2>6, <2>8, <3>1
  <2>10. Misread(c, "binary") <=> x % Micros # 0 \/ x \notin (1 - T)..(T - 1)
    BY <1>1, <2>1, Hard
  <2>11. d * Micros = x <=> x % Micros = 0 /\ x \in (1 - T)..(T - 1)
    BY <2>1, <2>2, IntervalSeconds
  <2>12. Denotes(v, c) <=> ~Misread(c, "binary")
    BY <2>9, <2>10, <2>11
  <2>. QED
    BY <1>9, <1>11, <2>6, <2>7, <2>12, Valued
<1>. QED
  BY <1>10, <1>11

(* The day that GetDate computes from what it reads: days that are too     *)
(* large come out negative.                                                *)
LEMMA DayBack ==
    ASSUME NEW x \in Int, Fits(x, IntLimit)
    PROVE  Signed(Unsigned(Unsigned(x, IntLimit) + JULIAN_START, IntLimit), IntLimit)
           = IF x + JULIAN_START < IntLimit THEN x + JULIAN_START
                                            ELSE x + JULIAN_START - 2 * IntLimit
<1>1. PICK I \in Nat \ {0}, M \in Nat \ {0}, J \in Int :
        I = IntLimit /\ M = 2 * I /\ J = JULIAN_START /\ 0 <= J /\ J < I
  <2>1. JULIAN_START \in Int /\ 0 <= JULIAN_START /\ JULIAN_START < IntLimit
    BY DayRanges, Limits, SMT DEF JULIAN_START
  <2>2. 2 * IntLimit \in Nat \ {0}
    BY Limits
  <2>. QED
    BY <2>1, <2>2, Limits
<1>2. -I <= x /\ x < I
  BY <1>1 DEF Fits
<1>3. PICK u \in Int : u = x % M /\ u = IF x >= 0 THEN x ELSE x + M
  BY <1>1, <1>2, SMT
<1>4. PICK w \in Int : w = (u + J) % M
  BY <1>1, <1>3
<1>5. w = IF x + J >= 0 THEN x + J ELSE x + J + M
  <2>1. \A k \in Int, r \in 0..(M - 1) : (k * M + r) % M = r
    BY <1>1, Division
  <2>2. ASSUME NEW r \in 0..(M - 1), u + J = r \/ u + J = M + r
        PROVE  w = r
    <3>1. (0 * M + r) % M = r /\ (1 * M + r) % M = r
      BY <2>1
    <3>2. 0 * M + r = r /\ 1 * M + r = M + r
      BY <1>1, SMT
    <3>. QED
      BY <1>4, <2>2, <3>1, <3>2
  <2>3. PICK r \in Int : r = IF x + J >= 0 THEN x + J ELSE x + J + M
    BY <1>1, <1>2
  <2>4. r \in 0..(M - 1) /\ (u + J = r \/ u + J = M + r)
    BY <1>1, <1>2, <1>3, <2>3, SMT
  <2>. QED
    BY <2>2, <2>3, <2>4
<1>6. (IF w < I THEN w ELSE w - M) = IF x + J < I THEN x + J ELSE x + J - M
  BY <1>1, <1>2, <1>4, <1>5, SMT
<1>. QED
  BY <1>1, <1>3, <1>4, <1>6 DEF Unsigned, Signed

(* A date is read if Python has it, but for one.                           *)
LEMMA BinaryDateReads ==
    ASSUME NEW c, Class(c) = "date", IsColumn(c)
    PROVE  Reads(c, "binary")
<1>1. PICK x \in Int : x = Content(c) /\ Fits(x, IntLimit)
  BY SMT DEF IsColumn, IsInteger
<1>2. PICK J : J = IF x + JULIAN_START < IntLimit THEN x + JULIAN_START
                                                  ELSE x + JULIAN_START - 2 * IntLimit
  OBVIOUS
<1>3. PICK date : date = julianToDate(J)
  OBVIOUS
<1>4. Read(c, "binary") = MakeDate(date)
  <2>1. Read(c, "binary") = GetDate(Unsigned(x, IntLimit))
    BY <1>1, SMT DEF Read, ConvertValue, Send
  <2>. QED
    BY <1>1, <1>2, <1>3, <2>1, DayBack DEF GetDate
<1>5. Unreadable(c, "binary") <=> x \notin FirstDay..LastDay \/ x = DayNumber(<<300, 3, 1>>)
  BY <1>1, Hard
<1>6. ASSUME Unreadable(c, "binary") PROVE ~IsDate(date)
  <2>1. CASE x + JULIAN_START < IntLimit
    <3>1. J = JULIAN_START + x
      BY <1>2, <2>1, DayRanges, SMT
    <3>. QED
      BY <1>3, <1>5, <1>6, <3>1, DatesOfDays
  <2>2. CASE ~(x + JULIAN_START < IntLimit)
    <3>1. J \in Int /\ J < JULIAN_START + FirstDay
      <4>1. IntLimit \in Int /\ JULIAN_START \in Int /\ JULIAN_START < IntLimit
            /\ 0 < JULIAN_START + FirstDay
        <5>1. FirstDay = -730119
          BY SMT DEF FirstDay, DayNumber, DaysBefore, IsLeap
        <5>. QED
          BY <5>1, DayRanges, Limits, SMT DEF JULIAN_START
      <4>. QED
        BY <1>1, <1>2, <2>2, <4>1, DayRanges, SMT DEF Fits
    <3>. QED
      BY <1>3, <3>1, TooEarly DEF FirstDay
  <2>. QED
    BY <2>1, <2>2
<1>7. ASSUME ~Unreadable(c, "binary") PROVE IsDate(date) /\ DayNumber(date) = x
  <2>1. x + JULIAN_START < IntLimit
    BY <1>5, <1>7, DayRanges, Limits, SMT
  <2>2. J = JULIAN_START + x
    BY <1>2, <2>1, DayRanges, SMT
  <2>. QED
    BY <1>3, <1>5, <1>7, <2>2, DatesOfDays
<1>8. CASE Unreadable(c, "binary")
  BY <1>4, <1>6, <1>8 DEF MakeDate, Reads
<1>9. CASE ~Unreadable(c, "binary")
  <2>1. PICK v : v = <<"date", date>> /\ Class(v) = "date" /\ Content(v) = date
    BY Value
  <2>2. Read(c, "binary") = v
    BY <1>4, <1>7, <1>9, <2>1 DEF MakeDate
  <2>3. Denotes(v, c)
    BY <1>1, <1>7, <1>9, <2>1, Meanings
  <2>4. ~Misread(c, "binary")
    BY Hard, SMT
  <2>. QED
    BY <1>9, <2>1, <2>2, <2>3, <2>4, Valued
<1>. QED
  BY <1>8, <1>9

(* Every day has a text, that of its date.                                 *)
LEMMA CivilDate ==
    ASSUME NEW n \in Int
    PROVE  \E y, m, d : Calendar(y, m, d) /\ Civil(n) = <<y, m, d>> /\ DayNumber(<<y, m, d>>) = n
<1>1. PICK about \in Int : about = (400 * n) \div 146097 + 2000
  BY SMT
<1>2. PICK S : S = ((about - 1)..(about + 1)) \X (1..12) \X (1..31)
  OBVIOUS
<1>3. Civil(n) = CHOOSE date \in S : date[3] <= DaysInMonth(date[1], date[2]) /\ DayNumber(date) = n
  BY <1>1, <1>2 DEF Civil
<1>4. \E date \in S : date[3] <= DaysInMonth(date[1], date[2]) /\ DayNumber(date) = n
  <2>1. PICK y, m, d : Calendar(y, m, d) /\ n = DayNumber(<<y, m, d>>)
    BY EveryDay
  <2>2. y \in (about - 1)..(about + 1)
    BY <1>1, <2>1, About
  <2>3. m \in 1..12 /\ d \in 1..31 /\ d <= DaysInMonth(y, m)
    BY <2>1, SMT DEF Calendar, DaysInMonth
  <2>4. <<y, m, d>> \in S
    BY <1>2, <2>2, <2>3
  <2>. QED
    BY <2>1, <2>3, <2>4
<1>5. PICK date \in S : /\ date = Civil(n) /\ date[3] <= DaysInMonth(date[1], date[2])
                        /\ DayNumber(date) = n
  BY <1>3, <1>4, Zenon
<1>6. PICK y \in (about - 1)..(about + 1), m \in 1..12, d \in 1..31 : date = <<y, m, d>>
  BY <1>2
<1>7. Calendar(y, m, d)
  BY <1>1, <1>5, <1>6, SMT DEF Calendar, DaysInMonth
<1>. QED
  BY <1>5, <1>6, <1>7

(* A date in text is read wrong if it is one BC.                           *)
LEMMA TextDateReads ==
    ASSUME NEW c, Class(c) = "date", IsColumn(c)
    PROVE  Reads(c, "text")
<1>1. PICK x \in Int : x = Content(c)
  BY SMT DEF IsColumn, IsInteger
<1>2. PICK y, m, d : Calendar(y, m, d) /\ Civil(x) = <<y, m, d>> /\ DayNumber(<<y, m, d>>) = x
  BY CivilDate
<1>3. y \in Int
  BY <1>2 DEF Calendar
<1>4. PICK z \in Int : z = IF y > 0 THEN y ELSE 1 - y
  BY <1>3
<1>5. PICK date : date = <<z, m, d>>
  OBVIOUS
<1>6. SendText("date", x) = date
  <2>1. <<y, m, d>>[1] = y /\ [<<y, m, d>> EXCEPT ![1] = 1 - @] = <<1 - y, m, d>>
    OBVIOUS
  <2>2. y > 0 => SendText("date", x) = <<y, m, d>>
    BY <1>2, <2>1, SMT DEF SendText
  <2>3. ~(y > 0) => SendText("date", x) = <<1 - y, m, d>>
    BY <1>2, <2>1, SMT DEF SendText
  <2>. QED
    BY <1>4, <1>5, <2>2, <2>3
<1>7. Read(c, "text") = MakeDate(date)
  BY <1>1, <1>6, SMT DEF Read, ConvertText
<1>8. Unreadable(c, "text") <=> ~IsDate(date)
  BY <1>1, <1>6, Hard
<1>9. CASE ~IsDate(date)
  BY <1>7, <1>8, <1>9 DEF MakeDate, Reads
<1>10. CASE IsDate(date)
  <2>1. PICK v : v = <<"date", date>> /\ Class(v) = "date" /\ Content(v) = date
    BY Value
  <2>2. Read(c, "text") = v
    BY <1>7, <1>10, <2>1 DEF MakeDate
  <2>3. Denotes(v, c) <=> DayNumber(date) = x
    BY <1>1, <2>1, Meanings
  <2>4. Misread(c, "text") <=> x < FirstDay
    BY <1>1, Hard
  <2>5. DayNumber(date) \in FirstDay..LastDay
    <3>1. Calendar(z, m, d)
      BY <1>5, <1>10, MaxYear, SMT DEF IsDate, Calendar
    <3>. QED
      BY <1>5, <1>10, <3>1, PythonDays
  <2>6. CASE y > 0
    <3>1. date = <<y, m, d>>
      BY <1>4, <1>5, <2>6
    <3>2. DayNumber(date) = x /\ ~(x < FirstDay)
      BY <1>2, <2>5, <3>1, DayRanges, SMT
    <3>. QED
      BY <1>8, <1>10, <2>1, <2>2, <2>3, <2>4, <3>2, Valued
  <2>7. CASE ~(y > 0)
    <3>1. x < FirstDay
      <4>1. FirstDay <= x => 1 <= y
        <5>1. Calendar(1, 1, 1)
          BY SMT DEF Calendar, DaysInMonth
        <5>. QED
          BY <1>1, <1>2, <5>1, DaysOrdered, SMT DEF FirstDay
      <4>. QED
        BY <1>1, <1>3, <2>7, <4>1, DayRanges, SMT
    <3>2. DayNumber(date) # x
      BY <2>5, <3>1, DayRanges, SMT
    <3>. QED
      BY <1>8, <1>10, <2>1, <2>2, <2>3, <2>4, <3>1, <3>2, Valued
  <2>. QED
    BY <2>6, <2>7
<1>. QED
  BY <1>9, <1>10

---------------------------------------------------------------------------
(* Numerics.                                                               *)

(* A number of so many groups, one more at a time ...                      *)
LEMMA Numbers ==
    ASSUME NEW d, NEW f \in Int, \A i \in Int : Group(d, i) \in Int
    PROVE  /\ Number(d, f, 0) = 0
           /\ \A k \in Nat : /\ Number(d, f, k) \in Int
                             /\ Number(d, f, k + 1) = TenTo[4] * Number(d, f, k) + Group(d, f + k + 1)
<1>. DEFINE Is(h) == h = [k \in Nat |-> IF k = 0 THEN 0 ELSE TenTo[4] * h[k - 1] + Group(d, f + k)]
            g == [k \in Nat |-> Group(d, f + k)]
<1>0. PICK B \in Nat : B = TenTo[4]
  BY Powers
<1>1. g \in [Nat -> Int]
  OBVIOUS
<1>2. PICK t : Recursive(0, B, g, t)
  <2>. HIDE DEF g
  <2>. QED
    BY <1>1, Recursion, 0 \in Int, B \in Int
<1>3. Is(t)
  BY <1>0, <1>2 DEF Recursive
<1>4. PICK h : Is(h) /\ \A k : Number(d, f, k) = h[k]
  <2>1. Is(CHOOSE h : Is(h))
    <3>. HIDE DEF Is
    <3>. QED
      BY <1>3
  <2>2. \A k : Number(d, f, k) = (CHOOSE h : Is(h))[k]
    BY DEF Number
  <2>. HIDE DEF Is
  <2>. QED
    BY <2>1, <2>2
<1>5. h[0] = 0
  BY <1>4
<1>6. ASSUME NEW k \in Nat PROVE h[k + 1] = B * h[k] + Group(d, f + k + 1)
  <2>1. k + 1 \in Nat /\ k + 1 # 0 /\ (k + 1) - 1 = k /\ f + (k + 1) = f + k + 1
    OBVIOUS
  <2>2. h[k + 1] = TenTo[4] * h[(k + 1) - 1] + Group(d, f + (k + 1))
    BY <1>4, <2>1
  <2>. QED
    BY <1>0, <2>1, <2>2
<1>. DEFINE S == {k \in Nat : h[k] \in Int}
<1>7. ASSUME NEW k \in Nat, k \in S PROVE k + 1 \in S
  <2>1. Group(d, f + k + 1) \in Int
    BY f + k + 1 \in Int
  <2>. QED
    BY <1>6, <1>7, <2>1
<1>8. 0 \in S
  BY <1>5
<1>9. \A k \in Nat : k \in S
  <2>. HIDE DEF S
  <2>. QED
    BY <1>7, <1>8, Induct
<1>. QED
  BY <1>0, <1>4, <1>5, <1>6, <1>9

(* ... or so many at once.                                                 *)
LEMMA NumberSum ==
    ASSUME NEW d, NEW a \in Nat, \A i \in Int : Group(d, i) \in Int
    PROVE  \A b \in Nat : Number(d, 0, a + b) = Number(d, 0, a) * TenTo[4 * b] + Number(d, a, b)
<1>. DEFINE S == {b \in Nat : Number(d, 0, a + b) = Number(d, 0, a) * TenTo[4 * b] + Number(d, a, b)}
<1>1. 0 \in S
  <2>1. Number(d, 0, a) \in Int /\ Number(d, a, 0) = 0
    BY Numbers, 0 \in Int, a \in Int
  <2>. QED
    BY <2>1, Powers
<1>2. ASSUME NEW b \in Nat, b \in S PROVE b + 1 \in S
  <2>1. PICK x \in Int, y \in Int, g \in Int, B \in Nat, p \in Nat :
           x = Number(d, 0, a) /\ y = Number(d, a, b) /\ g = Group(d, a + b + 1)
           /\ B = TenTo[4] /\ p = TenTo[4 * b]
    BY Numbers, Powers, 0 \in Int, a \in Int, a + b + 1 \in Int, 4 * b \in Nat
  <2>2. Number(d, 0, a + b) = x * p + y
    BY <1>2, <2>1
  <2>3. a + b \in Nat /\ a + (b + 1) = (a + b) + 1 /\ 0 + (a + b) + 1 = a + b + 1
    OBVIOUS
  <2>4. Number(d, 0, a + (b + 1)) = B * (x * p + y) + g
    <3>1. PICK n \in Nat : n = a + b
      BY <2>3
    <3>2. Number(d, 0, n + 1) = TenTo[4] * Number(d, 0, n) + Group(d, 0 + n + 1)
      <4>1. \A k \in Nat : Number(d, 0, k + 1) = TenTo[4] * Number(d, 0, k) + Group(d, 0 + k + 1)
        <5>1. PICK o \in Int : o = 0
          OBVIOUS
        <5>2. \A k \in Nat : Number(d, o, k + 1) = TenTo[4] * Number(d, o, k) + Group(d, o + k + 1)
          BY Numbers, Zenon
        <5>. QED
          BY <5>1, <5>2, Zenon
      <4>. QED
        BY <4>1, Zenon
    <3>3. 0 + n + 1 = a + b + 1 /\ n + 1 = a + (b + 1)
      BY <3>1
    <3>. QED
      BY <2>1, <2>2, <3>1, <3>2, <3>3
  <2>5. Number(d, a, b + 1) = B * y + g
    <3>1. Number(d, a, b + 1) = TenTo[4] * Number(d, a, b) + Group(d, a + b + 1)
      BY Numbers, a \in Int, Zenon
    <3>. QED
      BY <2>1, <3>1
  <2>6. TenTo[4 * (b + 1)] = p * B
    <3>1. 4 * (b + 1) = 4 * b + 4 /\ 4 * b \in Nat
      OBVIOUS
    <3>. QED
      BY <2>1, <3>1, PowerSum
  <2>7. B * (x * p + y) + g = x * (p * B) + (B * y + g)
    <3>1. B * (x * p + y) = B * (x * p) + B * y
      BY SMT
    <3>2. B * (x * p) = x * (p * B)
      BY SMT
    <3>. QED
      BY <3>1, <3>2, B * (x * p) \in Int, B * y \in Int
  <2>. QED
    BY <2>1, <2>4, <2>5, <2>6, <2>7
<1>3. \A b \in Nat : b \in S
  <2>. HIDE DEF S
  <2>. QED
    BY <1>1, <1>2, Induct
<1>. QED
  BY <1>3

(* A division by two numbers in turn.                                      *)
LEMMA Nested ==
    ASSUME NEW m \in Nat, NEW q \in Nat \ {0}, NEW b \in Nat \ {0}
    PROVE  /\ (m \div q) \div b = m \div (q * b)
           /\ m \div q \in Nat
           /\ m \div q = b * (m \div (q * b)) + ((m \div q) % b)
           /\ (m \div q) % b \in 0..(b - 1)
<1>1. PICK u \in Int, r \in 0..(q - 1) : u = m \div q /\ m = u * q + r
  BY Divided, m \in Int
<1>2. u >= 0
  BY <1>1, SMT
<1>3. PICK v \in Int, s \in 0..(b - 1) : v = u \div b /\ s = u % b /\ u = v * b + s
  BY Divided
<1>4. s * q + r \in 0..(b * q - 1)
  BY Digit
<1>5. q * b \in Nat \ {0} /\ b * q = q * b
  BY SMT
<1>6. m = v * (q * b) + (s * q + r)
  <2>1. (v * b + s) * q = (v * b) * q + s * q /\ (v * b) * q = v * (q * b)
    BY SMT
  <2>2. PICK x \in Int, y \in Int : x = v * (q * b) /\ y = s * q
    BY SMT
  <2>3. u * q = x + y
    BY <1>3, <2>1, <2>2
  <2>. QED
    BY <1>1, <2>2, <2>3
<1>7. m \div (q * b) = v
  <2>1. PICK w \in Nat \ {0} : w = q * b
    BY <1>5
  <2>2. PICK x \in 0..(w - 1) : x = s * q + r
    BY <1>4, <1>5, <2>1
  <2>3. m = v * w + x
    BY <1>6, <2>1, <2>2
  <2>4. (v * w + x) \div w = v
    BY Division
  <2>. QED
    BY <2>1, <2>3, <2>4
<1>8. u = b * v + s
  BY <1>3
<1>9. (m \div q) \div b = m \div (q * b)
  BY <1>1, <1>3, <1>7
<1>10. m \div q = b * (m \div (q * b)) + ((m \div q) % b)
  BY <1>1, <1>3, <1>7, <1>8
<1>11. (m \div q) % b \in 0..(b - 1) /\ m \div q \in Nat
  <2>1. m \div q = u /\ u % b = s /\ u \in Nat
    BY <1>1, <1>2, <1>3
  <2>2. (m \div q) % b = s
    BY <2>1, Zenon
  <2>. QED
    BY <2>1, <2>2, Zenon
<1>. QED
  BY <1>9, <1>10, <1>11, Zenon

---------------------------------------------------------------------------
(* The groups of four digits of a number: what is left of it before the    *)
(* last ones, the group at a place, the places that are not zero, and what *)
(* is sent of them.                                                        *)
Before(m, i) == m \div TenTo[4 * (MaxGroups - i)]
Groups(m) == [i \in 1..MaxGroups |-> Before(m, i) % TenTo[4]]
Used(m) == {i \in 1..MaxGroups : Groups(m)[i] # 0}
Cut(m) == IF Used(m) = {} THEN <<>> ELSE SubSeq(Groups(m), Min(Used(m)), Max(Used(m)))

(* A number that has no more groups than there may be.                     *)
IsSmall(m) == m \in Nat /\ m \div TenTo[4 * (MaxGroups - 1)] < TenTo[4]

LEMMA GroupsType == MaxGroups \in Nat \ {0} /\ TenTo[4] \in Nat /\ TenTo[4] > 1
<1>1. 10 * TenTo[0] <= TenTo[4]
  BY PowerOrder, 0 \in Nat, 4 \in Nat
<1>. QED
  BY <1>1, Powers, GroupsAssumption

(* Each place adds its group to what is before it.                         *)
LEMMA Places ==
    ASSUME NEW m, IsSmall(m)
    PROVE  /\ Before(m, 0) = 0 /\ Before(m, MaxGroups) = m
           /\ \A i \in 1..MaxGroups :
                 /\ Before(m, i) \in Nat /\ Groups(m)[i] \in 0..(TenTo[4] - 1)
                 /\ Before(m, i) = TenTo[4] * Before(m, i - 1) + Groups(m)[i]
<1>1. PICK B \in Nat \ {0}, G \in Nat \ {0} : B = TenTo[4] /\ G = MaxGroups
  BY GroupsType
<1>2. ASSUME NEW i \in 1..G
      PROVE  /\ Before(m, i) \in Nat /\ Groups(m)[i] \in 0..(B - 1)
             /\ Before(m, i) \div B = Before(m, i - 1)
             /\ Before(m, i) = B * Before(m, i - 1) + Groups(m)[i]
  <2>1. 4 * (G - i) \in Nat /\ 4 * (G - (i - 1)) = 4 * (G - i) + 4
    BY <1>2
  <2>2. PICK q \in Nat \ {0} : q = TenTo[4 * (G - i)]
    BY <2>1, Powers
  <2>3. TenTo[4 * (G - (i - 1))] = q * B
    BY <1>1, <2>1, <2>2, PowerSum
  <2>4. Before(m, i) = m \div q /\ Before(m, i - 1) = m \div (q * B)
    BY <1>1, <2>2, <2>3 DEF Before
  <2>5. Groups(m)[i] = Before(m, i) % B
    BY <1>1 DEF Groups
  <2>6. /\ (m \div q) \div B = m \div (q * B)
        /\ m \div q \in Nat
        /\ m \div q = B * (m \div (q * B)) + ((m \div q) % B)
        /\ (m \div q) % B \in 0..(B - 1)
    BY Nested DEF IsSmall
  <2>. QED
    BY <2>4, <2>5, <2>6, Zenon
<1>3. Before(m, G) = m
  <2>1. Before(m, G) = m \div 1
    BY <1>1, Powers DEF Before
  <2>. QED
    BY <2>1 DEF IsSmall
<1>4. Before(m, 0) = 0
  <2>1. 1 \in 1..G /\ 1 - 1 = 0
    OBVIOUS
  <2>2. Before(m, 1) < B
    BY <1>1 DEF Before, IsSmall
  <2>3. PICK u \in Nat : u = Before(m, 1)
    BY <1>2, <2>1
  <2>4. u \div B = 0
    BY <2>2, <2>3
  <2>5. Before(m, 1) \div B = Before(m, 1 - 1)
    BY <1>2, <2>1
  <2>. QED
    BY <2>1, <2>3, <2>4, <2>5
<1>. QED
  BY <1>1, <1>2, <1>3, <1>4

(* Nothing is before the first place that is not zero.                     *)
LEMMA Leading ==
    ASSUME NEW m, IsSmall(m), NEW a \in Int, \A i \in 1..MaxGroups : i < a => Groups(m)[i] = 0
    PROVE  \A i \in Nat : i < a /\ i <= MaxGroups => Before(m, i) = 0
<1>. DEFINE S == {i \in Nat : i < a /\ i <= MaxGroups => Before(m, i) = 0}
<1>1. 0 \in S
  BY Places
<1>2. ASSUME NEW i \in Nat, i \in S PROVE i + 1 \in S
  <2>. SUFFICES ASSUME i + 1 < a, i + 1 <= MaxGroups PROVE Before(m, i + 1) = 0
    OBVIOUS
  <2>1. i + 1 \in 1..MaxGroups /\ (i + 1) - 1 = i
    BY GroupsType
  <2>2. Before(m, i) = 0
    BY <1>2, <2>1, GroupsType
  <2>3. Groups(m)[i + 1] = 0
    BY <2>1
  <2>4. Before(m, i + 1) = TenTo[4] * Before(m, i) + Groups(m)[i + 1]
    BY <2>1, Places
  <2>. QED
    BY <2>2, <2>3, <2>4, GroupsType
<1>3. \A i \in Nat : i \in S
  <2>. HIDE DEF S
  <2>. QED
    BY <1>1, <1>2, Induct
<1>. QED
  BY <1>3

(* The groups of a number from some place on, before which there is none.  *)
Digits(m, d, a) ==
    /\ \A i \in 1..MaxGroups : i < a => Groups(m)[i] = 0
    /\ \A k \in Int : Group(d, k) =
          IF k >= 1 /\ a - 1 + k <= MaxGroups THEN Groups(m)[a - 1 + k] ELSE 0

(* Those are sent from the first that is not zero on.                      *)
LEMMA Sent ==
    ASSUME NEW m, IsSmall(m)
    PROVE  \/ Used(m) = {} /\ Cut(m) = <<>> /\ m = 0
           \/ \E a \in 1..MaxGroups :
                 /\ Min(Used(m)) = a /\ Used(m) # {}
                 /\ Groups(m)[a] # 0 /\ Digits(m, Cut(m), a)
<1>1. PICK G \in Nat \ {0} : G = MaxGroups
  BY GroupsType
<1>2. CASE Used(m) = {}
  <2>1. \A i \in 1..MaxGroups : Groups(m)[i] = 0
    BY <1>2 DEF Used
  <2>2. Before(m, G) = 0
    BY <1>1, <2>1, Leading, G + 1 \in Int
  <2>. QED
    BY <1>1, <1>2, <2>2, Places DEF Cut
<1>3. CASE Used(m) # {}
  <2>1. Used(m) \subseteq 1..G
    BY <1>1 DEF Used
  <2>2. PICK a \in Used(m) : \A i \in Used(m) : a <= i
    <3>1. Used(m) \in SUBSET Nat
      BY <2>1
    <3>. QED
      BY <1>3, <3>1, Least
  <2>3. PICK c \in Used(m) : \A i \in Used(m) : i <= c
    <3>. DEFINE R == {j \in Nat : \E i \in Used(m) : j = G - i}
    <3>1. R \in SUBSET Nat /\ R # {}
      BY <1>3, <2>1
    <3>2. PICK j \in R : \A k \in R : j <= k
      <4>. HIDE DEF R
      <4>. QED
        BY <3>1, Least
    <3>3. PICK c \in Used(m) : j = G - c
      BY <3>2
    <3>4. ASSUME NEW i \in Used(m) PROVE i <= c
      <4>1. G - i \in R
        BY <2>1
      <4>2. j <= G - i
        BY <3>2, <4>1
      <4>. QED
        BY <2>1, <3>3, <4>2
    <3>. QED
      BY <3>4
  <2>4. Min(Used(m)) = a /\ Max(Used(m)) = c
    <3>1. \A i \in Used(m) : i \in Int
      BY <2>1
    <3>. QED
      BY <2>2, <2>3, <3>1, MinIs, MaxIs
  <2>5. a \in 1..G /\ c \in 1..G /\ a <= c
    BY <2>1, <2>2
  <2>6. /\ Groups(m)[a] # 0
        /\ \A i \in 1..G : i < a \/ i > c => Groups(m)[i] = 0
    <3>1. Groups(m)[a] # 0
      BY <2>2 DEF Used
    <3>2. ASSUME NEW i \in 1..G, i < a \/ i > c PROVE Groups(m)[i] = 0
      <4>1. i \notin Used(m)
        BY <2>2, <2>3, <2>5, <3>2
      <4>. QED
        BY <1>1, <4>1 DEF Used
    <3>. QED
      BY <3>1, <3>2
  <2>7. PICK all \in Seq(Int) : all = Groups(m) /\ Len(all) = G
    <3>1. \A i \in 1..G : Groups(m)[i] \in Int
      BY <1>1, Places, GroupsType
    <3>2. Groups(m) = [i \in 1..G |-> Groups(m)[i]]
      BY <1>1 DEF Groups
    <3>3. Groups(m) \in [1..G -> Int]
      BY <3>1, <3>2, Zenon
    <3>. QED
      BY <3>3
  <2>8. PICK cut : cut = SubSeq(all, a, c)
    OBVIOUS
  <2>9. Cut(m) = cut
    BY <1>3, <2>4, <2>7, <2>8 DEF Cut
  <2>10. DOMAIN cut = 1..(c - a + 1) /\ \A k \in 1..(c - a + 1) : cut[k] = all[a - 1 + k]
    BY <2>5, <2>7, <2>8, SMT
  <2>11. ASSUME NEW k \in Int
         PROVE  Group(cut, k) = IF k >= 1 /\ a - 1 + k <= G THEN all[a - 1 + k] ELSE 0
    <3>1. CASE k \in 1..(c - a + 1)
      <4>1. k >= 1 /\ a - 1 + k <= G
        BY <2>5, <3>1
      <4>. QED
        BY <2>10, <3>1, <4>1 DEF Group
    <3>2. CASE k \notin 1..(c - a + 1)
      <4>1. Group(cut, k) = 0
        BY <2>10, <3>2 DEF Group
      <4>2. ASSUME k >= 1, a - 1 + k <= G PROVE all[a - 1 + k] = 0
        <5>1. a - 1 + k \in 1..G /\ a - 1 + k > c
          BY <2>5, <3>2, <4>2
        <5>. QED
          BY <2>6, <2>7, <5>1
      <4>. QED
        BY <4>1, <4>2
    <3>. QED
      BY <3>1, <3>2
  <2>12. \A k \in Int : Group(Cut(m), k) =
            IF k >= 1 /\ a - 1 + k <= G THEN Groups(m)[a - 1 + k] ELSE 0
    BY <2>7, <2>9, <2>11, Zenon
  <2>13. Digits(m, Cut(m), a)
    BY <1>1, <2>6, <2>12 DEF Digits
  <2>. QED
    BY <1>1, <1>3, <2>4, <2>5, <2>6, <2>13
<1>. QED
  BY <1>2, <1>3

(* The groups of a number, read one by one, are what is before each place, *)
(* and then the number with zeros.                                         *)
LEMMA Reading ==
    ASSUME NEW m, IsSmall(m), NEW d, NEW a \in 1..MaxGroups, Digits(m, d, a)
    PROVE  /\ \A k \in Int : Group(d, k) \in Int
           /\ \A k \in Nat : a - 1 + k <= MaxGroups => Number(d, 0, k) = Before(m, a - 1 + k)
           /\ \A j \in Nat : Number(d, 0, MaxGroups - a + 1 + j) = m * TenTo[4 * j]
<1>0. /\ \A i \in 1..MaxGroups : i < a => Groups(m)[i] = 0
      /\ \A k \in Int : Group(d, k) =
            IF k >= 1 /\ a - 1 + k <= MaxGroups THEN Groups(m)[a - 1 + k] ELSE 0
  BY DEF Digits
<1>1. PICK G \in Nat \ {0} : G = MaxGroups
  BY GroupsType
<1>2. ASSUME NEW k \in Int PROVE Group(d, k) \in Int
  <2>1. CASE k >= 1 /\ a - 1 + k <= G
    <3>1. a - 1 + k \in 1..G
      BY <1>1, <2>1
    <3>. QED
      <4>1. Group(d, k) = Groups(m)[a - 1 + k]
        BY <1>0, <1>1, <2>1
      <4>2. Groups(m)[a - 1 + k] \in Int
        BY <1>1, <3>1, Places, GroupsType
      <4>. QED
        BY <4>1, <4>2
  <2>. QED
    BY <1>0, <1>1, <2>1
<1>3. /\ Number(d, 0, 0) = 0
      /\ \A k \in Nat : /\ Number(d, 0, k) \in Int
                        /\ Number(d, 0, k + 1) = TenTo[4] * Number(d, 0, k) + Group(d, 0 + k + 1)
  BY <1>2, Numbers, 0 \in Int
<1>. DEFINE S == {k \in Nat : a - 1 + k <= MaxGroups => Number(d, 0, k) = Before(m, a - 1 + k)}
<1>4. 0 \in S
  <2>1. a - 1 \in Nat /\ a - 1 < a /\ a - 1 <= MaxGroups /\ a - 1 + 0 = a - 1
    BY <1>1
  <2>2. Before(m, a - 1) = 0
    BY <1>0, <2>1, Leading, a \in Int
  <2>. QED
    BY <1>3, <2>1, <2>2
<1>5. ASSUME NEW k \in Nat, k \in S PROVE k + 1 \in S
  <2>. SUFFICES ASSUME a - 1 + (k + 1) <= MaxGroups
                PROVE  Number(d, 0, k + 1) = Before(m, a - 1 + (k + 1))
    OBVIOUS
  <2>1. PICK i \in 1..MaxGroups : i = a - 1 + (k + 1) /\ i - 1 = a - 1 + k
    BY <1>1
  <2>2. Number(d, 0, k) = Before(m, i - 1)
    BY <1>1, <1>5, <2>1
  <2>3. Group(d, 0 + k + 1) = Groups(m)[i]
    <3>1. PICK n \in Int : n = k + 1 /\ n >= 1 /\ a - 1 + n <= MaxGroups /\ a - 1 + n = i /\ 0 + k + 1 = n
      BY <1>1, <2>1
    <3>. QED
      BY <1>0, <3>1
  <2>4. Before(m, i) = TenTo[4] * Before(m, i - 1) + Groups(m)[i]
    BY Places
  <2>. QED
    BY <1>3, <2>1, <2>2, <2>3, <2>4
<1>6. \A k \in Nat : k \in S
  <2>. HIDE DEF S
  <2>. QED
    BY <1>4, <1>5, Induct
<1>. DEFINE T == {j \in Nat : Number(d, 0, MaxGroups - a + 1 + j) = m * TenTo[4 * j]}
<1>7. 0 \in T
  <2>1. PICK k \in Nat : k = MaxGroups - a + 1 + 0 /\ a - 1 + k = MaxGroups
    BY <1>1
  <2>2. Number(d, 0, k) = Before(m, a - 1 + k)
    <3>1. k \in S /\ a - 1 + k <= MaxGroups
      BY <1>1, <1>6, <2>1
    <3>. QED
      BY <3>1
  <2>3. m * TenTo[4 * 0] = m
    BY Powers DEF IsSmall
  <2>. QED
    BY <2>1, <2>2, <2>3, Places
<1>8. ASSUME NEW j \in Nat, j \in T PROVE j + 1 \in T
  <2>1. PICK k \in Nat : k = MaxGroups - a + 1 + j /\ k + 1 = MaxGroups - a + 1 + (j + 1)
    BY <1>1
  <2>2. PICK B \in Nat, p \in Nat, n \in Nat : B = TenTo[4] /\ p = TenTo[4 * j] /\ n = m
    BY Powers, 4 * j \in Nat DEF IsSmall
  <2>3. Number(d, 0, k) = n * p
    BY <1>8, <2>1, <2>2
  <2>4. Group(d, 0 + k + 1) = 0
    <3>1. PICK x \in Int : x = 0 + k + 1 /\ ~(a - 1 + x <= MaxGroups)
      BY <1>1, <2>1
    <3>. QED
      BY <1>0, <3>1
  <2>5. Number(d, 0, k + 1) = B * (n * p)
    BY <1>3, <2>2, <2>3, <2>4, n * p \in Int, B * (n * p) \in Int
  <2>6. TenTo[4 * (j + 1)] = p * B
    <3>1. 4 * (j + 1) = 4 * j + 4 /\ 4 * j \in Nat
      OBVIOUS
    <3>. QED
      BY <2>2, <3>1, PowerSum
  <2>7. B * (n * p) = n * (p * B)
    BY SMT
  <2>. QED
    BY <2>1, <2>2, <2>5, <2>6, <2>7
<1>9. \A j \in Nat : j \in T
  <2>. HIDE DEF T
  <2>. QED
    BY <1>7, <1>8, Induct
<1>. QED
  BY <1>2, <1>6, <1>9

(* So the digits that are sent are those of the number.                    *)
LEMMA SentDigits ==
    ASSUME NEW m, IsSmall(m)
    PROVE  /\ \A k \in Int : Group(Cut(m), k) \in Int
           /\ \/ Used(m) = {} /\ m = 0 /\ \A k \in Nat : Number(Cut(m), 0, k) = 0
              \/ \E e \in Nat :
                    /\ Used(m) # {} /\ Min(Used(m)) = MaxGroups - e
                    /\ TenTo[4 * e] <= m /\ m < TenTo[4 * (e + 1)]
                    /\ \A f \in 0..(e + 1) : Number(Cut(m), 0, e + 1 - f) = m \div TenTo[4 * f]
                    /\ \A j \in Nat : Number(Cut(m), 0, e + 1 + j) = m * TenTo[4 * j]
<1>1. PICK G \in Nat \ {0} : G = MaxGroups
  BY GroupsType
<1>2. CASE Used(m) = {} /\ Cut(m) = <<>> /\ m = 0
  <2>1. \A k \in Int : Group(Cut(m), k) = 0
    BY <1>2 DEF Group
  <2>. DEFINE S == {k \in Nat : Number(Cut(m), 0, k) = 0}
  <2>2. 0 \in S /\ \A k \in Nat : k \in S => k + 1 \in S
    <3>1. /\ Number(Cut(m), 0, 0) = 0
          /\ \A k \in Nat : Number(Cut(m), 0, k + 1)
                             = TenTo[4] * Number(Cut(m), 0, k) + Group(Cut(m), 0 + k + 1)
      BY <2>1, Numbers, 0 \in Int
    <3>. QED
      BY <2>1, <3>1, GroupsType
  <2>3. \A k \in Nat : k \in S
    <3>. HIDE DEF S
    <3>. QED
      BY <2>2, Induct
  <2>. QED
    BY <1>2, <2>1, <2>3
<1>3. ASSUME NEW a \in 1..MaxGroups, Min(Used(m)) = a, Used(m) # {}, Groups(m)[a] # 0, Digits(m, Cut(m), a)
      PROVE  /\ \A k \in Int : Group(Cut(m), k) \in Int
             /\ \E e \in Nat :
                   /\ Used(m) # {} /\ Min(Used(m)) = MaxGroups - e
                   /\ TenTo[4 * e] <= m /\ m < TenTo[4 * (e + 1)]
                   /\ \A f \in 0..(e + 1) : Number(Cut(m), 0, e + 1 - f) = m \div TenTo[4 * f]
                   /\ \A j \in Nat : Number(Cut(m), 0, e + 1 + j) = m * TenTo[4 * j]
  <2>1. PICK e \in Nat : e = G - a /\ a = G - e /\ a - 1 = G - (e + 1)
    BY <1>1
  <2>2. PICK p \in Nat \ {0}, q \in Nat \ {0} : p = TenTo[4 * e] /\ q = TenTo[4 * (e + 1)]
    BY Powers, 4 * e \in Nat, 4 * (e + 1) \in Nat
  <2>3. Before(m, a) = m \div p /\ Before(m, a - 1) = m \div q
    BY <1>1, <2>1, <2>2 DEF Before
  <2>4. Before(m, a - 1) = 0
    <3>1. \A i \in 1..MaxGroups : i < a => Groups(m)[i] = 0
      BY <1>3 DEF Digits
    <3>. QED
      BY <1>1, <3>1, Leading, a \in Int, a - 1 \in Nat
  <2>5. m \div p # 0
    BY <1>3, <2>3, <2>4, Places, GroupsType
  <2>6. p <= m
    <3>1. m < p => m \div p = 0
      BY SMT DEF IsSmall
    <3>. QED
      BY <2>5, <3>1 DEF IsSmall
  <2>7. m < q
    <3>1. PICK n \in Nat : n = m
      BY DEF IsSmall
    <3>2. n = (n \div q) * q + (n % q) /\ n % q \in 0..(q - 1)
      BY Divided, n \in Int
    <3>. QED
      BY <2>3, <2>4, <3>1, <3>2
  <2>8. /\ \A k \in Int : Group(Cut(m), k) \in Int
        /\ \A k \in Nat : a - 1 + k <= MaxGroups => Number(Cut(m), 0, k) = Before(m, a - 1 + k)
        /\ \A j \in Nat : Number(Cut(m), 0, MaxGroups - a + 1 + j) = m * TenTo[4 * j]
    BY <1>3, Reading
  <2>9. ASSUME NEW f \in 0..(e + 1) PROVE Number(Cut(m), 0, e + 1 - f) = m \div TenTo[4 * f]
    <3>1. PICK k \in Nat : k = e + 1 - f /\ a - 1 + k <= MaxGroups /\ MaxGroups - (a - 1 + k) = f
      BY <1>1, <2>1
    <3>2. Before(m, a - 1 + k) = m \div TenTo[4 * f]
      BY <3>1 DEF Before
    <3>. QED
      BY <2>8, <3>1, <3>2
  <2>10. ASSUME NEW j \in Nat PROVE Number(Cut(m), 0, e + 1 + j) = m * TenTo[4 * j]
    <3>1. MaxGroups - a + 1 + j = e + 1 + j
      BY <1>1, <2>1
    <3>. QED
      BY <2>8, <3>1
  <2>11. Min(Used(m)) = MaxGroups - e
    BY <1>1, <1>3, <2>1
  <2>. QED
    BY <1>3, <2>2, <2>6, <2>7, <2>8, <2>9, <2>10, <2>11
<1>. QED
  BY <1>2, <1>3, Sent

(* A number below a power of ten, after the decimal point as well.         *)
Tiny(coefficient, s) == coefficient > 0 /\ s > 4 /\ coefficient < TenTo[s - 4]

(* Multiplying two numbers by a third changes neither their order nor      *)
(* their quotient.                                                         *)
LEMMA Scaled ==
    ASSUME NEW a \in Nat, NEW b \in Nat \ {0}, NEW z \in Nat \ {0}
    PROVE  /\ a * z < b * z <=> a < b
           /\ (a * z) \div (b * z) = a \div b
           /\ a * z - (a \div b) * (b * z) = (a % b) * z
           /\ (a * z) \div z = a
<1>1. PICK u \in Int, r \in 0..(b - 1) : u = a \div b /\ r = a % b /\ a = u * b + r
  BY Divided, a \in Int
<1>2. PICK w \in Nat \ {0} : w = b * z
  BY SMT
<1>3. PICK t \in 0..(w - 1) : t = r * z
  <2>1. r * z + 0 \in 0..(b * z - 1)
    BY Digit, 0 \in 0..(z - 1)
  <2>2. r * z + 0 = r * z
    BY SMT
  <2>. QED
    BY <1>2, <2>1, <2>2
<1>4. a * z = u * w + t
  <2>1. (u * b + r) * z = (u * b) * z + r * z /\ (u * b) * z = u * (b * z)
    BY SMT
  <2>. QED
    BY <1>1, <1>2, <1>3, <2>1
<1>5. (u * w + t) \div w = u
  BY Division
<1>6. (a * z + 0) \div z = a /\ a * z + 0 = a * z
  BY Division, a \in Int, 0 \in 0..(z - 1), a * z \in Int
<1>7. a * z < b * z <=> a < b
  <2>1. CASE a < b
    <3>1. PICK k \in Nat : b = a + 1 + k
      BY <2>1, b - a - 1 \in Nat
    <3>2. (a + 1 + k) * z = a * z + z + k * z /\ k * z >= 0 /\ k * z \in Int /\ a * z \in Int
      BY SMT
    <3>. QED
      BY <2>1, <3>1, <3>2
  <2>2. CASE a >= b
    <3>1. PICK k \in Nat : a = b + k
      BY <2>2, a - b \in Nat
    <3>2. (b + k) * z = b * z + k * z /\ k * z >= 0 /\ k * z \in Int /\ b * z \in Int
      BY SMT
    <3>. QED
      BY <2>2, <3>1, <3>2
  <2>. QED
    BY <2>1, <2>2
<1>8. (a * z) \div (b * z) = a \div b
  BY <1>1, <1>2, <1>4, <1>5, Zenon
<1>9. a * z - (a \div b) * (b * z) = (a % b) * z
  <2>1. (u * w + t) - u * w = t
    BY u * w \in Int
  <2>. QED
    BY <1>1, <1>2, <1>3, <1>4, <2>1, Zenon
<1>. QED
  BY <1>6, <1>7, <1>8, <1>9, Zenon

(* The same by names for the products.                                     *)
LEMMA Less ==
    ASSUME NEW a \in Nat, NEW b \in Nat \ {0}, NEW z \in Nat \ {0},
           NEW m, m = a * z, NEW n, n = b * z
    PROVE  m < n <=> a < b
BY Scaled

(* A quotient q and a rest y, times z, of a by b.                          *)
Splits(a, b, z, q, y) ==
    /\ a \in Nat /\ b \in Nat \ {0} /\ z \in Nat \ {0} /\ q \in Int
    /\ y \in 0..(b * z - 1) /\ a * z = q * (b * z) + y

LEMMA WholeAndRest ==
    \A a, b, z, q, y : Splits(a, b, z, q, y) => q = a \div b /\ q * b + (y \div z) = a
<1>. SUFFICES ASSUME NEW a, NEW b, NEW z, NEW q, NEW y, Splits(a, b, z, q, y)
              PROVE  q = a \div b /\ q * b + (y \div z) = a
  OBVIOUS
<1>. a \in Nat /\ b \in Nat \ {0} /\ z \in Nat \ {0} /\ q \in Int
     /\ y \in 0..(b * z - 1) /\ a * z = q * (b * z) + y
  BY Zenon DEF Splits
<1>1. PICK n \in Nat \ {0}, p \in Int : n = b * z /\ p = q * n
  BY b * z \in Nat \ {0}, q * (b * z) \in Int
<1>2. (a * z) \div n = q
  <2>1. (q * n + y) \div n = q
    BY <1>1, Division
  <2>. QED
    BY <1>1, <2>1
<1>3. (a * z) \div (b * z) = a \div b
  BY Scaled
<1>4. q = a \div b
  BY <1>1, <1>2, <1>3, Zenon
<1>5. a * z - (a \div b) * (b * z) = (a % b) * z
  BY Scaled
<1>6. a * z - p = (a % b) * z
  BY <1>1, <1>4, <1>5, Zenon
<1>7. PICK r \in Nat : r = a % b /\ a = q * b + r
  <2>1. a % b \in 0..(b - 1) /\ a = (a \div b) * b + (a % b)
    BY Divided, a \in Int
  <2>2. a % b \in Nat
    BY <2>1
  <2>. QED
    BY <1>4, <2>1, <2>2, Zenon
<1>8. y = r * z
  BY <1>1, <1>6, <1>7
<1>9. (r * z) \div z = r
  BY Scaled
<1>. QED
  BY <1>4, <1>7, <1>8, <1>9, Zenon

(* What GetNumeric makes of the digits that are sent.                      *)
Fetch(co, s, f, z, weight, before, whole, fraction) ==
    /\ co \in Nat /\ s \in Nat /\ f \in Nat /\ f = (s + 3) \div 4
    /\ z \in Nat \ {0} /\ z = TenTo[4 * f - s] /\ IsSmall(co * z)
    /\ weight = IF Used(co * z) = {} THEN 0 ELSE MaxGroups - Min(Used(co * z)) - f
    /\ before = IF weight >= 0 THEN weight + 1 ELSE 0
    /\ whole = Number(Cut(co * z), 0, before)
    /\ fraction = Number(Cut(co * z), before, f) \div z

LEMMA Fetched ==
    ASSUME NEW co, NEW s, NEW f, NEW z, NEW weight, NEW before, NEW whole, NEW fraction,
           Fetch(co, s, f, z, weight, before, whole, fraction)
    PROVE  /\ whole * TenTo[s] + fraction \in Int
           /\ s = 0 => whole = co
           /\ whole * TenTo[s] + fraction = co <=> ~Tiny(co, s)
<1>. /\ co \in Nat /\ s \in Nat /\ f \in Nat /\ f = (s + 3) \div 4
     /\ z \in Nat \ {0} /\ z = TenTo[4 * f - s] /\ IsSmall(co * z)
     /\ weight = IF Used(co * z) = {} THEN 0 ELSE MaxGroups - Min(Used(co * z)) - f
     /\ before = IF weight >= 0 THEN weight + 1 ELSE 0
     /\ whole = Number(Cut(co * z), 0, before)
     /\ fraction = Number(Cut(co * z), before, f) \div z
  BY Zenon DEF Fetch
<1>1. PICK m \in Nat : m = co * z
  BY SMT
<1>2. 4 * f - s \in 0..3 /\ (s > 4 => f >= 2) /\ (f >= 2 => s > 4)
  BY SMT
<1>3. PICK T \in Nat \ {0} : T = TenTo[s]
  BY Powers
<1>4. TenTo[4 * f] = T * z
  <2>1. s \in Nat /\ 4 * f \in Nat /\ s <= 4 * f
    BY <1>2
  <2>. QED
    BY <1>3, <2>1, PowerOrder
<1>5. ASSUME s > 4
      PROVE  f - 1 \in Nat /\ 4 * (f - 1) \in Nat /\ TenTo[4 * (f - 1)] = TenTo[s - 4] * z
  <2>1. s - 4 \in Nat /\ 4 * (f - 1) \in Nat /\ s - 4 <= 4 * (f - 1) /\ f - 1 \in Nat
        /\ 4 * (f - 1) - (s - 4) = 4 * f - s
    BY <1>2, <1>5
  <2>2. TenTo[4 * (f - 1)] = TenTo[s - 4] * TenTo[4 * (f - 1) - (s - 4)]
    BY <2>1, PowerOrder
  <2>. QED
    BY <2>1, <2>2
<1>6. /\ \A k \in Int : Group(Cut(m), k) \in Int
      /\ \/ Used(m) = {} /\ m = 0 /\ \A k \in Nat : Number(Cut(m), 0, k) = 0
         \/ \E e \in Nat :
               /\ Used(m) # {} /\ Min(Used(m)) = MaxGroups - e
               /\ TenTo[4 * e] <= m /\ m < TenTo[4 * (e + 1)]
               /\ \A g \in 0..(e + 1) : Number(Cut(m), 0, e + 1 - g) = m \div TenTo[4 * g]
               /\ \A j \in Nat : Number(Cut(m), 0, e + 1 + j) = m * TenTo[4 * j]
  BY <1>1, SentDigits
<1>7. CASE Used(m) = {} /\ m = 0 /\ \A k \in Nat : Number(Cut(m), 0, k) = 0
  <2>1. co = 0
    BY <1>1, <1>7, SMT
  <2>2. before = 1
    BY <1>1, <1>7
  <2>3. Number(Cut(m), 0, 1 + f) = Number(Cut(m), 0, 1) * TenTo[4 * f] + Number(Cut(m), 1, f)
    <3>1. \A g \in Nat :
             Number(Cut(m), 0, 1 + g) = Number(Cut(m), 0, 1) * TenTo[4 * g] + Number(Cut(m), 1, g)
      BY <1>6, NumberSum, 1 \in Nat
    <3>. QED
      BY <3>1, f \in Nat, Zenon
  <2>4. Number(Cut(m), 1, f) \in Int
    BY <1>6, Numbers, 1 \in Int
  <2>5. PICK p \in Nat : p = TenTo[4 * f]
    BY Powers, 4 * f \in Nat
  <2>6. Number(Cut(m), 1, f) = 0
    <3>1. Number(Cut(m), 0, 1 + f) = 0 /\ Number(Cut(m), 0, 1) = 0
      BY <1>7, 1 + f \in Nat, 1 \in Nat, Zenon
    <3>. QED
      BY <2>3, <2>4, <2>5, <3>1
  <2>7. fraction = 0 /\ whole = 0
    <3>1. fraction = Number(Cut(m), 1, f) \div z /\ whole = Number(Cut(m), 0, 1)
      BY <1>1, <2>2, Zenon
    <3>2. 0 \div z = 0
      BY z \in Nat \ {0}, SMT
    <3>3. Number(Cut(m), 0, 1) = 0
      BY <1>7, 1 \in Nat, Zenon
    <3>. QED
      BY <2>6, <3>1, <3>2, <3>3, Zenon
  <2>8. whole * T + fraction = 0 /\ whole * T + fraction \in Int
    BY <2>7
  <2>. QED
    <3>1. whole * TenTo[s] + fraction = co /\ whole * TenTo[s] + fraction \in Int
      BY <1>3, <2>1, <2>8, Zenon
    <3>2. ~Tiny(co, s)
      BY <2>1 DEF Tiny
    <3>. QED
      BY <2>1, <2>7, <3>1, <3>2, Zenon
<1>8. ASSUME NEW e \in Nat, Used(m) # {}, Min(Used(m)) = MaxGroups - e,
             TenTo[4 * e] <= m, m < TenTo[4 * (e + 1)],
             \A g \in 0..(e + 1) : Number(Cut(m), 0, e + 1 - g) = m \div TenTo[4 * g],
             \A j \in Nat : Number(Cut(m), 0, e + 1 + j) = m * TenTo[4 * j]
      PROVE  /\ whole * TenTo[s] + fraction \in Int
             /\ s = 0 => whole = co
             /\ whole * TenTo[s] + fraction = co <=> ~Tiny(co, s)
  <2>1. weight = e - f
    BY <1>1, <1>8, GroupsType
  <2>2. PICK p \in Nat \ {0}, q \in Nat \ {0} : p = TenTo[4 * e] /\ q = TenTo[4 * (e + 1)]
    BY Powers, 4 * e \in Nat, 4 * (e + 1) \in Nat
  <2>3. m > 0 /\ co > 0
    <3>1. m > 0
      BY <1>8, <2>2
    <3>. QED
      BY <1>1, <3>1, SMT
  <2>4. CASE f <= e + 1
    <3>1. before = e + 1 - f /\ before \in Nat /\ f \in 0..(e + 1)
      BY <2>1, <2>4
    <3>2. PICK w \in Nat \ {0} : w = T * z /\ w = TenTo[4 * f]
      BY <1>4, T * z \in Nat \ {0}
    <3>3. whole = m \div w
      BY <1>1, <1>8, <3>1, <3>2
    <3>4. Number(Cut(m), 0, e + 1) = m
      <4>1. 0 \in 0..(e + 1) /\ e + 1 - 0 = e + 1 /\ m \div 1 = m /\ 4 * 0 = 0
        BY SMT
      <4>2. Number(Cut(m), 0, e + 1 - 0) = m \div TenTo[4 * 0]
        BY <1>8, <4>1, Zenon
      <4>. QED
        BY <4>1, <4>2, Powers, Zenon
    <3>5. Number(Cut(m), 0, before + f) = Number(Cut(m), 0, before) * TenTo[4 * f] + Number(Cut(m), before, f)
      <4>1. \A a, b \in Nat : Number(Cut(m), 0, a + b) = Number(Cut(m), 0, a) * TenTo[4 * b] + Number(Cut(m), a, b)
        BY <1>6, NumberSum, Zenon
      <4>. QED
        BY <3>1, <4>1, Zenon
    <3>6. Number(Cut(m), before, f) \in Int
      <4>1. before \in Int
        BY <3>1
      <4>. QED
        BY <1>6, <4>1, Numbers
    <3>7. PICK q0 \in Int, p0 \in Int, y \in Int :
             q0 = m \div w /\ p0 = q0 * w /\ y = Number(Cut(m), before, f)
      BY <3>6, m \div w \in Int, (m \div w) * w \in Int
    <3>8. m = p0 + y
      <4>1. before + f = e + 1
        BY <3>1
      <4>2. Number(Cut(m), 0, before) = q0
        BY <1>1, <3>3, <3>7
      <4>3. Number(Cut(m), 0, e + 1) = q0 * w + y
        BY <3>2, <3>5, <3>7, <4>1, <4>2, Zenon
      <4>. QED
        BY <3>4, <3>7, <4>3, Zenon
    <3>9. q0 = co \div T /\ q0 * T + (y \div z) = co
      <4>1. y \in 0..(w - 1)
        <5>0. m % w \in 0..(w - 1) /\ m = (m \div w) * w + (m % w)
          BY Divided, m \in Int, Zenon
        <5>1. PICK r \in 0..(w - 1) : r = m % w /\ m = (m \div w) * w + r
          BY <5>0, Zenon
        <5>2. m = p0 + r
          BY <3>7, <5>1, Zenon
        <5>3. y = r
          BY <3>8, <5>2
        <5>. QED
          BY <5>3
      <4>2. Splits(co, T, z, q0, y)
        BY <1>1, <3>2, <3>7, <3>8, <4>1 DEF Splits
      <4>. QED
        BY <4>2, WholeAndRest
    <3>10. whole = co \div T
      BY <3>3, <3>7, <3>9, Zenon
    <3>11. whole * TenTo[s] + fraction = co
      <4>1. fraction = y \div z
        BY <1>1, <3>7
      <4>. QED
        BY <1>3, <3>3, <3>7, <3>9, <4>1, Zenon
    <3>12. s = 0 => whole = co
      <4>1. s = 0 => T = 1
        BY <1>3, Powers
      <4>2. co \div 1 = co
        BY SMT
      <4>. QED
        BY <3>10, <4>1, <4>2
    <3>13. ~Tiny(co, s)
      <4>. SUFFICES ASSUME s > 4 PROVE ~(co < TenTo[s - 4])
        BY DEF Tiny
      <4>1. PICK a \in Nat \ {0} : a = TenTo[s - 4]
        BY Powers, s - 4 \in Nat
      <4>2. 4 * (f - 1) \in Nat /\ 4 * e \in Nat /\ 4 * (f - 1) <= 4 * e
        BY <1>5, <2>4
      <4>3. PICK n \in Nat : n = a * z /\ n = TenTo[4 * (f - 1)]
        BY <1>5, <4>1, a * z \in Nat
      <4>4. n <= m
        <5>1. n <= p
          BY <2>2, <4>2, <4>3, PowerOrder
        <5>. QED
          BY <1>8, <2>2, <5>1
      <4>5. m < n <=> co < a
        BY <1>1, <4>3, Less
      <4>6. ~(co < a)
        BY <4>4, <4>5
      <4>. QED
        BY <4>1, <4>6
    <3>. QED
      BY <3>11, <3>12, <3>13
  <2>5. CASE e + 1 < f
    <3>1. before = 0 /\ f >= 2 /\ s > 4
      BY <1>2, <2>1, <2>5
    <3>2. whole = 0
      BY <1>1, <1>6, <3>1, Numbers, 0 \in Int
    <3>3. PICK j \in Nat : j = f - e - 1 /\ j >= 1 /\ f = e + 1 + j
      BY <2>5
    <3>4. PICK k \in Nat : k = TenTo[4 * j] /\ k > 1
      <4>1. 10 * TenTo[0] <= TenTo[4 * j]
        BY <3>3, PowerOrder, 0 \in Nat, 4 * j \in Nat
      <4>. QED
        BY <4>1, Powers, 4 * j \in Nat
    <3>5. Number(Cut(m), 0, f) = m * k
      BY <1>8, <3>3, <3>4
    <3>6. m * k = (co * k) * z
      BY <1>1, SMT
    <3>7. ((co * k) * z) \div z = co * k
      <4>1. PICK n \in Nat : n = co * k
        BY SMT
      <4>2. (n * z) \div z = n
        BY Scaled
      <4>. QED
        BY <4>1, <4>2
    <3>8. fraction = co * k
      BY <1>1, <3>1, <3>5, <3>6, <3>7
    <3>9. co * k \in Int /\ co * k # co
      <4>1. PICK i \in Nat \ {0} : k = 1 + i
        <5>1. \A n \in Nat : n > 1 => n - 1 \in Nat \ {0} /\ n = 1 + (n - 1)
          OBVIOUS
        <5>. QED
          BY <3>4, <5>1, Zenon
      <4>2. co * (1 + i) = co + co * i /\ co * i > 0 /\ co * i \in Int
        BY <2>3, SMT
      <4>. QED
        BY <4>1, <4>2
    <3>10. Tiny(co, s)
      <4>1. PICK a \in Nat \ {0} : a = TenTo[s - 4]
        BY <3>1, Powers, s - 4 \in Nat
      <4>2. 4 * (f - 1) \in Nat /\ 4 * (e + 1) \in Nat /\ 4 * (e + 1) <= 4 * (f - 1)
        BY <1>5, <2>5, <3>1
      <4>3. PICK n \in Nat : n = a * z /\ n = TenTo[4 * (f - 1)]
        BY <1>5, <3>1, <4>1, a * z \in Nat
      <4>4. m < n
        <5>1. q <= n
          BY <2>2, <4>2, <4>3, PowerOrder
        <5>. QED
          BY <1>8, <2>2, <5>1
      <4>5. co < a
        BY <1>1, <4>3, <4>4, Less
      <4>. QED
        BY <2>3, <3>1, <4>1, <4>5 DEF Tiny
    <3>11. whole * TenTo[s] + fraction = co * k
      BY <1>3, <3>2, <3>8, <3>9
    <3>12. whole * TenTo[s] + fraction # co
      BY <3>9, <3>11, Zenon
    <3>13. whole * TenTo[s] + fraction \in Int
      BY <3>9, <3>11, Zenon
    <3>14. s # 0
      BY <3>1
    <3>. QED
      BY <3>10, <3>12, <3>13, <3>14, Zenon
  <2>6. f <= e + 1 \/ e + 1 < f
    BY e \in Nat, f \in Nat, SMT
  <2>. QED
    BY <2>4, <2>5, <2>6, Zenon
<1>. QED
  BY <1>6, <1>7, <1>8

(* A numeric that is a number, by its parts.                               *)
LEMMA NumericParts ==
    ASSUME NEW x, IsNumeric(x), x # <<"NaN", FALSE, 0, 0>>
    PROVE  /\ x = <<"number", x[2], x[3], x[4]>> /\ x[1] = "number"
           /\ x[2] \in BOOLEAN /\ x[3] \in Nat /\ x[4] \in Nat /\ (x[2] => x[3] # 0)
           /\ IsSmall(x[3] * TenTo[4 * ((x[4] + 3) \div 4) - x[4]])
<1>1. /\ x = <<"number", x[2], x[3], x[4]>>
      /\ x[2] \in BOOLEAN /\ x[3] \in Nat /\ x[4] \in Nat /\ (x[2] => x[3] # 0)
      /\ HasGroups(x)
  BY Zenon DEF IsNumeric
<1>2. x[1] = "number"
  <2>. DEFINE y == <<"number", x[2], x[3], x[4]>>
  <2>1. y[1] = "number"
    OBVIOUS
  <2>2. x = y
    BY <1>1
  <2>. HIDE DEF y
  <2>. QED
    BY <2>1, <2>2
<1>3. PICK s \in Nat, co \in Nat : s = x[4] /\ co = x[3]
  BY <1>1
<1>4. 4 * ((s + 3) \div 4) - s \in Nat
  BY SMT
<1>5. PICK z \in Nat : z = TenTo[4 * ((s + 3) \div 4) - s]
  BY <1>4, Powers
<1>6. co * z \in Nat
  BY SMT
<1>7. Aligned(x) = co * z
  BY <1>3, <1>5 DEF Aligned
<1>8. IsSmall(co * z)
  BY <1>1, <1>6, <1>7 DEF HasGroups, IsSmall
<1>. QED
  BY <1>1, <1>2, <1>3, <1>5, <1>8

(* What a decimal means that is not negative zero and has no exponent.     *)
LEMMA Plain ==
    ASSUME NEW negative \in BOOLEAN, NEW n \in Int, NEW s \in Nat, negative => n # 0
    PROVE  NumericOf(<<"number", negative, n, s>>) = <<"number", negative, n, s>>
<1>1. Max({0, s}) = s
  <2>1. s \in {0, s} /\ (\A y \in {0, s} : y \in Int) /\ \A y \in {0, s} : s >= y
    OBVIOUS
  <2>. QED
    BY <2>1, MaxIs
<1>2. (negative /\ n # 0) = negative
  OBVIOUS
<1>3. ~(s < 0)
  OBVIOUS
<1>. DEFINE d == <<"number", negative, n, s>>
<1>4. d[1] = "number" /\ d[2] = negative /\ d[3] = n /\ d[4] = s
  OBVIOUS
<1>5. NumericOf(d) = <<"number", d[2] /\ d[3] # 0,
                       IF d[4] < 0 THEN d[3] * TenTo[-d[4]] ELSE d[3], Max({0, d[4]})>>
  <2>. HIDE DEF d
  <2>. QED
    BY <1>4 DEF NumericOf
<1>6. NumericOf(d) = <<"number", negative /\ n # 0, IF s < 0 THEN n * TenTo[-s] ELSE n, Max({0, s})>>
  <2>. HIDE DEF d
  <2>. QED
    BY <1>4, <1>5, Zenon
<1>. QED
  BY <1>1, <1>2, <1>3, <1>6, Zenon

(* A numeric is read with all its digits, unless it is too small for that. *)
LEMMA NumericReads ==
    ASSUME NEW c, Class(c) = "numeric", IsColumn(c)
    PROVE  Reads(c, "binary")
<1>1. PICK x : x = Content(c) /\ IsNumeric(x)
  BY SMT DEF IsColumn
<1>2. Read(c, "binary") = GetNumeric(SendNumeric(x))
  BY <1>1, SMT DEF Read, ConvertValue, Send
<1>3. PICK n : n = SendNumeric(x)
  OBVIOUS
<1>4. Misread(c, "binary") <=> x[1] = "number" /\ Tiny(x[3], x[4])
  BY <1>1, Zenon DEF Misread, Garbled, Tiny
<1>5. Unreadable(c, "binary") <=> x = <<"number", FALSE, 0, 0>>
  BY <1>1, Zenon DEF Unreadable
<1>6. ASSUME NEW v, Class(v) = "Decimal"
      PROVE  Denotes(v, c) <=> NumericOf(Content(v)) = x
  BY <1>1, <1>6, SMT DEF Denotes
<1>7. CASE x = <<"NaN", FALSE, 0, 0>>
  <2>1. x[1] = "NaN"
    BY <1>7
  <2>2. n.kind = "NaN"
    BY <1>3, <2>1 DEF SendNumeric
  <2>v. PICK v : v = <<"Decimal", x>> /\ Class(v) = "Decimal" /\ Content(v) = x
    BY Value
  <2>3. Read(c, "binary") = v
    BY <1>2, <1>3, <1>7, <2>2, <2>v, Zenon DEF GetNumeric
  <2>4. NumericOf(x) = x
    BY <1>7, <2>1 DEF NumericOf
  <2>5. ~Misread(c, "binary") /\ ~Unreadable(c, "binary")
    <3>1. x[1] # "number"
      BY <2>1
    <3>2. x # <<"number", FALSE, 0, 0>>
      BY <1>7, SMT
    <3>. QED
      BY <1>4, <1>5, <3>1, <3>2, Zenon
  <2>6. Denotes(v, c)
    BY <1>6, <2>v, <2>4
  <2>. QED
    BY <2>3, <2>5, <2>6, <2>v, Valued
<1>8. CASE x # <<"NaN", FALSE, 0, 0>>
  <2>1. PICK negative \in BOOLEAN, co \in Nat, s \in Nat, f \in Nat, z \in Nat \ {0} :
           /\ x = <<"number", negative, co, s>> /\ x[1] = "number"
           /\ x[2] = negative /\ x[3] = co /\ x[4] = s /\ (negative => co # 0)
           /\ f = (s + 3) \div 4 /\ z = TenTo[4 * f - s] /\ IsSmall(co * z)
    <3>1. /\ x = <<"number", x[2], x[3], x[4]>> /\ x[1] = "number"
          /\ x[2] \in BOOLEAN /\ x[3] \in Nat /\ x[4] \in Nat /\ (x[2] => x[3] # 0)
          /\ IsSmall(x[3] * TenTo[4 * ((x[4] + 3) \div 4) - x[4]])
      BY <1>1, <1>8, NumericParts
    <3>2. PICK s \in Nat : s = x[4]
      BY <3>1
    <3>3. (s + 3) \div 4 \in Nat /\ 4 * ((s + 3) \div 4) - s \in Nat
      BY SMT
    <3>4. TenTo[4 * ((s + 3) \div 4) - s] \in Nat \ {0}
      BY <3>3, Powers
    <3>. QED
      BY <3>1, <3>2, <3>3, <3>4, Zenon
  <2>2. Aligned(x) = co * z
    BY <2>1, Zenon DEF Aligned
  <2>3. PICK weight : weight = IF Used(co * z) = {} THEN 0 ELSE MaxGroups - Min(Used(co * z)) - f
    OBVIOUS
  <2>4. n = [kind |-> "number", negative |-> negative, dscale |-> s, weight |-> weight,
             digits |-> Cut(co * z)]
    <3>1. n = [kind |-> x[1], negative |-> x[2], dscale |-> x[4],
               weight |-> IF Used(Aligned(x)) = {} THEN 0
                          ELSE MaxGroups - Min(Used(Aligned(x))) - ((x[4] + 3) \div 4),
               digits |-> Cut(Aligned(x))]
      BY <1>3 DEF SendNumeric, Used, Cut, Groups, Before
    <3>. QED
      BY <2>1, <2>2, <2>3, <3>1, Zenon
  <2>5. /\ n.kind = "number" /\ n.negative = negative /\ n.dscale = s /\ n.weight = weight
        /\ n.digits = Cut(co * z)
    BY <2>4
  <2>6. PICK before : before = IF weight >= 0 THEN weight + 1 ELSE 0
    OBVIOUS
  <2>7. PICK whole : whole = Number(Cut(co * z), 0, before)
    OBVIOUS
  <2>8. PICK fraction : fraction = Number(Cut(co * z), before, f) \div z
    OBVIOUS
  <2>9. /\ whole * TenTo[s] + fraction \in Int
        /\ s = 0 => whole = co
        /\ whole * TenTo[s] + fraction = co <=> ~Tiny(co, s)
    <3>1. Fetch(co, s, f, z, weight, before, whole, fraction)
      BY <2>1, <2>3, <2>6, <2>7, <2>8, Zenon DEF Fetch
    <3>. QED
      BY <3>1, Fetched
  <2>10. PICK r \in Int : r = whole * TenTo[s] + fraction
    BY <2>9
  <2>v. PICK v : v = <<"Decimal", <<"number", negative, r, s>>>> /\ Class(v) = "Decimal"
                 /\ Content(v) = <<"number", negative, r, s>>
    BY Value
  <2>11. Read(c, "binary") = IF whole = 0 /\ s = 0 THEN Raised ELSE v
    <3>1. GetNumeric(n) = IF n.kind = "NaN" THEN <<"Decimal", <<"NaN", FALSE, 0, 0>>>>
                          ELSE IF whole = 0 /\ s = 0 THEN Raised ELSE v
      <4>. DEFINE b == IF n.weight >= 0 THEN n.weight + 1 ELSE 0
                  a == (n.dscale + 3) \div 4
                  w == Number(n.digits, 0, b)
                  g == Number(n.digits, b, a) \div TenTo[4 * a - n.dscale]
      <4>1. GetNumeric(n) = IF n.kind = "NaN" THEN <<"Decimal", <<"NaN", FALSE, 0, 0>>>>
                            ELSE IF w = 0 /\ n.dscale = 0 THEN Raised
                            ELSE <<"Decimal", <<"number", n.negative, w * TenTo[n.dscale] + g, n.dscale>>>>
        BY DEF GetNumeric
      <4>2. b = before /\ a = f
        BY <2>1, <2>5, <2>6, Zenon
      <4>3. w = whole
        BY <2>5, <2>7, <4>2, Zenon
      <4>4. g = fraction
        BY <2>1, <2>5, <2>8, <4>2, Zenon
      <4>. HIDE DEF w, g
      <4>. QED
        BY <2>5, <2>10, <2>v, <4>1, <4>3, <4>4, Zenon
    <3>. QED
      BY <1>2, <1>3, <2>5, <3>1
  <2>12. Unreadable(c, "binary") <=> co = 0 /\ s = 0
    <3>1. ASSUME co = 0, s = 0 PROVE x = <<"number", FALSE, 0, 0>>
      BY <2>1, <3>1
    <3>2. ASSUME x = <<"number", FALSE, 0, 0>> PROVE co = 0 /\ s = 0
      BY <2>1, <3>2
    <3>. QED
      BY <1>5, <3>1, <3>2
  <2>13. CASE co = 0 /\ s = 0
    BY <2>9, <2>11, <2>12, <2>13 DEF Reads
  <2>14. CASE ~(co = 0 /\ s = 0)
    <3>1. Read(c, "binary") = v
      BY <2>9, <2>11, <2>14
    <3>2. Denotes(v, c) <=> NumericOf(<<"number", negative, r, s>>) = x
      BY <1>6, <2>v
    <3>3. Misread(c, "binary") <=> Tiny(co, s)
      BY <1>4, <2>1
    <3>4. Denotes(v, c) <=> r = co
      <4>1. CASE r = co
        <5>1. NumericOf(<<"number", negative, r, s>>) = <<"number", negative, r, s>>
          BY <2>1, <4>1, Plain
        <5>. QED
          BY <2>1, <3>2, <4>1, <5>1, Zenon
      <4>2. CASE r # co
        <5>1. NumericOf(<<"number", negative, r, s>>)[3] = r
          BY SMT DEF NumericOf
        <5>. QED
          BY <2>1, <3>2, <4>2, <5>1
      <4>. QED
        BY <4>1, <4>2
    <3>. QED
      BY <2>9, <2>10, <2>12, <2>14, <2>v, <3>1, <3>3, <3>4, Valued
  <2>. QED
    BY <2>13, <2>14
<1>. QED
  BY <1>7, <1>8

---------------------------------------------------------------------------
(* Every column is read as it should be.                                   *)
LEMMA ColumnReads ==
    ASSUME NEW c, IsColumn(c), NEW f \in {"binary", "text"},
           ~Garbled(c, f)
    PROVE  Reads(c, f)
<1>1. Class(c) \in Types
  BY DEF IsColumn
<1>2. CASE Class(c) = "NULL"
  BY <1>2, NoneReads, Zenon
<1>3. CASE Class(c) \in {"bool", "float4", "float8", "other"}
  BY <1>3, PlainReads, Zenon
<1>4. CASE Class(c) = "int2[]"
  BY <1>4, SmallArrayReads, Zenon
<1>5. CASE Class(c) \in {"bytea", "uuid"}
  BY <1>5, BytesRead, Zenon
<1>6. CASE Class(c) = "text"
  BY <1>6, TextReads, Zenon
<1>7. CASE Class(c) \in {"int2", "int4", "int8"}
  BY <1>7, IntegerReads, Zenon
<1>8. CASE Class(c) = "date"
  BY <1>8, TextDateReads, BinaryDateReads, Zenon
<1>9. CASE Class(c) = "interval"
  <2>1. f = "binary"
    BY <1>9 DEF Garbled
  <2>2. Reads(c, "binary")
    BY <1>9, IntervalReads, Zenon
  <2>. QED
    BY <2>1, <2>2
<1>10. CASE /\ f = "text"
            /\ Class(c) \in {"numeric", "money", "time", "timestamp", "int4[]", "int8[]", "text[]"}
  <2>1. Reads(c, "text")
    BY <1>10, Refuses
  <2>. QED
    BY <1>10, <2>1
<1>11. CASE f = "binary" /\ Class(c) = "money"
  <2>1. Reads(c, "binary")
    BY <1>11, CashReads, Zenon
  <2>. QED
    BY <1>11, <2>1
<1>12. CASE f = "binary" /\ Class(c) \in {"int4[]", "int8[]", "text[]"}
  <2>1. Reads(c, "binary")
    BY <1>12, ArrayReads
  <2>. QED
    BY <1>12, <2>1
<1>13. CASE f = "binary" /\ Class(c) = "time"
  BY <1>13, TimeReads, Zenon
<1>14. CASE f = "binary" /\ Class(c) = "timestamp"
  BY <1>14, TimestampReads, Zenon
<1>15. CASE f = "binary" /\ Class(c) = "numeric"
  <2>1. Reads(c, "binary")
    BY <1>15, NumericReads, Zenon
  <2>. QED
    BY <1>15, <2>1
<1>16. \/ Class(c) \in {"NULL", "int2[]", "text", "date", "interval"}
       \/ Class(c) \in {"bool", "float4", "float8", "other"}
       \/ Class(c) \in {"bytea", "uuid"}
       \/ Class(c) \in {"int2", "int4", "int8"}
       \/ f = "text" /\ Class(c) \in {"numeric", "money", "time", "timestamp",
                                     "int4[]", "int8[]", "text[]"}
       \/ f = "binary" /\ Class(c) \in {"money", "time", "timestamp", "numeric"}
       \/ f = "binary" /\ Class(c) \in {"int4[]", "int8[]", "text[]"}
  BY <1>1, SMT DEF Types
<1>. QED
  BY <1>2, <1>3, <1>4, <1>5, <1>6, <1>7, <1>8, <1>9, <1>10, <1>11, <1>12, <1>13, <1>14, <1>15, <1>16

(* What comes of a column is what is read of it ...                        *)
LEMMA OutcomesAre ==
    ASSUME NEW c, NEW f
    PROVE  ~Garbled(c, f) => Outcomes(c, f) = {Read(c, f)}
BY Zenon DEF Outcomes, Read

(* ... unless it is an interval in text, of which may come anything.       *)
LEMMA GarbledReads ==
    ASSUME NEW c, NEW f, Garbled(c, f)
    PROVE  /\ Outcomes(c, f) = {Raised, Garbage}
           /\ ~Denotes(Garbage, c) /\ Misread(c, f)
<1>1. Class(Garbage) = "garbage"
  BY Pairs DEF Garbage
<1>. QED
  BY <1>1, SMT DEF Outcomes, Denotes, Misread

(* So for the column that the program reads in any state.                  *)
LEMMA InvReads ==
    ASSUME Inv, column # Nothing
    PROVE  \/ /\ Garbled(column, format) /\ Outcomes(column, format) = {Raised, Garbage}
           \/ /\ ~Garbled(column, format) /\ Reads(column, format)
              /\ Outcomes(column, format) = {Read(column, format)}
<1>1. IsColumn(column) /\ format \in {"binary", "text"}
  BY DEF Inv, StageInv, ColumnInv
<1>. QED
  BY <1>1, ColumnReads, OutcomesAre, GarbledReads

(* What the program gets is exact, whatever the column, except for those   *)
(* that the code is known to read wrong.                                   *)
THEOREM ResultsAreExact == Spec => []ResultsExact
<1>1. Inv => ResultsExact
  <2>. SUFFICES ASSUME Inv, stage = "got"
                PROVE  Denotes(result, column) <=> ~Misread(column, format)
    BY DEF ResultsExact
  <2>1. column # Nothing /\ result \in Outcomes(column, format) /\ result # Raised
    BY DEF Inv, ColumnInv, ResultInv
  <2>2. CASE Garbled(column, format)
    BY <2>1, <2>2, GarbledReads
  <2>3. CASE ~Garbled(column, format)
    <3>1. Reads(column, format) /\ result = Read(column, format)
      BY <2>1, <2>3, InvReads
    <3>. QED
      BY <2>1, <3>1 DEF Reads
  <2>. QED
    BY <2>2, <2>3
<1>. QED
  BY <1>1, Invariant, PTL

(* The program gets a value of every column that the code can read, and of *)
(* no other.                                                               *)
THEOREM ResultsAreReadable == Spec => []Readable
<1>1. Inv => Readable
  <2>. SUFFICES ASSUME Inv, stage \in {"got", "raised"}, column # Nothing,
                       ~pending, ~Garbled(column, format)
                PROVE  stage = "got" <=> ~Unreadable(column, format)
    BY DEF Readable
  <2>1. Reads(column, format) /\ Outcomes(column, format) = {Read(column, format)}
    BY InvReads
  <2>2. CASE stage = "got"
    <3>1. Read(column, format) # Raised
      BY <2>1, <2>2 DEF Inv, ResultInv
    <3>. QED
      BY <2>1, <2>2, <3>1 DEF Reads
  <2>3. CASE stage = "raised"
    <3>1. Read(column, format) = Raised
      BY <2>1, <2>3 DEF Inv, ResultInv
    <3>. QED
      BY <2>1, <2>3, <3>1 DEF Reads
  <2>. QED
    BY <2>2, <2>3
<1>. QED
  BY <1>1, Invariant, PTL
=============================================================================
