----------------------------- MODULE JulianDate -----------------------------
(***************************************************************************)
(* The conversions of src/juliandate.cpp between a date and its Julian     *)
(* day, and the calendar they are measured against.                        *)
(*                                                                         *)
(* The constants 365.25, 36524.25, 30.6001 and 0.25 of the code are exact  *)
(* fractions here; both give the same result for every Julian day that a   *)
(* date or a timestamp can reach.                                          *)
(***************************************************************************)
EXTENDS Integers

(* Division and remainder of C, which round towards zero.                  *)
Quot(a, b) == IF a >= 0 THEN a \div b ELSE -((-a) \div b)
Rem(a, b) == a - b * Quot(a, b)

---------------------------------------------------------------------------
(* The reference: the Gregorian calendar, continued into the past, as both *)
(* Python and the backend have it.  A date is a triple <<y, m, d>>.        *)

IsLeap(y) == y % 4 = 0 /\ (y % 100 # 0 \/ y % 400 = 0)

DaysInMonth(y, m) ==
    IF m = 2 THEN IF IsLeap(y) THEN 29 ELSE 28
             ELSE IF m \in {4, 6, 9, 11} THEN 30 ELSE 31

(* The dates that Python can make.                                         *)
MAXYEAR == 9999
IsDate(date) ==
    /\ date[1] \in 1..MAXYEAR
    /\ date[2] \in 1..12
    /\ date[3] \in 1..DaysInMonth(date[1], date[2])

(* The days of the year before a month begins.                             *)
DaysBefore == <<0, 31, 59, 90, 120, 151, 181, 212, 243, 273, 304, 334>>

(* The days from 2000-01-01, which is day 730120 of the calendar.          *)
DayNumber(date) ==
    LET past == date[1] - 1
    IN  365 * past + past \div 4 - past \div 100 + past \div 400
        + DaysBefore[date[2]]
        + (IF date[2] > 2 /\ IsLeap(date[1]) THEN 1 ELSE 0)
        + date[3] - 730120

(* The days of the dates that Python can make.                             *)
FirstDay == DayNumber(<<1, 1, 1>>)
LastDay == DayNumber(<<MAXYEAR, 12, 31>>)

---------------------------------------------------------------------------
JULIAN_START == 2451545     \* 2000-01-01

(* 1582-10-15 in the units of dateToJulian.  julianToDate compares a       *)
(* Julian day with it, which makes it a day of the year 3101 BC there.     *)
GREGORIAN_OFFSET == 15 + 31 * (10 + 12 * 1582)

(* julianToDate in steps. ja is the Julian day in the Julian calendar, jc  *)
(* its year, counted from 4716 BC, in which March is the first month; then *)
(* come the days since that year's March began, with 122 more, and je, the *)
(* month in it, with three more.                                           *)
Corrected(julian) ==
    LET jalpha == Quot(4 * (julian - 1867216) - 1, 146097)
    IN  julian + (IF julian >= GREGORIAN_OFFSET
                  THEN 1 + jalpha - Quot(jalpha, 4) ELSE 0)

YearOf(ja) == Quot(6680 * 36525 + 100 * (ja + 1524 - 2439870) - 12210, 36525)

DayOf(ja) == ja + 1524 - (365 * YearOf(ja) + Quot(YearOf(ja), 4))

MonthOf(ja) == Quot(10000 * DayOf(ja), 306001)

julianToDate(julian) ==
    LET ja == Corrected(julian)
        je == MonthOf(ja)
        day == DayOf(ja) - Quot(306001 * je, 10000)
        month == IF je - 1 > 12 THEN je - 13 ELSE je - 1
        year == YearOf(ja) - 4715 - (IF month > 2 THEN 1 ELSE 0)
    IN  <<IF year <= 0 THEN year - 1 ELSE year, month, day>>

dateToJulian(date) ==
    LET year == date[1]
        month == date[2]
        late == month > 2
        julianYear == (IF year < 0 THEN year + 1 ELSE year)
                      - (IF late THEN 0 ELSE 1)
        julianMonth == IF late THEN month + 1 ELSE month + 13
        ja == Quot(julianYear, 100)
        gregorian == date[3] + 31 * (month + 12 * year) >= GREGORIAN_OFFSET
    IN  Quot(1461 * julianYear, 4) + Quot(306001 * julianMonth, 10000)
        + date[3] + 1720995
        + (IF gregorian THEN 2 - ja + Quot(ja, 4) ELSE 0)
===========================================================================
