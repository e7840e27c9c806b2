--------------------------------- MODULE Dates ---------------------------------
(***************************************************************************)
(* The calendrical types of src/src/common/date.hpp and what they compute: *)
(* days since 1970-01-01, year/month/day, the n-th or last weekday of a    *)
(* month, and times of day.  A type is a record of its fields, an object   *)
(* that is not ok() is a record all the same.                              *)
(*                                                                         *)
(* A year is a short, a month, a day and a weekday are unsigned chars, and *)
(* two computations go through unsigned.  What they need of 2^32 is that   *)
(* it is even, its remainder by 7, and that all days fit.                  *)
(***************************************************************************)
EXTENDS Integers

CONSTANT UnsignedWord   \* 2^32: what an unsigned is counted modulo

DatesAssumption ==
    UnsignedWord \in Nat /\ UnsignedWord % 14 = 4 /\ UnsignedWord >= 16777216

Short(n) == ((n + 32768) % 65536) - 32768
UnsignedChar(n) == n % 256
Unsigned(n) == n % UnsignedWord
Signed(u) == IF u < UnsignedWord \div 2 THEN u ELSE u - UnsignedWord

\* What / does on ints.
Quotient(n, d) == IF n >= 0 THEN n \div d ELSE -((-n) \div d)

(***************************************************************************)
(* Years, months and weekdays alone.                                       *)
(***************************************************************************)

MinYear == -32767
MaxYear == 32767
NanYear == -32768

IsLeap(y) == y % 4 = 0 /\ (y % 100 # 0 \/ y % 400 = 0)
YearOk(y) == y # NanYear
YearPlus(y, n) == Short(y + n)
MonthOk(m) == m \in 1..12
DayPlus(d, n) == UnsignedChar(d + n)
DayOk(d) == d \in 1..31

MonthPlus(m, n) ==
    LET mu == m + n - 1
        yr == Quotient(IF mu >= 0 THEN mu ELSE mu - 11, 12)
    IN  UnsignedChar(mu - yr * 12 + 1)

MonthMinus(x, y) ==
    LET d == Unsigned(x - y)
    IN  Signed(IF d <= 11 THEN d ELSE Unsigned(d + 12))

Weekday(wd) == UnsignedChar(IF wd # 7 THEN wd ELSE 0)
WeekdayOk(wd) == wd \in 0..6
IsoEncoding(wd) == IF wd = 0 THEN 7 ELSE wd
WeekdayFromDays(z) ==
    LET u == Unsigned(z) IN IF z >= -4 THEN Unsigned(u + 4) % 7 ELSE u % 7

WeekdayMinus(x, y) ==
    LET wdu == x - y IN wdu - 7 * Quotient(IF wdu >= 0 THEN wdu ELSE wdu - 6, 7)

WeekdayPlus(wd, n) ==
    LET wdu == wd + n
    IN  Weekday(wdu - 7 * Quotient(IF wdu >= 0 THEN wdu ELSE wdu - 6, 7))

(***************************************************************************)
(* Year and month.                                                         *)
(***************************************************************************)

YearMonth(y, m) == [y |-> y, m |-> m]
YearMonthOk(ym) == YearOk(ym.y) /\ MonthOk(ym.m)

YearMonthPlus(ym, n) ==
    LET dmi == ym.m - 1 + n
        dy == Quotient(IF dmi >= 0 THEN dmi ELSE dmi - 11, 12)
    IN  YearMonth(YearPlus(ym.y, dy), UnsignedChar(dmi - dy * 12 + 1))

YearMonthMinus(a, b) == 12 * (a.y - b.y) + Signed(Unsigned(a.m - b.m))

YearMonthLess(a, b) == a.y < b.y \/ (a.y = b.y /\ a.m < b.m)

(***************************************************************************)
(* Year, month and day.                                                    *)
(***************************************************************************)

Ymd(y, m, d) == [y |-> y, m |-> m, d |-> d]

\* The days of a month, February with 29 for a date that has no year.
MonthDayLast == <<31, 29, 31, 30, 31, 30, 31, 31, 30, 31, 30, 31>>
MonthDayOk(m, d) == MonthOk(m) /\ d \in 1..MonthDayLast[m]

LastDay(ym) ==
    IF (ym.m # 2 \/ ~IsLeap(ym.y)) /\ MonthOk(ym.m)
    THEN [MonthDayLast EXCEPT ![2] = 28][ym.m]
    ELSE 29

YmdLast(ym) == Ymd(ym.y, ym.m, LastDay(ym))
YmdOk(ymd) == YearMonthOk(ymd) /\ ymd.d \in 1..LastDay(ymd)

YmdLess(a, b) == YearMonthLess(a, b) \/ (a.y = b.y /\ a.m = b.m /\ a.d < b.d)

YmdPlus(ymd, n) == LET ym == YearMonthPlus(ymd, n) IN Ymd(ym.y, ym.m, ymd.d)
YmdPlusYears(ymd, n) == [ymd EXCEPT !.y = YearPlus(@, n)]

ToDays(ymd) ==
    LET y == ymd.y - (IF ymd.m <= 2 THEN 1 ELSE 0)
        era == Quotient(IF y >= 0 THEN y ELSE y - 399, 400)
        yoe == y - era * 400
        doy == (153 * (IF ymd.m > 2 THEN ymd.m - 3 ELSE ymd.m + 9) + 2) \div 5 + ymd.d - 1
        doe == yoe * 365 + yoe \div 4 - yoe \div 100 + doy
    IN  era * 146097 + doe - 719468

\* year_month_day::from_days: of a day of an era of 400 years, its year, and its
\* day of that year, which begins in March.
YearOfEra(doe) == (doe - doe \div 1460 + doe \div 36524 - doe \div 146096) \div 365
DayFromMarch(doe, yoe) == doe - (365 * yoe + yoe \div 4 - yoe \div 100)
DateOfYear(y, doy) ==
    LET mp == (5 * doy + 2) \div 153
        m == IF mp < 10 THEN mp + 3 ELSE mp - 9
    IN  Ymd(Short(y + (IF m <= 2 THEN 1 ELSE 0)), UnsignedChar(m),
            UnsignedChar(doy - (153 * mp + 2) \div 5 + 1))
DateOfEra(era, doe) ==
    LET yoe == YearOfEra(doe) IN DateOfYear(yoe + era * 400, DayFromMarch(doe, yoe))

\* (Fault: the era is chosen by a division that truncates.)
FromDaysTruncated(days) ==
    LET z == days + 719468
        era == Quotient(z, 146097)
    IN  DateOfEra(era, Unsigned(z - era * 146097))
FromDays(days) ==
    LET z == days + 719468
        era == Quotient(IF z >= 0 THEN z ELSE z - 146096, 146097)
    IN  DateOfEra(era, Unsigned(z - era * 146097))

WeekdayOf(ymd) == WeekdayFromDays(ToDays(ymd))

(***************************************************************************)
(* The n-th and the last of a weekday in a month.                          *)
(***************************************************************************)

Ymw(y, m, wd, index) == [y |-> y, m |-> m, wd |-> wd, index |-> index]

YmwOk(ymw) ==
    /\ YearMonthOk(ymw) /\ WeekdayOk(ymw.wd) /\ ymw.index >= 1
    /\ \/ ymw.index <= 4
       \/ WeekdayMinus(ymw.wd, WeekdayOf(Ymd(ymw.y, ymw.m, 1))) + (ymw.index - 1) * 7 + 1
            <= LastDay(ymw)

YmwFromDays(z) ==
    LET ymd == FromDays(z)
    IN  Ymw(ymd.y, ymd.m, WeekdayFromDays(z), (ymd.d - 1) \div 7 + 1)

YmwToDays(ymw) ==
    LET first == ToDays(Ymd(ymw.y, ymw.m, 1))
    IN  first + WeekdayMinus(ymw.wd, WeekdayFromDays(first)) + (ymw.index - 1) * 7

YmwPlus(ymw, n) ==
    LET ym == YearMonthPlus(ymw, n) IN Ymw(ym.y, ym.m, ymw.wd, ymw.index)

LastWeekdayToDays(ym, wd) ==
    LET last == ToDays(YmdLast(ym))
    IN  last - WeekdayMinus(WeekdayFromDays(last), wd)

(***************************************************************************)
(* Durations in a coarser unit, and times of day.                          *)
(***************************************************************************)

DurationTrunc(d, unit) == Quotient(d, unit)
DurationFloor(d, unit) ==
    LET t == DurationTrunc(d, unit) IN IF t * unit > d THEN t - 1 ELSE t
DurationCeil(d, unit) ==
    LET t == DurationTrunc(d, unit) IN IF t * unit < d THEN t + 1 ELSE t

DurationRound(d, unit) ==
    LET t0 == DurationFloor(d, unit)
        diff0 == d - t0 * unit
        diff1 == (t0 + 1) * unit - d
    IN  IF diff0 < diff1 \/ (diff0 = diff1 /\ t0 % 2 = 0) THEN t0 ELSE t0 + 1

Magnitude(d) == IF d >= 0 THEN d ELSE -d

HhMmSs(d) ==
    [h |-> Magnitude(d) \div 3600, m |-> (Magnitude(d) % 3600) \div 60,
     s |-> Magnitude(d) % 60, neg |-> d < 0]

ToDuration(tod) ==
    (tod.s + 60 * tod.m + 3600 * tod.h) * (IF tod.neg THEN -1 ELSE 1)

InConventionalRange(tod) == ~tod.neg /\ tod.h < 24 /\ tod.m < 60 /\ tod.s < 60

IsAm(h) == h \in 0..11
Make12(h) == IF h < 12 THEN IF h = 0 THEN 12 ELSE h ELSE IF h # 12 THEN h - 12 ELSE h
Make24(h, pm) ==
    IF pm THEN IF h # 12 THEN h + 12 ELSE h ELSE IF h = 12 THEN 0 ELSE h
================================================================================
