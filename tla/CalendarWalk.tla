------------------------------ MODULE CalendarWalk ------------------------------
(***************************************************************************)
(* A walk through the calendar, one day at a time, against which the       *)
(* conversions of date.hpp are checked: the walk knows only how long each  *)
(* month is, the code computes eras of 400 years.  At any day a            *)
(* year_month_day may be taken and moved by months and years, to the end   *)
(* of its month, or through sys_days and back.                             *)
(***************************************************************************)
EXTENDS Dates, FiniteSets

CONSTANTS
    Anchors,     \* [z, y, m, d, wd]: days whose date and weekday are known
    WalkLength,  \* days walked from an anchor, in either direction
    Shifts,      \* numbers of months that are added
    MaxMoves,    \* moves of the object at most
    Units        \* coarser units to which a number of days is rounded

CalendarAssumption ==
    /\ DatesAssumption
    /\ \A a \in Anchors : a.m \in 1..12 /\ a.d \in 1..28 /\ a.wd \in 0..6
    /\ WalkLength \in Nat /\ MaxMoves \in Nat /\ Units \subseteq Nat \ {0, 1}
    \* No year leaves the range of a short.
    /\ WalkLength <= 10000000 /\ MaxMoves <= 20 /\ Shifts \subseteq -100..100

VARIABLES
    z,       \* sys_days
    civil,   \* the date of the walk
    dow,     \* its weekday
    walked,  \* days from the anchor
    ymd,     \* the object
    moves,   \* how often it was moved, -1 when there is none
    count,   \* where it should be: months since year 0,
    day,     \*   and a day of that month, 32 and more never
    from     \* the year_month it was taken with

vars == <<z, civil, dow, walked, ymd, moves, count, day, from>>

------------------------------------------------------------------------------
\* What everyone knows of the calendar.
LeapYear(y) == y % 400 = 0 \/ (y % 4 = 0 /\ y % 100 # 0)
MonthLength(y, m) ==
    IF m = 2 THEN IF LeapYear(y) THEN 29 ELSE 28
    ELSE IF m \in {4, 6, 9, 11} THEN 30 ELSE 31

DayAfter(c) ==
    IF c.d < MonthLength(c.y, c.m) THEN [c EXCEPT !.d = @ + 1]
    ELSE IF c.m < 12 THEN Ymd(c.y, c.m + 1, 1) ELSE Ymd(c.y + 1, 1, 1)

DayBefore(c) ==
    IF c.d > 1 THEN [c EXCEPT !.d = @ - 1]
    ELSE IF c.m > 1 THEN Ymd(c.y, c.m - 1, MonthLength(c.y, c.m - 1))
    ELSE Ymd(c.y - 1, 12, 31)

------------------------------------------------------------------------------
Init ==
    /\ \E a \in Anchors :
          /\ z = a.z /\ civil = Ymd(a.y, a.m, a.d) /\ dow = a.wd
          /\ from = YearMonth(a.y, a.m)
    /\ ymd = civil
    /\ walked = 0 /\ moves = -1 /\ count = 0 /\ day = 0

Tomorrow ==
    /\ moves = -1
    /\ walked \in 0..WalkLength - 1
    /\ z' = z + 1 /\ civil' = DayAfter(civil) /\ dow' = (dow + 1) % 7
    /\ walked' = walked + 1
    /\ UNCHANGED <<ymd, moves, count, day, from>>

Yesterday ==
    /\ moves = -1
    /\ walked \in -WalkLength + 1..0
    /\ z' = z - 1 /\ civil' = DayBefore(civil) /\ dow' = (dow + 6) % 7
    /\ walked' = walked - 1
    /\ UNCHANGED <<ymd, moves, count, day, from>>

Take ==
    /\ moves = -1
    /\ ymd' = FromDays(z)
    /\ moves' = 0 /\ from' = YearMonth(civil.y, civil.m)
    /\ count' = 12 * civil.y + civil.m - 1 /\ day' = civil.d
    /\ UNCHANGED <<z, civil, dow, walked>>

Move(newYmd, newCount, newDay) ==
    /\ moves \in 0..MaxMoves - 1
    /\ ymd' = newYmd /\ count' = newCount /\ day' = newDay
    /\ moves' = moves + 1
    /\ UNCHANGED <<z, civil, dow, walked, from>>

Year == count \div 12
Month == (count % 12) + 1
Length == MonthLength(Year, Month)

\* ymd += months{n}
AddMonths == \E n \in Shifts : Move(YmdPlus(ymd, n), count + n, day)

\* ymd += years{n}
AddYears == \E n \in Shifts : Move(YmdPlusYears(ymd, n), count + 12 * n, day)

\* ymd = ymd.year() / ymd.month() / last
ToLast == Move(YmdLast(ymd), count, Length)

\* ymd = year_month_day{sys_days{ymd}}: a day that is not of the month
\* becomes one of the next.
ThroughDays ==
    Move(FromDays(ToDays(ymd)), IF day > Length THEN count + 1 ELSE count,
         IF day > Length THEN day - Length ELSE day)

Next == Tomorrow \/ Yesterday \/ Take \/ AddMonths \/ AddYears \/ ToLast \/ ThroughDays

Spec == Init /\ [][Next]_vars

------------------------------------------------------------------------------
\* The types hold, and the walk stays in its bounds.
TypeOK ==
    /\ civil.m \in 1..12 /\ civil.d \in 1..MonthLength(civil.y, civil.m)
    /\ dow \in 0..6 /\ walked \in -WalkLength..WalkLength
    /\ moves \in -1..MaxMoves
    /\ ymd.m \in 1..12 /\ ymd.d \in 1..31

\* How often the weekday of the walk has come this month, today included.
Occurrence == Cardinality({k \in 1..civil.d : (civil.d - k) % 7 = 0})
WeekLeft == civil.d + 7 <= MonthLength(civil.y, civil.m)

\* Every conversion agrees with the walk: days to date and back, the weekday,
\* the n-th weekday of the month and its last, whether there is a fifth, the
\* days that a month can have, and the order of dates (from_days, to_days,
\* weekday_from_days, ok).
ConversionsTrue ==
    /\ FromDays(z) = civil /\ ToDays(civil) = z /\ YmdOk(civil)
    /\ WeekdayFromDays(z) = dow
    /\ YmdLess(civil, DayAfter(civil)) /\ ~YmdLess(DayAfter(civil), civil)
    /\ ToDays(DayAfter(civil)) = z + 1
    /\ DayAfter(civil).d \in {1, DayPlus(civil.d, 1)}
    /\ \A d \in 0..32 : MonthDayOk(civil.m, d) <=> d \in 1..MonthLength(2000, civil.m)
    /\ LET nth == Ymw(civil.y, civil.m, dow, Occurrence)
       IN  /\ YmwFromDays(z) = nth /\ YmwToDays(nth) = z /\ YmwOk(nth)
           /\ YmwOk([nth EXCEPT !.index = @ + 1]) <=> (WeekLeft \/ nth.index < 4)
           /\ LastWeekdayToDays(nth, dow) = z <=> ~WeekLeft
           /\ \A n \in Shifts : YmwPlus(YmwPlus(nth, n), -n) = nth

\* A year_month_day that is moved is where the count of months says, keeps its
\* day even when the month has none such, is ok() exactly when it has, and the
\* difference of two months undoes the sum.
MovesTrue ==
    moves >= 0 =>
        /\ ymd = Ymd(Year, Month, day)
        /\ YmdOk(ymd) <=> day <= Length
        /\ YearMonthMinus(ymd, from) = 12 * ymd.y + ymd.m - 12 * from.y - from.m
        /\ YearMonthPlus(from, YearMonthMinus(ymd, from)) = YearMonth(ymd.y, ymd.m)
        /\ MonthPlus(from.m, MonthMinus(ymd.m, from.m)) = ymd.m

\* A number of days rounded to a unit is the nearest below, above, or on either
\* side, the even one of two; a weekday plus a difference is the other weekday;
\* an hour survives the twelve-hour clock.
RoundingTrue ==
    /\ \A u \in Units :
          /\ DurationFloor(z, u) = z \div u
          /\ DurationCeil(z, u) = -((-z) \div u)
          /\ LET r == DurationRound(z, u)
             IN  \A q \in {z \div u, z \div u + 1} :
                   \/ Magnitude(z - r * u) < Magnitude(z - q * u)
                   \/ r = q
                   \/ (Magnitude(z - r * u) = Magnitude(z - q * u) /\ r % 2 = 0)
    /\ \A wd \in 0..6 : WeekdayPlus(wd, WeekdayMinus(dow, wd)) = dow
                        /\ WeekdayPlus(dow, z) = (dow + z) % 7
    /\ LET h == z % 24 IN Make24(Make12(h), ~IsAm(h)) = h

CalendarTrue == ConversionsTrue /\ MovesTrue /\ RoundingTrue

================================================================================
