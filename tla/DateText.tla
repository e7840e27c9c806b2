-------------------------------- MODULE DateText --------------------------------
(***************************************************************************)
(* to_stream and from_stream of date.hpp: an object is written under a     *)
(* format, the text may be changed in one place, and is read back under    *)
(* the same format.  The two loops over the format are those of the code,  *)
(* with its command and modified; a text is a sequence of numbers, names   *)
(* and other characters.  A number is written with at least as many digits *)
(* as are read, so two in a row stay apart (years have four digits).       *)
(*                                                                         *)
(* As built with ONLY_C_LOCALE: then names, %c, %x, %X and %r are code of  *)
(* date.hpp and not of the locale.  Durations are seconds.  Left out: a    *)
(* width between % and a letter, and a format that ends after a %.         *)
(***************************************************************************)
EXTENDS Dates, Sequences, SequencesExt

CONSTANTS
    Objects,   \* [kind, day, sec, offset]: what is written
    Formats    \* [kind, target, chars, first, last]: written from, read into, and
               \* the days of which it says all

TextAssumption ==
    \A o \in Objects : FromDays(o.day).y \in -9999..9999 /\ o.sec \in -359999..359999

VARIABLES
    object,    \* what is written, and the format
    format,
    phase,     \* "write", "read", or how it ended: "thrown", "failed", "done"
    at,        \* the next character of the format
    command, modified,
    negative,  \* insert_negative
    text,      \* what is written, or left to be read
    altered,   \* the text was changed
    parsed,    \* the locals of from_stream
    fds,       \* the fields that are written, then those that were read
    result     \* what was read

vars == <<object, format, phase, at, command, modified, negative, text, altered, parsed, fds,
          result>>

------------------------------------------------------------------------------
(* The fields of each type that can be written.                             *)

None == -99999   \* what no value is: the minimum of an int or a duration

NoYmd == Ymd(NanYear, 0, 0)
NoTod == HhMmSs(0)
Fields(ymd, wd, tod, has) == [ymd |-> ymd, wd |-> wd, tod |-> tod, has_tod |-> has]

\* A time point of sec seconds after a day: the cast to days truncates, and
\* below zero the day before is taken.
FieldsOfTime(day, sec) ==
    LET sd == IF day < 0 /\ sec > 0 THEN day + 1 ELSE day
        before == sd > day
    IN  Fields(FromDays(IF before THEN sd - 1 ELSE sd), 8,
               HhMmSs(IF before THEN 86400 - (86400 - sec) ELSE sec), TRUE)

FieldsOf(o) ==
    CASE o.kind \in {"time", "local"} -> FieldsOfTime(o.day, o.sec)
      [] o.kind = "date" -> Fields(FromDays(o.day), 8, NoTod, FALSE)
      [] o.kind = "duration" -> Fields(NoYmd, 8, HhMmSs(o.sec), TRUE)
      [] o.kind = "weekday" -> Fields(NoYmd, WeekdayFromDays(o.day), NoTod, FALSE)
      [] o.kind = "year_month" ->
            Fields([FromDays(o.day) EXCEPT !.d = 0], 8, NoTod, FALSE)

------------------------------------------------------------------------------
(* Writing: the value of each directive and the text of it.                 *)

\* A failure: neither a date nor a weekday, or two that disagree.
HasWeekday(f) ==
    IF YmdOk(f.ymd) THEN WeekdayOk(f.wd) => WeekdayOf(f.ymd) = f.wd ELSE WeekdayOk(f.wd)
ExtractWeekday(f) == IF YmdOk(f.ymd) THEN WeekdayOf(f.ymd) ELSE f.wd
ExtractMonth(f) == f.ymd.m

Remainder(n, d) == n - d * Quotient(n, d)

CenturyOf(y) == IF y >= 0 THEN y \div 100 ELSE -Quotient(-(y - 99), 100)
TwoDigits(y) == Magnitude(y) % 100
DayOfYear(ymd) == ToDays(ymd) - ToDays(Ymd(ymd.y, 1, 1)) + 1

\* The Monday of ISO week 1 of year y.
IsoStart(y) == LastWeekdayToDays(YearMonth(YearPlus(y, -1), 12), 4) + WeekdayMinus(1, 4)
IsoYear(ymd) ==
    LET y == FromDays(ToDays(ymd) + 3).y
    IN  IF ToDays(ymd) < IsoStart(y) THEN YearPlus(y, -1) ELSE y
IsoWeek(ymd) == Quotient(ToDays(ymd) - IsoStart(IsoYear(ymd)), 7) + 1

\* Weeks that begin with the weekday first, from its first one of the year on.
WeekStart(y, first) == YmwToDays(Ymw(y, 1, first, 1))
WeekNumber(ymd, first) ==
    LET st == WeekStart(ymd.y, first)
    IN  IF ToDays(ymd) < st THEN 0 ELSE (ToDays(ymd) - st) \div 7 + 1

Chr(c) == <<<<"c", c>>>>
Num(n) == <<<<"n", n>>>>
Name(list, n) == <<<<list, n>>>>
SignedNum(n) == IF n < 0 THEN Chr("-") \o Num(-n) ELSE Num(n)
Padded(n) == IF n < 10 THEN Chr(" ") \o Num(n) ELSE Num(n)

\* Filled with zeros from the left, of its sign too.
FilledInt(y) == IF y \in -99..-1 THEN Num(0) \o Chr("-") \o Num(-y) ELSE SignedNum(y)

Hms(h, m, s) == Num(h) \o Chr(":") \o Num(m) \o Chr(":") \o Num(s)
MonthDayYear(ymd) ==
    Num(ymd.m) \o Chr("/") \o Num(ymd.d) \o Chr("/") \o SignedNum(Remainder(ymd.y, 100))
TodText(tod) == (IF tod.neg THEN Chr("-") ELSE <<>>) \o Hms(tod.h, tod.m, tod.s)
AmPm(h) == Name("ampm", IF IsAm(h) THEN 0 ELSE 1)

WriteDateTime(f) ==
    Name("day", ExtractWeekday(f)) \o Chr(" ") \o Name("month", ExtractMonth(f)) \o Chr(" ")
    \o Padded(f.ymd.d) \o Chr(" ") \o TodText(f.tod) \o Chr(" ") \o SignedNum(f.ymd.y)
WriteIsoDate(f) ==
    FilledInt(f.ymd.y) \o Chr("-") \o Num(f.ymd.m) \o Chr("-") \o Num(f.ymd.d)
WriteDayOfYear(f) ==
    Num(IF YmdOk(f.ymd) THEN DayOfYear(f.ymd) ELSE Quotient(ToDuration(f.tod), 86400))
WriteTwelveHours(f) ==
    Hms(Make12(f.tod.h), f.tod.m, f.tod.s) \o Chr(" ") \o AmPm(f.tod.h)
WriteHoursMinutes(f) == Num(f.tod.h) \o Chr(":") \o Num(f.tod.m)
WriteOffset(o, colon) ==
    LET m == Magnitude(o.offset)
    IN  Chr(IF o.offset < 0 THEN "-" ELSE "+") \o Num(m \div 60)
        \o (IF colon THEN Chr(":") ELSE <<>>) \o Num(m % 60)

\* What a directive needs of the fields.
OfDate == {"c", "x", "D", "F", "g", "G", "U", "V", "W"}
OfTime == {"c", "H", "I", "M", "p", "Q", "q", "r", "R", "S", "T", "X"}
Writable(c, f, o) ==
    /\ c \in OfDate => YmdOk(f.ymd)
    /\ c \in OfTime => f.has_tod
    /\ c \in {"a", "A", "u", "w"} => HasWeekday(f)
    /\ c \in {"b", "B", "h", "m"} => MonthOk(f.ymd.m)
    /\ c \in {"C", "y", "Y"} => YearOk(f.ymd.y)
    /\ c \in {"d", "e"} => DayOk(f.ymd.d)
    /\ c = "j" => YmdOk(f.ymd) \/ f.has_tod
    /\ c \in {"z", "Z"} => o.offset # None

\* The modifiers with which to_stream writes a directive as it stands.
Unmodified == {"a", "A", "b", "B", "h", "D", "F", "g", "G", "j", "n", "p", "Q", "q", "r",
               "R", "t", "T", "Z"}
WriterRefuses(c) ==
    IF c \in Unmodified THEN {"E", "O"}
    ELSE IF c \in {"c", "x", "X", "C", "Y"} THEN {"O"}
    ELSE IF c \in {"y", "z"} THEN {} ELSE {"E"}

WriteClock(c, f) ==
    CASE c = "H" -> Num(f.tod.h)
      [] c = "I" -> Num(Make12(f.tod.h))
      [] c = "M" -> Num(f.tod.m)
      [] c = "S" -> Num(f.tod.s)

Directives == Unmodified \cup {"c", "x", "X", "C", "Y", "y", "z", "d", "e", "H", "I", "m", "M",
                               "S", "u", "U", "V", "w", "W"}

Written(c, f, o, colon) ==
    CASE c \in {"a", "A"} -> Name("day", ExtractWeekday(f))
      [] c \in {"b", "B", "h"} -> Name("month", ExtractMonth(f))
      [] c = "c" -> WriteDateTime(f)
      [] c \in {"x", "D"} -> MonthDayYear(f.ymd)
      [] c = "C" -> SignedNum(CenturyOf(f.ymd.y))
      [] c = "d" -> Num(f.ymd.d)
      [] c = "e" -> Padded(f.ymd.d)
      [] c = "F" -> WriteIsoDate(f)
      [] c = "g" -> Num(TwoDigits(IsoYear(f.ymd)))
      [] c = "G" -> SignedNum(IsoYear(f.ymd))
      [] c \in {"H", "I", "M", "S"} -> (IF negative THEN Chr("-") ELSE <<>>) \o WriteClock(c, f)
      [] c = "j" -> WriteDayOfYear(f)
      [] c = "m" -> Num(f.ymd.m)
      [] c \in {"n", "t"} -> Chr(" ")
      [] c = "p" -> AmPm(f.tod.h)
      [] c = "Q" -> SignedNum(ToDuration(f.tod))
      [] c = "q" -> Chr("s")
      [] c = "r" -> WriteTwelveHours(f)
      [] c = "R" -> WriteHoursMinutes(f)
      [] c \in {"T", "X"} -> TodText(f.tod)
      [] c = "u" -> Num(IsoEncoding(ExtractWeekday(f)))
      [] c = "w" -> Num(ExtractWeekday(f))
      [] c = "U" -> Num(WeekNumber(f.ymd, 0))
      [] c = "W" -> Num(WeekNumber(f.ymd, 1))
      [] c = "V" -> Num(IsoWeek(f.ymd))
      [] c = "y" -> Num(TwoDigits(f.ymd.y))
      [] c = "Y" -> SignedNum(f.ymd.y)
      [] c = "z" -> WriteOffset(o, colon)
      [] c = "Z" -> Name("zone", 0)

------------------------------------------------------------------------------
(* Reading: the locals of from_stream and what each directive reads.        *)

NotYear == NanYear
NotCentury == Quotient(NanYear, 100)
NotRead ==
    [Y |-> NotYear, y |-> 100, g |-> 100, G |-> NotYear, C |-> NotCentury, m |-> 0, d |-> 0,
     j |-> -1, wd |-> 8, H |-> None, I |-> 0, p |-> -1, M |-> None, s |-> None, U |-> 100,
     V |-> 100, W |-> 100, offset |-> None, abbrev |-> <<>>]

\* checked_set: a local is set once, and may only be read again the same.
CheckedSet(r, local, v) ==
    [r EXCEPT !.ok = @ /\ r.locals[local] \in {NotRead[local], v}, !.locals[local] = v]

Failed(r) == [r EXCEPT !.ok = FALSE]
Advance(r, n) == [r EXCEPT !.text = SubSeq(@, n + 1, Len(@))]
HeadIs(r, kind) == r.text # <<>> /\ Head(r.text)[1] = kind
HeadIsChar(r, c) == r.text # <<>> /\ Head(r.text) = <<"c", c>>

ReadChar(r, c) == IF HeadIsChar(r, c) THEN Advance(r, 1) ELSE Failed(r)
ReadToken(r, kind, local) ==
    IF HeadIs(r, kind) THEN CheckedSet(Advance(r, 1), local, Head(r.text)[2]) ELSE Failed(r)

HasSign(r) == HeadIsChar(r, "-") \/ HeadIsChar(r, "+")
ReadSigned(r, local) ==
    IF ~HasSign(r) THEN ReadToken(r, "n", local)
    ELSE IF ~HeadIs(Advance(r, 1), "n") THEN Failed(r)
    ELSE CheckedSet(Advance(r, 2), local,
                    IF HeadIsChar(r, "-") THEN -r.text[2][2] ELSE r.text[2][2])

Spaces(t) == CHOOSE n \in 0..Len(t) :
                 /\ \A i \in 1..n : t[i] = <<"c", " ">>
                 /\ n < Len(t) => t[n + 1] # <<"c", " ">>
SkipSpaces(r) == Advance(r, Spaces(r.text))

\* %z: hours and, when they follow, minutes; after a colon if modified.
ReadOffset(r, colon) ==
    LET signed == IF HasSign(r) THEN Advance(r, 1) ELSE r
        hours == Head(signed.text)[2]
        rest == Advance(signed, 1)
        minutes == IF colon /\ HeadIsChar(rest, ":") THEN Advance(rest, 1) ELSE rest
        sign == IF HeadIsChar(r, "-") THEN -1 ELSE 1
    IN  IF ~HeadIs(signed, "n") THEN Failed(r)
        ELSE IF HeadIs(minutes, "n") /\ (colon => minutes # rest)
        THEN CheckedSet(Advance(minutes, 1), "offset", sign * (60 * hours + Head(minutes.text)[2]))
        ELSE IF minutes # rest THEN Failed(r)
        ELSE CheckedSet(rest, "offset", sign * 60 * hours)

\* %Z: as far as the characters of a name go.
Separators == {<<"c", c>> : c \in {" ", ":", ",", "%"}}
ReadAbbreviation(r) ==
    LET n == CHOOSE n \in 0..Len(r.text) :
                 /\ \A i \in 1..n : r.text[i] \notin Separators
                 /\ n < Len(r.text) => r.text[n + 1] \in Separators
    IN  IF n = 0 THEN Failed(r) ELSE CheckedSet(Advance(r, n), "abbrev", SubSeq(r.text, 1, n))

Item(kind, local) == <<kind, local>>
Clock(hours) == <<Item("n", hours), Item("c", ":"), Item("n", "M"), Item("c", ":"), Item("n", "s")>>
SpaceItem == <<Item("space", "")>>

Items(c) ==
    CASE c \in {"a", "A"} -> <<Item("day", "wd")>>
      [] c \in {"u", "w"} -> <<Item("n", "wd")>>
      [] c \in {"b", "B", "h"} -> <<Item("month", "m")>>
      [] c = "c" -> <<Item("day", "wd")>> \o SpaceItem \o <<Item("month", "m")>> \o SpaceItem
                    \o <<Item("sign", "d")>> \o SpaceItem \o Clock("H") \o SpaceItem
                    \o <<Item("sign", "Y")>>
      [] c \in {"x", "D"} -> <<Item("n", "m"), Item("c", "/"), Item("n", "d"), Item("c", "/"),
                               Item("sign", "y")>>
      [] c \in {"X", "T"} -> Clock("H")
      [] c = "F" -> <<Item("sign", "Y"), Item("c", "-"), Item("n", "m"), Item("c", "-"),
                      Item("n", "d")>>
      [] c \in {"C", "d", "m", "I", "Y", "G"} -> <<Item("sign", c)>>
      [] c = "e" -> <<Item("sign", "d")>>
      [] c \in {"H", "j", "M", "y", "g", "U", "V", "W"} -> <<Item("n", c)>>
      [] c = "S" -> <<Item("n", "s")>>
      [] c = "n" -> <<Item("c", " ")>>
      [] c = "t" -> <<Item("tab", "")>>
      [] c = "p" -> <<Item("ampm", "p")>>
      [] c = "r" -> Clock("I") \o SpaceItem \o <<Item("ampm", "p")>>
      [] c = "R" -> <<Item("n", "H"), Item("c", ":"), Item("n", "M")>>
      [] c = "z" -> <<Item("offset", "")>>
      [] c = "Z" -> <<Item("zone", "")>>

ReadItem(r, item) ==
    CASE ~r.ok -> r
      [] r.ok /\ item[1] \in {"n", "day", "month", "ampm"} -> ReadToken(r, item[1], item[2])
      [] r.ok /\ item[1] = "sign" -> ReadSigned(r, item[2])
      [] r.ok /\ item[1] = "c" -> ReadChar(r, item[2])
      [] r.ok /\ item[1] = "space" -> SkipSpaces(r)
      [] r.ok /\ item[1] = "tab" -> IF HeadIsChar(r, " ") THEN Advance(r, 1) ELSE r
      [] r.ok /\ item[1] = "offset" -> ReadOffset(r, modified # "")
      [] r.ok /\ item[1] = "zone" -> ReadAbbreviation(r)

ReadItems(r, items) == FoldLeft(ReadItem, r, items)

\* The numbers that must lie in a range; day 7 of %u is Sunday.
InRange(c, n) ==
    /\ c = "u" => n \in 1..7
    /\ c = "w" => n \in 0..6
    /\ c = "I" => n \in 1..12
Ranged(r, c) ==
    IF c \notin {"u", "w", "I"} THEN r
    ELSE LET n == IF HeadIs(r, "n") THEN Head(r.text)[2] ELSE None
         IN  IF ~InRange(c, n) THEN Failed(r)
             ELSE IF c = "u" THEN [r EXCEPT !.text[1][2] = @ % 7] ELSE r

ReadDirective(r, c) == ReadItems(Ranged(r, c), Items(c))

\* The modifiers under which from_stream takes a directive for plain text.
ReaderRefuses(c) ==
    CASE c \in {"C", "y", "z"} -> {}
      [] c \in {"d", "e", "H", "m", "M", "S", "u", "w"} -> {"E"}
      [] c \in {"c", "x", "X", "Y"} -> {"O"}
      [] OTHER -> {"E", "O"}

------------------------------------------------------------------------------
(* After the format: the locals complete each other, or contradict.         *)

Broken(l) == [l EXCEPT !.ok = FALSE]
Require(l, condition) == IF condition THEN l ELSE Broken(l)

\* Two digits of a year and a century, which defaults to that of the full year
\* and then to 1969..2068.
FullYear(l, two, full) ==
    LET C == CASE l.C # NotCentury -> l.C
               [] l.C = NotCentury /\ l[full] # NotYear ->
                    Quotient(IF l[full] >= 0 THEN l[full] ELSE l[full] - 100, 100)
               [] l.C = NotCentury /\ l[full] = NotYear -> IF l[two] >= 69 THEN 19 ELSE 20
        y == IF C >= 0 THEN 100 * C + l[two]
             ELSE 100 * (C + 1) - (IF l[two] = 0 THEN 100 ELSE l[two])
    IN  IF l[two] = 100 THEN l
        ELSE Require([l EXCEPT !.C = C, ![full] = y],
                     l[two] \in 0..99 /\ l[full] \in {NotYear, y})

YearInRange(l) == [l EXCEPT !.Y = IF @ \in MinYear..MaxYear THEN @ ELSE NotYear]

\* A date that others imply: it sets what was not read, and must be the rest.
WithMonthDay(l, ymd) ==
    Require([l EXCEPT !.m = ymd.m, !.d = ymd.d], l.m \in {0, ymd.m} /\ l.d \in {0, ymd.d})
WithDate(l, ymd) ==
    Require([WithMonthDay(l, ymd) EXCEPT !.Y = ymd.y, !.computed = TRUE],
            l.Y \in {NotYear, ymd.y})

ByIsoWeek(l) ==
    IF l.G # NotYear /\ l.V # 100 /\ l.wd # 8
    THEN WithDate(l, FromDays(IsoStart(l.G) + 7 * (l.V - 1) + WeekdayMinus(l.wd, 1)))
    ELSE l
ByWeek(l, week, first) ==
    IF l.Y # NotYear /\ l[week] # 100 /\ l.wd # 8
    THEN WithDate(l, FromDays(WeekStart(l.Y, first) + 7 * (l[week] - 1)
                              + WeekdayMinus(l.wd, first)))
    ELSE l
ByDayOfYear(l) ==
    IF l.j # -1 /\ l.Y # NotYear
    THEN [WithMonthDay(l, FromDays(ToDays(Ymd(l.Y, 1, 1)) + l.j - 1)) EXCEPT !.j = -1]
    ELSE l

YmdOfLocals(l) == Ymd(l.Y, UnsignedChar(l.m), UnsignedChar(l.d))
WeekOf(ymd, first) == DurationFloor(ToDays(ymd) - WeekStart(ymd.y, first), 7) + 1

\* The weekday and, unless it gave the date, the week of the year.
OnItsDay(l) ==
    LET ymd == YmdOfLocals(l)
    IN  IF ~YmdOk(ymd) THEN l
        ELSE Require([l EXCEPT !.wd = WeekdayOf(ymd)],
                /\ l.wd \in {8, WeekdayOf(ymd)}
                /\ ~l.computed =>
                     /\ l.G # NotYear => l.G = IsoYear(ymd)
                     /\ l.V # 100 => l.V = IsoWeek(ymd)
                     /\ l.U # 100 => l.U = WeekOf(ymd, 0)
                     /\ l.W # 100 => l.W = WeekOf(ymd, 1))

\* (Fault: twelve o'clock is not special.)
HoursLikeOthers(l) ==
    IF l.I = 0 THEN l
    ELSE Require([l EXCEPT !.H = IF l.p = -1 THEN @ ELSE l.I + 12 * l.p],
                 /\ l.I \in 1..12
                 /\ IF l.p # -1 THEN l.H \in {None, l.I + 12 * l.p}
                    ELSE l.H \in {l.I, l.I + 12})

\* Hours of 1..12 and the half of the day: both give the hour, and hours of
\* 1..12 alone only confirm it.
Hours(l) ==
    LET h == l.I + 12 * (IF l.I = 12 THEN l.p - 1 ELSE l.p)
    IN  IF l.I = 0 THEN l
        ELSE Require([l EXCEPT !.H = IF l.p = -1 THEN @ ELSE h],
                /\ l.I \in 1..12
                /\ l.p # -1 => l.H \in {None, h}
                /\ l.p = -1 => l.H \in (IF l.I = 12 THEN {0, 12} ELSE {l.I, l.I + 12}))

Completed(locals) ==
    LET l0 == locals @@ [ok |-> TRUE, computed |-> FALSE]
        l1 == YearInRange(FullYear(FullYear(l0, "y", "Y"), "g", "G"))
        l2 == ByDayOfYear(ByWeek(ByWeek(ByIsoWeek(l1), "U", 0), "W", 1))
    IN  Hours(OnItsDay(l2))

\* What of the locals becomes the fields; a day of no year counts its hours.
FieldsRead(l, has) ==
    LET Or0(n) == IF n = None THEN 0 ELSE n
    IN  Fields(YmdOfLocals(l), l.wd,
               [h |-> Or0(l.H) + (IF l.j = -1 THEN 0 ELSE 24 * l.j), m |-> Or0(l.M),
                s |-> Or0(l.s), neg |-> FALSE],
               has \/ l.H # None \/ l.M # None \/ l.s # None \/ l.j # -1)

\* The type that is read into.
IsTime(target) == target \in {"time", "local"}
Readable(target, f) ==
    CASE IsTime(target) -> YmdOk(f.ymd) /\ InConventionalRange(f.tod)
      [] target = "date" -> YmdOk(f.ymd)
      [] target = "duration" -> f.has_tod
      [] target = "weekday" -> WeekdayOk(f.wd)
      [] target = "year_month" -> MonthOk(f.ymd.m)

ObjectRead(target, f, offset) ==
    LET sec == ToDuration(f.tod)
               - (IF target = "time" /\ offset # None THEN 60 * offset ELSE 0)
    IN  CASE IsTime(target) -> <<ToDays(f.ymd) + sec \div 86400, sec % 86400>>
          [] target = "date" -> <<ToDays(f.ymd)>>
          [] target = "duration" -> <<sec>>
          [] target = "weekday" -> <<f.wd>>
          [] target = "year_month" -> <<f.ymd.y, f.ymd.m>>

------------------------------------------------------------------------------
(* The two loops over the format.                                           *)

Init ==
    /\ object \in Objects
    /\ format \in {f \in Formats : f.kind = object.kind}
    /\ phase = "write"
    /\ at = 1
    /\ command = FALSE
    /\ modified = ""
    /\ negative = (FieldsOf(object).has_tod /\ ToDuration(FieldsOf(object).tod) < 0)
    /\ text = <<>>
    /\ altered = FALSE
    /\ parsed = NotRead
    /\ fds = FieldsOf(object)
    /\ result = <<>>

Char == format.chars[at]
Scanning(p) == phase = p /\ at <= Len(format.chars)
EndCommand == command' = FALSE /\ modified' = ""

Modifies == command /\ Char \in {"E", "O"} /\ modified = ""
IsDirective(known, refused) == command /\ Char \in known /\ modified \notin refused
\* Plain text, and the command with it when it is none.
Plain ==
    IF ~command \/ (Char = "%" /\ modified = "") THEN <<Char>>
    ELSE IF modified = "" THEN <<"%", Char>> ELSE <<"%", modified, Char>>
IsPlain(known, refused) ==
    /\ ~(~command /\ Char = "%") /\ ~Modifies /\ ~IsDirective(known, refused)

\* % or a modifier, the same in both loops.
Scan ==
    /\ Scanning("write") \/ Scanning("read")
    /\ \/ ~command /\ Char = "%" /\ command' = TRUE /\ UNCHANGED modified
       \/ Modifies /\ modified' = Char /\ UNCHANGED command
    /\ at' = at + 1
    /\ UNCHANGED <<object, format, phase, negative, text, altered, parsed, fds, result>>

WriteDirective ==
    /\ Scanning("write")
    /\ IsDirective(Directives, WriterRefuses(Char))
    /\ IF Writable(Char, fds, object)
       THEN /\ text' = text \o Written(Char, fds, object, modified # "")
            /\ UNCHANGED phase
       ELSE phase' = "thrown" /\ UNCHANGED text
    /\ negative' = (negative /\ Char \notin {"H", "I", "M", "S"})
    /\ at' = at + 1
    /\ EndCommand
    /\ UNCHANGED <<object, format, altered, parsed, fds, result>>

\* %w asks for the weekday before it looks at its modifier.
FailsUnwritten == command /\ Char = "w" /\ ~HasWeekday(fds)

WritePlain ==
    /\ Scanning("write")
    /\ IsPlain(Directives, WriterRefuses(Char))
    /\ IF FailsUnwritten
       THEN phase' = "thrown" /\ UNCHANGED text
       ELSE /\ text' = text \o [i \in DOMAIN Plain |-> <<"c", Plain[i]>>]
            /\ UNCHANGED phase
    /\ at' = at + 1
    /\ EndCommand
    /\ UNCHANGED <<object, format, negative, altered, parsed, fds, result>>

\* The text is handed over, as it is, with one number or name next to what it
\* was, or cut short.
Alterations ==
    LET Values == [n |-> 0..9999, day |-> 0..6, month |-> 1..12, ampm |-> 0..1]
        Beside(t) == IF t[1] \in DOMAIN Values
                     THEN {t[2] - 1, t[2] + 1} \cap Values[t[1]] ELSE {}
    IN  {SubSeq(text, 1, n) : n \in 0..(Len(text) - 1)}
        \cup UNION {{[text EXCEPT ![i][2] = k] : k \in Beside(text[i])} : i \in DOMAIN text}

HandOver ==
    /\ phase = "write"
    /\ at > Len(format.chars)
    /\ phase' = "read"
    /\ at' = 1
    /\ EndCommand
    /\ \/ text' = text /\ altered' = FALSE
       \/ text' \in Alterations /\ altered' = TRUE
    /\ UNCHANGED <<object, format, negative, parsed, fds, result>>

Continue(r) ==
    /\ text' = r.text
    /\ parsed' = r.locals
    /\ phase' = IF r.ok THEN "read" ELSE "failed"
    /\ at' = at + 1
    /\ UNCHANGED <<object, format, negative, altered, fds, result>>

Reading == [ok |-> TRUE, text |-> text, locals |-> parsed]
KnownToReader == Directives \ {"Q", "q"}

\* %t at the end of the text leaves the command unfinished.
ReadOne ==
    /\ Scanning("read")
    /\ IsDirective(KnownToReader, ReaderRefuses(Char))
    /\ Continue(ReadDirective(Reading, Char))
    /\ IF Char = "t" /\ text = <<>> THEN UNCHANGED <<command, modified>> ELSE EndCommand

ReadPlain ==
    /\ Scanning("read")
    /\ IsPlain(KnownToReader, ReaderRefuses(Char))
    /\ Continue(IF Plain = <<" ">> THEN SkipSpaces(Reading)
                ELSE ReadItems(Reading, [i \in DOMAIN Plain |-> Item("c", Plain[i])]))
    /\ EndCommand

Finish ==
    /\ phase = "read"
    /\ at > Len(format.chars)
    /\ LET l == Completed(parsed)
           f == FieldsRead(l, IsTime(format.target))
       IN  IF l.ok /\ Readable(format.target, f)
           THEN /\ phase' = "done"
                /\ fds' = f
                /\ result' = ObjectRead(format.target, f, parsed.offset)
           ELSE phase' = "failed" /\ UNCHANGED <<fds, result>>
    /\ UNCHANGED <<object, format, at, command, modified, negative, text, altered, parsed>>

Next == Scan \/ WriteDirective \/ WritePlain \/ HandOver \/ ReadOne \/ ReadPlain \/ Finish

Spec == Init /\ [][Next]_vars

------------------------------------------------------------------------------
(* Properties.                                                              *)

TypeOK ==
    /\ object \in Objects /\ format \in Formats
    /\ phase \in {"write", "read", "thrown", "failed", "done"}
    /\ at \in 1..(Len(format.chars) + 1)
    /\ command \in BOOLEAN /\ modified \in {"", "E", "O"}
    /\ negative \in BOOLEAN /\ altered \in BOOLEAN
    /\ \A i \in DOMAIN text :
        text[i][1] = "c" \/ (text[i][1] \in {"n", "day", "month", "ampm", "zone"} /\ text[i][2] \in Nat)
    /\ DOMAIN parsed = DOMAIN NotRead

\* What a correct reader returns for an object, as the type it is read into.
Expected ==
    LET utc == object.sec - 60 * (IF object.offset = None THEN 0 ELSE object.offset)
    IN  CASE format.target = "local" -> <<object.day, object.sec>>
          [] format.target = "time" -> <<object.day + utc \div 86400, utc % 86400>>
          [] format.target = "date" -> <<object.day>>
          [] format.target = "duration" -> <<object.sec>>
          [] format.target = "weekday" -> <<WeekdayFromDays(object.day)>>
          [] format.target = "year_month" ->
                <<FromDays(object.day).y, FromDays(object.day).m>>

\* What is written under a format that says it all is read back the same:
\* to_stream and from_stream take every directive, modifier, sign, space and
\* two-digit year of it alike, and the local completes to the same object.
ReadBack ==
    object.day \in format.first..format.last /\ ~altered =>
        /\ phase \notin {"thrown", "failed"}
        /\ phase = "done" => result = Expected

\* What contradicts the object and is read all the same: a century without the
\* years of it, a day past the end of the year, the half of the day without an
\* hour of 1..12, an ISO week that the year has not, an ISO year or week
\* beside a week that gave the date.
Unchecked ==
    LET l == parsed
        byWeek == l.wd # 8 /\ (l.U # 100 \/ l.W # 100)
    IN  (IF l.y = 100 /\ l.g = 100 THEN {"C"} ELSE {})
        \cup (IF l.j \notin 1..DayOfYear(Ymd(l.Y, 12, 31)) THEN {"j"} ELSE {})
        \cup (IF l.I = 0 THEN {"p"} ELSE {})
        \cup (IF byWeek \/ l.V \notin 1..52 THEN {"G", "V", "g"} ELSE {})

Says(local, value) == parsed[local] \notin {NotRead[local], value} => local \in Unchecked

\* A text that is read says nothing else than the object that it is read as:
\* each number and name of it, those that from_stream only checks too, is that
\* of the object, except where the code checks nothing.
ReadIsTrue ==
    phase = "done" =>
        /\ format.target \in {"time", "local", "date"} =>
            LET ymd == fds.ymd
            IN  /\ Says("Y", ymd.y) /\ Says("y", TwoDigits(ymd.y)) /\ Says("C", CenturyOf(ymd.y))
                /\ Says("m", ymd.m) /\ Says("d", ymd.d) /\ Says("wd", WeekdayOf(ymd))
                /\ Says("j", DayOfYear(ymd))
                /\ Says("G", IsoYear(ymd)) /\ Says("g", TwoDigits(IsoYear(ymd)))
                /\ Says("V", IsoWeek(ymd))
                /\ Says("U", WeekNumber(ymd, 0)) /\ Says("W", WeekNumber(ymd, 1))
        /\ format.target \in {"time", "local"} =>
            /\ Says("H", fds.tod.h) /\ Says("M", fds.tod.m) /\ Says("s", fds.tod.s)
            /\ Says("I", Make12(fds.tod.h)) /\ Says("p", IF IsAm(fds.tod.h) THEN 0 ELSE 1)

TextTrue == ReadBack /\ ReadIsTrue
================================================================================
