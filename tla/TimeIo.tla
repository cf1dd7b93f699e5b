------------------------------- MODULE TimeIo -------------------------------
(***************************************************************************)
(* The time facet: put() writes a date, a time or both by a format, and    *)
(* get() reads fields into a context that a hint may have filled, from     *)
(* which a value is deduced.                                               *)
(*                                                                         *)
(* A format is a sequence of specifiers and literal characters; a text is  *)
(* one of characters, in which a name is one.  The time zone database is   *)
(* Zones; an offset is in whole minutes.  Not modelled: years that are not *)
(* positive or exceed 9999, spellings of an offset that put() does not     *)
(* use, and a format that ends in the middle of a specifier.               *)
(***************************************************************************)
EXTENDS Calendar, Sequences, SequencesExt

CONSTANTS
    Confs,    (* the locales, records by name: days and months, sequences of *)
              (* pairs of a full and a short name; am and pm; alt, names of  *)
              (* numbers; eras; subs, the formats that compounds stand for   *)
    Zones,    (* of records by name: before, the offset before the instant   *)
              (* change, and after, the one from there on                    *)
    Abbrevs,  (* names of no zone, or of some offset of one                  *)
    Values,   (* of records: kind, day, minute, second, offset, zone         *)
    Formats,  (* sequences of records: mod, spec                             *)
    Hints,    (* some of Values, which a context may be filled with         *)
    ThisYear

Kinds == {"date", "time", "local", "sys", "tm", "zoned"}

TimeAssumption ==
    /\ \A v \in Values : v.kind \in Kinds /\ (v.kind = "zoned" => v.zone \in DOMAIN Zones)
    /\ ThisYear \in Nat /\ "UTC" \in DOMAIN Zones

VARIABLES
    conf,   (* the locale                                                   *)
    tier,   (* what the context can hold: some of date, time, offset, zone  *)
    format,
    value,  (* the one that was put                                         *)
    text,   (* what it was written as                                       *)
    hint,   (* what the context is filled with, <<>> if with nothing        *)
    result  (* what get() and convert_to() make of it, <<>> if not called   *)

Loc == Confs[conf]

vars == <<conf, tier, format, value, text, hint, result>>
-----------------------------------------------------------------------------
(* The offset of a zone at an instant, in minutes since 1970. *)
Offset(zone, at) == IF at < Zones[zone].change THEN Zones[zone].before ELSE Zones[zone].after
-----------------------------------------------------------------------------
(* Eras, which may run backwards.                                          *)
NotAfter(a, b) ==
    \/ a[1] < b[1]
    \/ a[1] = b[1] /\ (a[2] < b[2] \/ (a[2] = b[2] /\ a[3] <= b[3]))
Between(a, date, b) == NotAfter(a, date) /\ NotAfter(date, b)
InEra(era, date) == Between(era.from, date, era.to) \/ Between(era.to, date, era.from)

(* get_era_entry() *)
EraOf(date) == SelectSeq(Loc.eras, LAMBDA era : InEra(era, date))
-----------------------------------------------------------------------------
(* The compounds, which stand for a format of the locale or of their own.  *)
I(spec) == [mod |-> "", spec |-> spec]
L(char) == [mod |-> "lit", spec |-> char]

Stands(item) ==
    CASE item.spec = "D" -> <<I("m"), L("/"), I("d"), L("/"), I("y")>>
      [] item.spec = "F" -> <<I("Y"), L("-"), I("m"), L("-"), I("d")>>
      [] item.spec = "T" -> <<I("H"), L(":"), I("M"), L(":"), I("S")>>
      [] item.spec = "R" -> <<I("H"), L(":"), I("M")>>
      [] OTHER -> Loc.subs[item.mod \o item.spec]

Needs(item) ==
    CASE item.spec = "c" -> {"date", "time"}
      [] item.spec \in {"D", "F", "x"} -> {"date"}
      [] OTHER -> {"time"}

Compound(item, has) ==
    /\ item.mod # "lit" /\ item.spec \in {"c", "x", "X", "r", "D", "F", "T", "R"}
    /\ Needs(item) \subseteq has
    /\ IF item.spec \in {"c", "x", "X"} THEN item.mod # "O" ELSE item.mod = ""

Opened(f, has) ==
    FlattenSeq([i \in DOMAIN f |-> IF Compound(f[i], has) THEN Stands(f[i]) ELSE <<f[i]>>])

(* The formats of a locale stand for each other without a circle.          *)
Expanded(f, has) == Opened(Opened(Opened(f, has), has), has)
-----------------------------------------------------------------------------
(* put(): what a value of each kind carries.                               *)
Has(kind) ==
    CASE kind = "date" -> {"date"}
      [] kind = "time" -> {"time"}
      [] kind = "local" -> {"date", "time", "offset"}
      [] OTHER -> {"date", "time", "offset", "zone"}

(* The specifiers that do_put() does not write as they are.                *)
Supplies(has, item) ==
    CASE item.spec \in {"a", "A", "b", "B", "g", "G", "h", "j"} -> "date" \in has /\ item.mod = ""
      [] item.spec \in {"C", "Y"} -> "date" \in has /\ item.mod # "O"
      [] item.spec \in {"d", "e", "m", "u", "U", "V", "w", "W"} -> "date" \in has /\ item.mod # "E"
      [] item.spec = "y" -> "date" \in has
      [] item.spec = "p" -> "time" \in has /\ item.mod = ""
      [] item.spec \in {"H", "I", "M", "S"} -> "time" \in has /\ item.mod # "E"
      [] item.spec = "z" -> "offset" \in has /\ item.mod = ""
      [] item.spec = "Z" -> "zone" \in has /\ item.mod = ""
      [] item.spec \in {"%", "n", "t"} -> item.mod = ""
      [] OTHER -> FALSE

IsEY(item) == item = [mod |-> "E", spec |-> "Y"]
Verbatim(item) == <<"%">> \o (IF item.mod = "" THEN <<>> ELSE <<item.mod>>) \o <<item.spec>>

(* put_dec() *)
Figures == <<"0", "1", "2", "3", "4", "5", "6", "7", "8", "9">>
Decimal(n, width) == [i \in 1..width |-> Figures[((n \div 10 ^ (width - i)) % 10) + 1]]
Padded(n) == IF n < 10 THEN <<" ", Figures[n + 1]>> ELSE Decimal(n, 2)
Bare(n) == Decimal(n, IF n < 10 THEN 1 ELSE IF n < 100 THEN 2 ELSE IF n < 1000 THEN 3 ELSE 4)

(* The range of a number and how many digits it takes. *)
Ranges ==
    [C |-> <<0, 99, 2>>, d |-> <<1, 31, 2>>, e |-> <<1, 31, 2>>, g |-> <<0, 99, 2>>,
     G |-> <<0, 9999, 4>>, H |-> <<0, 23, 2>>, I |-> <<1, 12, 2>>, j |-> <<1, 366, 3>>,
     m |-> <<1, 12, 2>>, M |-> <<0, 59, 2>>, S |-> <<0, 59, 2>>, u |-> <<1, 7, 1>>,
     U |-> <<0, 53, 2>>, V |-> <<1, 53, 2>>, w |-> <<0, 6, 1>>, W |-> <<0, 53, 2>>,
     y |-> <<0, 99, 2>>, Y |-> <<0, 9999, 4>>]

(* The week of a year: of its Thursday. *)
Thursday(day) == day + 4 - Iso(Weekday(day))
IsoYear(day) == YearOf(Thursday(day))
IsoWeek(day) == (Thursday(day) - YearStart(IsoYear(day))) \div 7 + 1

WeekNumber(day, wday) == (day - YearStart(YearOf(day)) - wday + 7) \div 7

Number(spec, v) ==
    CASE spec \in {"d", "e"} -> DateOf(v.day)[3]
      [] spec = "m" -> DateOf(v.day)[2]
      [] spec = "Y" -> YearOf(v.day)
      [] spec = "y" -> YearOf(v.day) % 100
      [] spec = "C" -> YearOf(v.day) \div 100
      [] spec = "j" -> v.day - YearStart(YearOf(v.day)) + 1
      [] spec = "u" -> Iso(Weekday(v.day))
      [] spec = "w" -> Weekday(v.day)
      [] spec = "U" -> WeekNumber(v.day, Weekday(v.day))
      [] spec = "W" -> WeekNumber(v.day, (Weekday(v.day) + 6) % 7)
      [] spec = "V" -> IsoWeek(v.day)
      [] spec = "G" -> IsoYear(v.day)
      [] spec = "g" -> IsoYear(v.day) % 100
      [] spec = "H" -> v.minute \div 60
      [] spec = "I" -> ((v.minute \div 60 + 11) % 12) + 1
      [] spec = "M" -> v.minute % 60
      [] spec = "S" -> v.second

Numeral(item, n) ==
    IF item.mod = "O" /\ n + 1 \in DOMAIN Loc.alt THEN <<Loc.alt[n + 1]>>
    ELSE IF item.spec = "e" THEN Padded(n) ELSE Decimal(n, Ranges[item.spec][3])

Named(name) == IF name = "" THEN <<>> ELSE <<name>>

ZoneText(v) ==
    IF v.kind = "sys" THEN "UTC" ELSE IF v.kind = "tm" /\ v.zone = "" THEN "UNKNOWN" ELSE v.zone

OffsetText(minutes) ==
    LET far == IF minutes < 0 THEN -minutes ELSE minutes
    IN <<IF minutes < 0 THEN "-" ELSE "+">> \o Decimal(100 * (far \div 60) + (far % 60), 4)

(* An era counts its years from the one it begins in. *)
EraYear(era, y) == era.offset + (y - era.from[1]) * era.dir

PutSpec(item, v, eras) ==
    CASE item.spec = "A" -> <<Loc.days[Weekday(v.day) + 1][1]>>
      [] item.spec = "a" -> <<Loc.days[Weekday(v.day) + 1][2]>>
      [] item.spec = "B" -> <<Loc.months[DateOf(v.day)[2]][1]>>
      [] item.spec \in {"b", "h"} -> <<Loc.months[DateOf(v.day)[2]][2]>>
      [] item.spec = "p" -> Named(IF v.minute >= 720 THEN Loc.pm ELSE Loc.am)
      [] item.spec = "z" -> OffsetText(v.offset)
      [] item.spec = "Z" -> <<ZoneText(v)>>
      [] item.spec = "%" -> <<"%">>
      [] item.spec \in {"n", "t"} -> <<"blank">>
      [] item.spec = "C" /\ item.mod = "E" /\ eras # <<>> -> <<eras[1].name>>
      [] item.spec = "y" /\ item.mod = "E" /\ eras # <<>> -> Bare(EraYear(eras[1], YearOf(v.day)))
      [] OTHER -> Numeral(item, Number(item.spec, v))

PutOne(item, v, eras) ==
    IF item.mod = "lit" THEN <<item.spec>>
    ELSE IF Supplies(Has(v.kind), item) THEN PutSpec(item, v, eras) ELSE Verbatim(item)

PutItem(item, v, eras) ==
    IF IsEY(item) /\ "date" \in Has(v.kind) /\ eras # <<>>
    THEN FlattenSeq([i \in DOMAIN eras[1].format |-> PutOne(eras[1].format[i], v, eras)])
    ELSE PutOne(item, v, eras)

Written(f, v) ==
    LET by(items, eras) == FlattenSeq([i \in DOMAIN items |-> PutItem(items[i], v, eras)])
    IN by(Expanded(f, Has(v.kind)), IF "date" \in Has(v.kind) THEN EraOf(DateOf(v.day)) ELSE <<>>)
-----------------------------------------------------------------------------
(* get(): what it takes from the text at a place, a number or a name.      *)
Took(at, n) == [ok |-> TRUE, at |-> at, n |-> n]
TookNone == [ok |-> FALSE, at |-> 0, n |-> 0]

IsFigure(c) == \E i \in DOMAIN Figures : Figures[i] = c
Blank(c) == c \in {" ", "blank"}

(* How many characters from `at` on are of a class, up to a width. *)
Run(Is(_), at, width) ==
    Max({k \in 0..width : at + k <= Len(text) /\ \A i \in 1..k : Is(text[at + i])})
NumberIn(digits) ==
    FoldLeft(LAMBDA n, c : 10 * n + (CHOOSE i \in DOMAIN Figures : Figures[i] = c) - 1, 0, digits)

(* scan_int_field(): what exceeds the range fails wherever it stops. *)
ScanInt(at, range) ==
    LET is(k, n) == IF k > 0 /\ n \in range[1]..range[2] THEN Took(at + k, n) ELSE TookNone
        of(k) == is(k, NumberIn(SubSeq(text, at + 1, at + k)))
    IN of(Run(IsFigure, at, range[3]))

(* scan_int_field_alt() *)
ScanAlt(at, range) ==
    LET named(n) == IF n \in range[1]..range[2] THEN Took(at + 1, n) ELSE TookNone
    IN IF at < Len(text) /\ Contains(Loc.alt, text[at + 1])
       THEN named(SelectInSeq(Loc.alt, LAMBDA name : name = text[at + 1]) - 1)
       ELSE ScanInt(at, range)

Look(at, names) ==
    LET of(i) == IF i > 0 THEN Took(at + 1, i - 1) ELSE TookNone
    IN of(SelectInSeq(names, LAMBDA pair : text[at + 1] \in ToSet(pair)))

(* A sign and two digits, or four. *)
LookOffset(at) ==
    LET is(k, n) == IF (k = 2 \/ k = 4) /\ n \div 100 < 24 /\ n % 100 < 60
                    THEN Took(at + 1 + k, (IF text[at + 1] = "-" THEN -1 ELSE 1) * (60 * (n \div 100) + (n % 100)))
                    ELSE TookNone
        of(k) == is(k, NumberIn(SubSeq(text, at + 2, at + 1 + k)) * (IF k = 2 THEN 100 ELSE 1))
    IN IF text[at + 1] \in {"+", "-"} THEN of(Run(IsFigure, at + 1, 4)) ELSE TookNone

LookHalf(at, pm) ==
    IF Loc.am = "" /\ Loc.pm = "" THEN Took(at, pm)
    ELSE IF text[at + 1] = Loc.am THEN Took(at + 1, 0)
    ELSE IF text[at + 1] = Loc.pm THEN Took(at + 1, 1) ELSE TookNone

LookZone(at) ==
    IF text[at + 1] \in DOMAIN Zones \cup Abbrevs \cup {"UNKNOWN"} THEN Took(at + 1, text[at + 1]) ELSE TookNone

Taken(item, at, c) ==
    CASE item.spec \in {"a", "A"} -> Look(at, Loc.days)
      [] item.spec \in {"b", "B", "h"} -> Look(at, Loc.months)
      [] item.spec = "p" -> LookHalf(at, c.of.pm)
      [] item.spec = "z" -> LookOffset(at)
      [] item.spec = "Z" -> LookZone(at)
      [] OTHER -> LET from == IF item.spec = "e" /\ text[at + 1] = " " THEN at + 1 ELSE at
                  IN IF item.mod = "O" THEN ScanAlt(from, Ranges[item.spec]) ELSE ScanInt(from, Ranges[item.spec])
-----------------------------------------------------------------------------
(* The context: which fields were read, in got, what the numbers are, the  *)
(* eras still possible, and the zone.  A hint fills in numbers.            *)
Numbers(date, minute, second) ==
    [year |-> date[1], month |-> date[2], day |-> date[3], hour |-> minute \div 60,
     minute |-> minute % 60, second |-> second, pm |-> 0, century |-> 0, yday |-> 0, wday |-> 0,
     week |-> 0, isoWeek |-> 0, isoYear |-> 0, eraYear |-> 0, offset |-> 0]

Context(h) ==
    [got |-> {}, eras |-> Loc.eras, zone |-> "none", abbrev |-> "none",
     of |-> IF h = <<>> THEN Numbers(<<ThisYear, 1, 1>>, 0, 0)
            ELSE Numbers(DateOf(h[1].day), h[1].minute, h[1].second)]

Window(n) == IF n >= 69 THEN n + 1900 ELSE n + 2000

With(c, field, n) == [c EXCEPT !.of[field] = n, !.got = @ \cup {field}]

Stored(c, spec, n) ==
    CASE spec \in {"a", "A", "u", "w"} -> With(c, "wday", n % 7)
      [] spec \in {"b", "B", "h"} -> With(c, "month", n + 1)
      [] spec = "m" -> With(c, "month", n)
      [] spec \in {"d", "e"} -> With(c, "day", n)
      [] spec = "j" -> With(c, "yday", n - 1)
      [] spec = "C" -> With(c, "century", n)
      [] spec = "Y" -> With(c, "year", n)
      [] spec = "y" -> [c EXCEPT !.of.year = Window(n), !.got = @ \cup {"yearInCentury"}]
      [] spec = "G" -> With(c, "isoYear", n)
      [] spec = "g" -> With(c, "isoYear", Window(n))
      [] spec = "V" -> With(c, "isoWeek", n)
      [] spec = "U" -> [c EXCEPT !.of.week = n, !.got = (@ \ {"wweek"}) \cup {"uweek"}]
      [] spec = "W" -> [c EXCEPT !.of.week = n, !.got = (@ \ {"uweek"}) \cup {"wweek"}]
      [] spec = "H" -> [c EXCEPT !.of.hour = n, !.got = @ \ {"half"}]
      [] spec = "I" -> [c EXCEPT !.of.hour = n % 12, !.got = @ \cup {"half"}]
      [] spec = "M" -> With(c, "minute", n)
      [] spec = "S" -> With(c, "second", n)
      [] spec = "p" -> With(c, "pm", n)
      [] spec = "z" -> With(c, "offset", n)
      [] spec = "Z" -> [c EXCEPT !.zone = IF n \in DOMAIN Zones THEN n ELSE @,
                                 !.abbrev = IF n = "UNKNOWN" THEN "" ELSE IF n \in Abbrevs THEN n ELSE @]

(* do_get(): the place it is at, whether it has succeeded so far, what is  *)
(* left of the format when the text has ended, and the context.            *)
Begun(at, c) == [at |-> at, ok |-> TRUE, rest |-> <<>>, c |-> c]
Failed(s) == [s EXCEPT !.ok = FALSE]

Matches(s, chars) ==
    IF IsPrefix(chars, SubSeq(text, s.at + 1, Len(text))) THEN [s EXCEPT !.at = @ + Len(chars)] ELSE Failed(s)

Skips(s) == [s EXCEPT !.at = @ + Run(Blank, @, Len(text))]

Takes(s, item) ==
    LET then(r) == IF r.ok THEN [s EXCEPT !.at = r.at, !.c = Stored(@, item.spec, r.n)] ELSE Failed(s)
    IN then(Taken(item, s.at, s.c))

Keeps(s, eras, field) == IF eras = <<>> THEN Failed(s) ELSE [s EXCEPT !.c.eras = eras, !.c.got = @ \cup {field}]

TakesEra(s) ==
    Keeps([s EXCEPT !.at = @ + 1], SelectSeq(s.c.eras, LAMBDA era : era.name = text[s.at + 1]), "era")

(* The years of an era are counted from its own epoch in either direction. *)
Lasts(era) == (era.to[1] - era.from[1]) * era.dir
TakesEraYear(s) ==
    LET then(r) ==
            IF ~r.ok THEN Failed(s)
            ELSE Keeps([s EXCEPT !.at = r.at, !.c.of.eraYear = r.n],
                       SelectSeq(s.c.eras, LAMBDA era : r.n - era.offset \in 0..Lasts(era)), "eraYear")
    IN then(ScanInt(s.at, Ranges.Y))

IsBlank(item) == (item.mod = "lit" /\ Blank(item.spec)) \/ (item.mod = "" /\ item.spec \in {"n", "t"})

Step(s, item) ==
    LET era == item.mod = "E" /\ s.c.eras # <<>>
    IN IF ~s.ok THEN s
       ELSE IF s.at = Len(text) THEN [s EXCEPT !.rest = Append(@, item)]
       ELSE IF IsBlank(item) THEN Skips(s)
       ELSE IF item.mod = "lit" \/ item = I("%") THEN Matches(s, <<item.spec>>)
       ELSE IF ~Supplies(tier, item) THEN Matches(s, Verbatim(item))
       ELSE IF era /\ item.spec = "C" THEN TakesEra(s)
       ELSE IF era /\ item.spec = "y" THEN TakesEraYear(s)
       ELSE Takes(s, item)

(* What may be left of a format: what matches nothing, too. *)
Ends(s) ==
    LET nothing(item) == IsBlank(item) \/ (item = I("p") /\ Loc.am = "" /\ Loc.pm = "")
    IN [s EXCEPT !.ok = @ /\ \A i \in DOMAIN s.rest : nothing(s.rest[i])]

(* %EY: the first era format that reads, on a context of its own, and only *)
(* the eras of that format if any is left; a plain year if none does.      *)
TakesEY(s) ==
    LET tried(f) == Ends(FoldLeft(Step, Begun(s.at, s.c), f))
        fit == SelectSeq(Loc.eraFormats, LAMBDA f : tried(f).ok)
        with(r, eras) == [s EXCEPT !.at = r.at, !.c = IF eras = <<>> THEN r.c ELSE [r.c EXCEPT !.eras = eras]]
        then(r) == with(r, SelectSeq(r.c.eras, LAMBDA era : era.format = fit[1]))
    IN IF fit = <<>> THEN Takes(s, I("Y")) ELSE then(tried(fit[1]))

StepOrEY(s, item) ==
    IF IsEY(item) /\ "date" \in tier /\ s.c.eras # <<>> /\ s.ok /\ s.at < Len(text) THEN TakesEY(s)
    ELSE Step(s, item)

Read(f, h) == Ends(FoldLeft(StepOrEY, Begun(0, Context(h)), Expanded(f, tier)))
-----------------------------------------------------------------------------
(* compute_ymd(): the date from what was read and what the hint fills in.  *)
EstYear(era, c) == era.from[1] + (c.of.eraYear - era.offset) * era.dir

Fits(era, c) ==
    IF "month" \in c.got THEN InEra(era, <<EstYear(era, c), c.of.month, c.of.day>>)
    ELSE EstYear(era, c) \in era.from[1]..era.to[1] \cup era.to[1]..era.from[1]

YearOfEra(c) ==
    LET of(fit) == IF fit = <<>> THEN c.eras[1].from[1] ELSE EstYear(fit[1], c)
    IN of(SelectSeq(c.eras, LAMBDA era : Fits(era, c)))

DeducedYear(c) ==
    IF "year" \in c.got THEN c.of.year
    ELSE IF {"century", "yearInCentury"} \subseteq c.got THEN 100 * c.of.century + (c.of.year % 100)
    ELSE IF "eraYear" \in c.got /\ c.eras # <<>> THEN YearOfEra(c)
    ELSE IF "yearInCentury" \in c.got THEN c.of.year
    ELSE IF "century" \in c.got THEN 100 * c.of.century
    ELSE IF "era" \in c.got /\ c.eras # <<>> THEN c.eras[1].from[1]
    ELSE c.of.year

(* Of an ISO week: the week that January 4 is in is the first. *)
IsoDate(c, y) ==
    LET monday(jan4) == jan4 - ((Weekday(jan4) + 6) % 7)
    IN DateOf(monday(DayOf(y, 1, 4)) + 7 * (c.of.isoWeek - 1) + Iso(c.of.wday) - 1)

(* Of a week that begins on a Sunday or on a Monday: the day of the year.  *)
WeekDayFirst(c, y) ==  (* faulty: the first week begins with the year *)
    7 * c.of.week + (((IF "wday" \in c.got THEN c.of.wday ELSE 1) - Weekday(YearStart(y)) + 7) % 7)
WeekDay(c, y) ==
    LET lead == IF "uweek" \in c.got THEN 0 ELSE 1
        wday == IF "wday" \in c.got THEN c.of.wday ELSE 1
    IN ((7 + lead - Weekday(YearStart(y))) % 7) + 7 * (c.of.week - 1) + ((wday - lead + 7) % 7)

(* A day of a year, which may lie outside of it; a month or a day that was *)
(* read stays, and the day of the month may then be none.                  *)
ByYearDay(c, y, yday) ==
    LET in(date, day) ==
            <<date[1],
              IF "month" \in c.got THEN c.of.month ELSE date[2],
              IF "day" \in c.got THEN c.of.day
              ELSE IF "month" \notin c.got THEN date[3]
              ELSE (day - DayOf(date[1], c.of.month, 1) + 1) % 256>>
    IN in(DateOf(YearStart(y) + yday), YearStart(y) + yday)

ClampNone(y, month, day) == day  (* faulty: the day of the hint stays as it is *)
Clamp(y, month, day) == Min({day, LastDay(y, month)})

(* A weekday alone is the next one that the fallback has.                  *)
Snapped(c, base) == DateOf(base + ((c.of.wday - Weekday(base) + 7) % 7))

Deduced(c, y) ==
    IF {"month", "day"} \subseteq c.got THEN <<y, c.of.month, c.of.day>>
    ELSE IF "yday" \in c.got THEN ByYearDay(c, y, c.of.yday)
    ELSE IF {"uweek", "wweek"} \cap c.got # {} THEN ByYearDay(c, y, WeekDay(c, y))
    ELSE IF "wday" \in c.got /\ {"month", "day"} \cap c.got = {}
    THEN Snapped(c, DayOf(y, c.of.month, Clamp(y, c.of.month, c.of.day)))
    ELSE <<y, c.of.month, IF "day" \in c.got THEN c.of.day ELSE Clamp(y, c.of.month, c.of.day)>>

ComputeYmd(c) ==
    IF {"year", "month", "day"} \subseteq c.got THEN <<c.of.year, c.of.month, c.of.day>>
    ELSE IF {"year", "yday"} \subseteq c.got THEN DateOf(YearStart(c.of.year) + c.of.yday)
    ELSE IF {"isoWeek", "wday"} \subseteq c.got
    THEN IsoDate(c, IF "isoYear" \in c.got THEN c.of.isoYear ELSE DeducedYear(c))
    ELSE Deduced(c, DeducedYear(c))
-----------------------------------------------------------------------------
(* convert_to(): a value of the kind, or an exception.                     *)
Threw == [ok |-> FALSE]
Gave(kind, minutes, second, offset, zone) ==
    [ok |-> TRUE, value |-> [kind |-> kind, day |-> minutes \div 1440, minute |-> minutes % 1440,
                             second |-> second, offset |-> offset, zone |-> zone]]

Minutes(c) == 60 * (c.of.hour + IF "half" \in c.got /\ c.of.pm = 1 THEN 12 ELSE 0) + c.of.minute

(* The zone that was named, the hint's, or UTC; an abbreviation is none.   *)
ZoneOf(c, h) ==
    IF c.zone # "none" THEN {c.zone}
    ELSE IF c.abbrev \notin {"none", ""} THEN {}
    ELSE IF h # <<>> /\ h[1].kind = "zoned" THEN {h[1].zone} ELSE {"UTC"}

(* The offsets under which a local time exists in a zone: none, one, two.  *)
OffsetsAt(zone, local) ==
    {o \in {Zones[zone].before, Zones[zone].after} : Offset(zone, local - o) = o}

ToZoned(c, h, local) ==
    IF "offset" \in c.got
    THEN {<<zone, local - c.of.offset>> : zone \in
             {z \in ZoneOf(c, h) : c.zone = "none" \/ Offset(z, local - c.of.offset) = c.of.offset}}
    ELSE {<<zone, local - Max(OffsetsAt(zone, local))>> : zone \in
             {z \in ZoneOf(c, h) : Cardinality(OffsetsAt(z, local)) = 1}}

ToSys(c, h, local) ==
    IF "offset" \in c.got THEN {local - c.of.offset}
    ELSE IF "zone" \in tier /\ (c.zone # "none" \/ h = <<>>) THEN {at[2] : at \in ToZoned(c, h, local)}
    ELSE IF h # <<>> THEN {local - h[1].offset} ELSE {}

ToTm(c, h, local) ==
    Gave("tm", local, c.of.second,
         IF "offset" \in c.got THEN c.of.offset ELSE h[1].offset,
         IF c.abbrev # "none" THEN c.abbrev ELSE IF c.zone # "none" THEN c.zone ELSE h[1].zone)

Converted(c, h, kind, local) ==
    LET any(S) == IF S = {} THEN Threw ELSE CHOOSE r \in S : TRUE
    IN CASE kind \in {"date", "time", "local"} -> Gave(kind, local, c.of.second, 0, "")
         [] kind = "sys" -> any({Gave("sys", at, c.of.second, 0, "") : at \in ToSys(c, h, local)})
         [] kind = "zoned" ->
               any({Gave("zoned", r[2] + Offset(r[1], r[2]), c.of.second, Offset(r[1], r[2]), r[1]) :
                       r \in ToZoned(c, h, local)})
         [] kind = "tm" -> ToTm(c, h, local)

(* What comes of a text: nothing at all if it does not match the format or *)
(* there is no such date.                                                  *)
Outcome(s, h, kind) ==
    LET valid(d) == d[3] \in 1..LastDay(d[1], d[2])
        at(d) == IF valid(d) THEN Converted(s.c, h, kind, 1440 * DayOf(d[1], d[2], d[3]) + Minutes(s.c)) ELSE Threw
    IN IF ~s.ok THEN Threw
       ELSE IF kind = "time" THEN Converted(s.c, h, kind, Minutes(s.c))
       ELSE at(ComputeYmd(s.c))
-----------------------------------------------------------------------------
Init ==
    /\ conf \in DOMAIN Confs /\ format \in Formats
    /\ tier = {} /\ value = <<>> /\ text = <<>> /\ hint = <<>> /\ result = <<>>

(* What the context of a kind can hold; one for a sys_time may know zones. *)
Tiers(kind) ==
    CASE kind = "sys" -> {{"date", "time", "offset"}, {"date", "time", "offset", "zone"}}
      [] kind = "tm" -> {{"date", "time", "offset", "zone"}}
      [] OTHER -> {Has(kind)}

Put(v) ==
    /\ value = <<>> /\ value' = <<v>>
    /\ tier' \in Tiers(v.kind)
    /\ text' = Written(format, v)
    /\ UNCHANGED <<conf, format, hint, result>>

(* A std::tm is read into one, which is the hint. *)
Get(h) ==
    /\ value # <<>> /\ result = <<>>
    /\ IF h = <<>> THEN value[1].kind # "tm" ELSE h[1].kind = value[1].kind
    /\ hint' = h
    /\ \E s \in {Read(format, h)} : result' = <<Outcome(s, h, value[1].kind)>>
    /\ UNCHANGED <<conf, tier, format, value, text>>

Reset ==
    /\ result # <<>>
    /\ tier' = {} /\ value' = <<>> /\ text' = <<>> /\ hint' = <<>> /\ result' = <<>>
    /\ UNCHANGED <<conf, format>>

Next ==
    \/ \E v \in Values : Put(v)
    \/ \E h \in {<<>>, value} \cup {<<v>> : v \in Hints} : Get(h)
    \/ Reset

Spec == Init /\ [][Next]_vars
-----------------------------------------------------------------------------
(* What a text says of the value it was written from, as the specifiers.   *)
Says ==
    LET supplied == {i \in ToSet(Expanded(format, Has(value[1].kind))) :
                        i.mod # "lit" /\ Supplies(tier, i)}
    IN {IF i.mod = "E" /\ Loc.eras # <<>> THEN i.mod \o i.spec ELSE i.spec : i \in supplied}

One(said, specs) == specs \cap said # {}
SaysMonth(said) == One(said, {"m", "b", "B", "h"})
SaysDay(said) == One(said, {"d", "e"})
SaysWeekday(said) == One(said, {"a", "A", "u", "w"})
SaysYear(said) ==
    \/ One(said, {"Y", "EY"}) \/ {"EC", "Ey"} \subseteq said \/ {"C", "y"} \subseteq said
    \/ ("y" \in said /\ YearOf(value[1].day) \in 1969..2068)
SaysIsoYear(said) == "G" \in said \/ ("g" \in said /\ IsoYear(value[1].day) \in 1969..2068)
SaysHour(said) == "H" \in said \/ ("I" \in said /\ "p" \in said /\ Loc.pm # "")
SaysDate(said) ==
    \/ /\ SaysYear(said)
       /\ \/ SaysMonth(said) /\ SaysDay(said)
          \/ "j" \in said
          \/ One(said, {"U", "W"}) /\ SaysWeekday(said)
    \/ SaysIsoYear(said) /\ "V" \in said /\ SaysWeekday(said)

SaysAll(said) ==
    LET v == value[1]
    IN /\ v.kind = "time" \/ SaysDate(said)
       /\ v.kind = "date" \/ (SaysHour(said) /\ {"M", "S"} \subseteq said)
       /\ v.kind \in {"zoned", "tm"} => "Z" \in said
       /\ v.kind = "tm" => "z" \in said
       /\ v.kind = "sys" => ("z" \in said \/ "zone" \in tier)

(* A part of a year, of a week date or of an hour, which is taken for the  *)
(* whole: a century for its first year, a year of a century for one from   *)
(* 1969 on, a week for its Monday, an ISO week for one of the plain year,  *)
(* an hour of the afternoon for one of the morning; and an era that has no *)
(* name for the year.                                                      *)
PartOfYear(said) == ~SaysYear(said) /\ One(said, {"C", "y", "EC", "Ey"})
NoEra(said) == One(said, {"EC", "Ey"}) /\ EraOf(DateOf(value[1].day)) = <<>>
PartOfWeek(said) ==
    \/ One(said, {"U", "W"}) /\ ~SaysWeekday(said) /\ ~(SaysMonth(said) /\ SaysDay(said)) /\ "j" \notin said
    \/ /\ "V" \in said /\ SaysWeekday(said) /\ ~SaysIsoYear(said)
       /\ ~("Y" \in said /\ ("j" \in said \/ (SaysMonth(said) /\ SaysDay(said))))
HalfOfDay(said) == "I" \in said /\ ~SaysHour(said)

(* A local time that there is twice, with no offset; a zone to a context   *)
(* that cannot hold one, where only what stands in the format is taken.    *)
Twice(said) ==
    LET v == value[1]
    IN \/ v.kind = "zoned" /\ "z" \notin said /\ Cardinality(OffsetsAt(v.zone, 1440 * v.day + v.minute)) # 1
       \/ v.kind = "sys" /\ "zone" \notin tier /\ I("Z") \in ToSet(Expanded(format, tier))

(* A month of an era, which a day that the text does not say decides. *)
EraByDay(said) == One(said, {"Ey", "EY"}) /\ SaysMonth(said) /\ ~SaysDay(said)

Reads == result = <<>> /\ result' # <<>>

(* A text reads back as the value it was written from, if it says all of   *)
(* it, whatever the context was filled with, or if that fills in the rest. *)
Returns == [value[1] EXCEPT !.offset = IF value[1].kind = "local" THEN 0 ELSE @]

ReadsBack ==
    Reads => \E said \in {Says} :
        \/ ~(SaysAll(said) /\ ~EraByDay(said)) /\ hint' # value
        \/ PartOfYear(said) \/ NoEra(said) \/ PartOfWeek(said) \/ HalfOfDay(said) \/ Twice(said)
        \/ result'[1].ok /\ result'[1].value = Returns

(* What the text does not say comes from the hint, or is the first of      *)
(* January of this year, at midnight; nothing that it says does.  A text   *)
(* that matches is refused only for a day that it says itself.             *)
Fill(told, field(_), default) ==
    IF told THEN field(value[1]) ELSE IF hint' = <<>> THEN default ELSE field(hint'[1])

NoDay == -1000000
FilledDay(said) ==
    LET snapped(day) ==
            IF SaysWeekday(said) /\ ~SaysMonth(said) /\ ~SaysDay(said)
            THEN CHOOSE x \in day..(day + 6) : Weekday(x) = Weekday(value[1].day) ELSE day
        in(y, m, d) ==
            IF SaysDay(said) /\ d > LastDay(y, m) THEN NoDay ELSE snapped(DayOf(y, m, Min({d, LastDay(y, m)})))
    IN in(Fill(SaysYear(said), LAMBDA v : YearOf(v.day), ThisYear),
          Fill(SaysMonth(said), LAMBDA v : DateOf(v.day)[2], 1), Fill(SaysDay(said), LAMBDA v : DateOf(v.day)[3], 1))

FilledMinute(said) ==
    60 * Fill(SaysHour(said), LAMBDA v : v.minute \div 60, 0) + Fill("M" \in said, LAMBDA v : v.minute % 60, 0)

FilledAs(said, day, kind, r) ==
    IF day = NoDay THEN ~r.ok
    ELSE /\ r.ok /\ r.value.day = day
         /\ kind # "date" =>
               /\ r.value.minute = FilledMinute(said)
               /\ r.value.second = Fill("S" \in said, LAMBDA v : v.second, 0)
         /\ kind = "tm" =>
               /\ r.value.offset = Fill("z" \in said, LAMBDA v : v.offset, 0)
               /\ r.value.zone = Fill("Z" \in said, LAMBDA v : v.zone, "")

OnlyFills ==
    Reads /\ value[1].kind \in {"date", "time", "local", "tm"} => \E said \in {Says} :
        \/ PartOfYear(said) \/ NoEra(said) \/ HalfOfDay(said) \/ EraByDay(said)
        \/ One(said, {"j", "U", "V", "W"})
        \/ \E day \in {IF value[1].kind = "time" THEN 0 ELSE FilledDay(said)} :
               FilledAs(said, day, value[1].kind, result'[1])

(* The comment on set_date_hint() says that the fields that are parsed are *)
(* not affected: the year of an era that is read with a month is that of   *)
(* the value, whatever day the hint has.                                   *)
EraYearStays ==
    Reads /\ value[1].kind = "date" => \E said \in {Says} :
        \/ ~EraByDay(said) \/ SaysWeekday(said) \/ ~SaysYear(said) \/ NoEra(said)
        \/ result'[1].ok /\ YearOf(result'[1].value.day) = YearOf(value[1].day)
=============================================================================
