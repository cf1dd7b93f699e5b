----------------------------- MODULE MCFacets -----------------------------
(* The numeric, the monetary and the time facet.  They share nothing and   *)
(* one of them runs, so that each is checked as it is.                     *)
EXTENDS Numeric, Calendar

CONSTANTS Confs, Zones, Abbrevs, Times, TimeFormats, Hints, ThisYear
CONSTANTS Currencies, Layouts, Units, Sums, Strings, Spans, Bills
VARIABLES part, conf, tier, format, timeText, time, hint, result
VARIABLES currency, layout, unit, bill, amount, width, paid, worth

T == INSTANCE TimeIo WITH Values <- Times, Formats <- TimeFormats, text <- timeText, value <- time

M == INSTANCE Monetary WITH Locales <- Currencies, Formats <- Layouts, Types <- Units,
    Ints <- Sums, Widths <- Spans, Inputs <- Bills,
    loc <- currency, io <- layout, type <- unit, text <- bill, ok <- paid, value <- worth

ASSUME T!TimeAssumption
ASSUME M!MonetaryAssumption

times == <<conf, tier, format, timeText, time, hint, result>>
money == <<currency, layout, unit, bill, amount, width, paid, worth>>

(* Those that do not run start in one way. *)
OneNumber ==
    /\ loc = CHOOSE l \in Locales : TRUE
    /\ io = CHOOSE f \in Formats : TRUE
    /\ type = CHOOSE t \in Types : TRUE
OneTime ==
    /\ conf = CHOOSE c \in DOMAIN Confs : TRUE
    /\ format = CHOOSE f \in TimeFormats : TRUE
OneAmount ==
    /\ currency = CHOOSE c \in Currencies : TRUE
    /\ layout = CHOOSE l \in Layouts : TRUE
    /\ unit = CHOOSE u \in Units : TRUE

MCInit ==
    /\ \/ part = "numbers" /\ OneTime /\ OneAmount
       \/ part = "times" /\ OneNumber /\ OneAmount
       \/ part = "money" /\ OneNumber /\ OneTime
    /\ Init /\ T!Init /\ M!Init

MCNext ==
    \/ part = "numbers" /\ Next /\ UNCHANGED <<part, times, money>>
    \/ part = "times" /\ T!Next /\ UNCHANGED <<part, vars, money>>
    \/ part = "money" /\ M!Next /\ UNCHANGED <<part, vars, times>>

MCSpec == MCInit /\ [][MCNext]_<<part, vars, times, money>>

(* A text that says all of a date or time reads back as it, whatever the   *)
(* context was filled with, and one that says less does if that is it.     *)
TimeReadsBack == [][T!ReadsBack]_times

(* What a text does not say comes from the hint; nothing that it says      *)
(* does, and no text is refused for what the hint has.                     *)
HintOnlyFills == [][T!OnlyFills]_times

(* Money is read back as the amount that was written, or not at all, and   *)
(* from a text from elsewhere as the amount that it says.                  *)
MoneyReadRightly == [][M!ReadRightly]_money

(* Nor is the year of an era one that the hint has a say in. *)
EraYearKept == [][T!EraYearStays]_times
-----------------------------------------------------------------------------
(* Integers of eight bits, in a locale that groups by one, then by two, in *)
(* one that groups once, and in one that does not group.                   *)
MCLocale(grouping) ==
    [grouping |-> grouping, sep |-> ",", point |-> ".", true |-> <<"t", "y">>, false |-> <<"t", "a">>]
MCLocales == {MCLocale(g) : g \in {<<>>, <<1, 2>>, <<2, 0>>}}

MCFormats ==
    {f \in [base : {"none", "dec", "oct", "hex"}, adjust : {"left", "right", "internal"},
            showbase : BOOLEAN, showpos : BOOLEAN, boolalpha : BOOLEAN,
            fill : {" ", "0", "9", "a", "x", "e", "-", "+", ".", ",", "t"}] :
        f.showbase = f.showpos /\ f.showbase = f.boolalpha}

MCInts == {-128, -8, 0, 1, 42, 127, 255}
MCFloats == {<<"1", "2", "3">>, <<"-", "4", "5", ".", "0">>, <<"0">>, <<"-", "1", "e", "+", "2", "0">>}

(* All short texts, longer ones that are grouped and out of range, and     *)
(* those around the limits.                                                *)
MCTexts ==
    UNION {[1..n -> {"0", "9", ","}] : n \in 1..4} \cup UNION {[1..n -> {"0", "1", "x", "-"}] : n \in 1..4}
    \cup {<<"9", ",", "9", "9", ",", "9">>, <<"9", "9", "9", "9", ",", "9", "9">>}
    \cup {m \o n : m \in {<<>>, <<"-">>, <<"0", "x">>, <<"0">>},
                   n \in {<<"1", "2", d>> : d \in {"7", "8", "9"}} \cup {<<"2", "5", "6">>, <<"2", "5", ",", "5">>}
                         \cup {<<"7", "f">>, <<"8", "0">>, <<"f", "f">>, <<"1", "7", "7">>, <<"2", "0", "0">>, <<"4", "0", "0">>}}
MCInputs ==
    [f \in MCFormats |->
        IF f.adjust = "right" /\ ~f.showbase /\ f.fill \in {" ", "-"} THEN MCTexts ELSE {}]

(* Nothing comes from elsewhere, and the base is inferred.                 *)
MCInferredFormats == {f \in MCFormats : f.base = "none"}
MCNoInputs == [f \in MCInferredFormats |-> {}]
-----------------------------------------------------------------------------
(* Currencies with every pattern that lconv can ask for, with one sign or  *)
(* two, longer signs and symbols, other numbers of places and groups, and  *)
(* two that write the signs in different places.                           *)
Layout(precedes, space, posn) == [precedes |-> precedes, space |-> space, posn |-> posn]
MCLayouts == {Layout(p, s, n) : p, s \in BOOLEAN, n \in 0..4} \cup {Layout(FALSE, FALSE, 127)}
Currency(grouping, frac, symbol, pos, neg, plus, minus) ==
    [grouping |-> grouping, sep |-> ",", point |-> ".", symbol |-> symbol, frac |-> frac,
     pos |-> pos, neg |-> neg, plus |-> plus, minus |-> minus]

MCCurrencies ==
    {Currency(<<1, 2>>, 2, <<"$">>, <<>>, <<"-">>, l, l) : l \in MCLayouts}
    \cup {Currency(<<2, 0>>, 3, <<"U", " ">>, <<"+">>, <<"-", "m">>, l, l) : l \in {Layout(p, TRUE, n) : p \in BOOLEAN, n \in {1, 2}}}
    \cup {Currency(<<>>, f, <<"U">>, <<"+", "p">>, <<>>, Layout(TRUE, FALSE, 4), Layout(TRUE, FALSE, 4)) : f \in {-1, 0}}
    \cup {Currency(<<1>>, 1, <<"$">>, <<>>, <<"-">>, Layout(TRUE, p, 1), Layout(FALSE, p, 2)) : p \in BOOLEAN}

MCFieldFormats ==
    [adjust : {"left", "right", "internal"}, showbase : BOOLEAN, fill : {" ", "0", "-", "+", ".", ",", "9"}]
MCAmounts == {-128, -8, 0, 127, 255}
MCStrings == {<<>>, <<"x">>, <<"-", "0", "0">>, <<"0", "4", "5", "6", "7", "8", "x">>, <<"-", "4", "5", "6", "7">>}

MCSums ==
    {<<"1", "2">>, <<"1", ",", "2">>, <<"1", ",", "2", ".", "3", "4">>, <<"1", "2", "8">>, <<"1", ".", "2", "8">>,
     <<"2", ".", "5", "6">>, <<"1", ".">>, <<".", "1", "2">>, <<"1", ",", ",", "2">>, <<"0", "0", ".", "0", "7">>,
     <<"1", ",", "2", "3">>, <<"1", "2", "3", "4", ",", "5">>, <<",", "1">>, <<"1", ",", "2", "3", ",", "4">>}
MCBills ==
    [f \in MCFieldFormats |->
        IF f.adjust = "left" /\ ~f.showbase /\ f.fill = " "
        THEN {s \o c \o m \o b : s \in {<<>>, <<"-">>}, c \in {<<>>, <<"$">>, <<"$", " ">>},
                                 m \in MCSums, b \in {<<>>, <<"-">>, <<" ", "$", "-">>}}
             \cup {<<"(">> \o m \o b : m \in MCSums, b \in {<<")">>, <<"$", ")">>}}
        ELSE {}]

(* The runs that are not about money have one of them. *)
MCOneCurrency == {Currency(<<>>, 0, <<>>, <<>>, <<"-">>, Layout(TRUE, FALSE, 127), Layout(TRUE, FALSE, 127))}
MCOneFormat == {[adjust |-> "right", showbase |-> FALSE, fill |-> " "]}
MCNoBills == [f \in MCOneFormat |-> {}]
-----------------------------------------------------------------------------
(* Three locales: without eras, with eras that follow each other, the      *)
(* first year of each written in its own way, and with one that is counted *)
(* backwards.                                                              *)
I(spec) == [mod |-> "", spec |-> spec]
E(spec) == [mod |-> "E", spec |-> spec]
O(spec) == [mod |-> "O", spec |-> spec]
L(char) == [mod |-> "lit", spec |-> char]

MCMonths == <<<<"January", "Jan">>, <<"February", "Feb">>, <<"March", "Mar">>, <<"April", "Apr">>,
              <<"May", "May">>, <<"June", "Jun">>, <<"July", "Jul">>, <<"August", "Aug">>,
              <<"September", "Sep">>, <<"October", "Oct">>, <<"November", "Nov">>, <<"December", "Dec">>>>
MCDays == <<<<"Sunday", "Sun">>, <<"Monday", "Mon">>, <<"Tuesday", "Tue">>, <<"Wednesday", "Wed">>,
            <<"Thursday", "Thu">>, <<"Friday", "Fri">>, <<"Saturday", "Sat">>>>

First == <<E("C"), L("1st")>>
Later == <<E("C"), E("y"), L("yr")>>
Era(name, from, to, offset, dir, eraFormat) ==
    [name |-> name, from |-> from, to |-> to, offset |-> offset, dir |-> dir, format |-> eraFormat]
Subs(date, time12, both) ==
    [c |-> both, Ec |-> <<E("Y"), L(" "), I("m"), L("/"), I("d"), L(" "), I("X")>>, x |-> date,
     Ex |-> <<E("Y"), L("/"), I("m"), L("/"), I("d")>>, X |-> <<I("T")>>, EX |-> <<I("r")>>, r |-> time12]

English ==
    [days |-> MCDays, months |-> MCMonths, am |-> "AM", pm |-> "PM", alt |-> <<>>,
     eras |-> <<>>, eraFormats |-> <<>>,
     subs |-> Subs(<<I("D")>>, <<I("I"), L(":"), I("M"), L(":"), I("S"), L(" "), I("p")>>,
                   <<I("a"), L(" "), I("e"), L(" "), I("b"), L(" "), I("Y"), L(" "), I("r"), L(" "), I("Z")>>)]
Japanese ==
    [English EXCEPT
        !.am = "", !.pm = "", !.alt = <<"zero", "one", "two", "three", "four", "five", "six">>,
        !.eras = <<Era("R", <<2020, 1, 1>>, <<9999, 12, 31>>, 2, 1, Later),
                   Era("R", <<2019, 5, 1>>, <<2019, 12, 31>>, 1, 1, First),
                   Era("H", <<1990, 1, 1>>, <<2019, 4, 30>>, 2, 1, Later),
                   Era("H", <<1989, 1, 8>>, <<1989, 12, 31>>, 1, 1, First)>>,
        !.eraFormats = <<Later, First>>,
        !.subs = Subs(<<I("Y"), L("/"), I("m"), L("/"), I("d")>>, <<I("I"), L(":"), I("M"), L(":"), I("S"), I("p")>>,
                      <<I("x"), L(" "), I("X")>>)]
Taiwanese ==
    [Japanese EXCEPT
        !.eras = <<Era("MG", <<1913, 1, 1>>, <<9999, 12, 31>>, 2, 1, Later),
                   Era("MG", <<1912, 1, 1>>, <<1912, 12, 31>>, 1, 1, First),
                   Era("MQ", <<1911, 12, 31>>, <<1, 1, 1>>, 1, -1, Later)>>]
MCConfs == [en |-> English, ja |-> Japanese, tw |-> Taiwanese]

(* One zone sets its clocks back by an hour, one ahead. *)
MCZones == [UTC |-> [before |-> 0, after |-> 0, change |-> 0],
            Back |-> [before |-> 120, after |-> 60, change |-> 26000000],
            Ahead |-> [before |-> -300, after |-> -240, change |-> 26000000]]
MCAbbrevs == {"UTC", "CET", "EST"}

(* Ends of years, of eras, of leap Februaries and of ISO years; midnight,  *)
(* noon and what is next to them; the hours around the change of a zone.   *)
Value(kind, day, minute, second, offset, zone) ==
    [kind |-> kind, day |-> day, minute |-> minute, second |-> second, offset |-> offset, zone |-> zone]
Date(y, m, d) == Value("date", DayOf(y, m, d), 0, 0, 0, "")
Zoned(zone, at) ==
    LET local(o) == Value("zoned", (at + o) \div 1440, (at + o) % 1440, 0, o, zone)
    IN local(IF at < MCZones[zone].change THEN MCZones[zone].before ELSE MCZones[zone].after)

MCHints ==
    {Date(2024, 12, 31), Date(1995, 5, 31), Value("sys", DayOf(2023, 1, 31), 754, 5, 0, ""),
     Value("tm", DayOf(2023, 1, 31), 754, 5, 30, "EST"), Zoned("Ahead", 24000000)}
MCTimes ==
    MCHints
    \cup {Date(1911, 12, 31), Date(1900, 3, 1), Date(1912, 2, 29), Date(1968, 12, 31), Date(1969, 1, 1),
          Date(1989, 1, 8), Date(2000, 2, 29), Date(2019, 4, 30), Date(2019, 5, 1), Date(2018, 12, 31),
          Date(2021, 1, 3), Date(2023, 1, 1), Date(2024, 12, 30), Date(2069, 7, 15)}
    \cup {Value("time", 0, m, 59, 0, "") : m \in {0, 719, 720, 1439}}
    \cup {Value("local", DayOf(2019, 4, 30), 0, 7, -150, ""), Value("sys", DayOf(2019, 12, 31), 1439, 7, 0, ""),
          Value("tm", DayOf(2019, 12, 31), 1439, 7, -150, ""), Value("tm", DayOf(2024, 2, 29), 780, 0, 60, "CET"),
          Value("tm", DayOf(2024, 2, 29), 780, 0, 0, "UTC"), Zoned("UTC", 26000000)}
    \cup {Zoned(z, 26000000 + d) : z \in {"Back", "Ahead"}, d \in {-61, -60, -1, 0, 59}}

(* Every way to say a year with every way to say the rest of a date, in    *)
(* this order and some in the other; times; both with a zone.              *)
Years ==
    {<<>>, <<I("Y")>>, <<I("y")>>, <<I("C")>>, <<I("C"), I("y")>>, <<I("G")>>, <<I("g")>>, <<E("Y")>>,
     <<E("C"), L(" "), E("y")>>}
Parts ==
    {<<>>, <<I("m"), L("-"), I("d")>>, <<I("B"), I("e")>>, <<O("m"), L("-"), O("d")>>, <<I("m")>>, <<I("d")>>,
     <<I("j")>>, <<I("V"), I("u")>>, <<O("V"), L("."), O("w")>>, <<I("V")>>, <<I("U"), I("w")>>, <<I("W"), I("A")>>,
     <<I("U")>>, <<I("W")>>, <<I("a")>>, <<I("b"), I("a")>>, <<E("d")>>, <<I("H")>>,
     <<I("m"), L("-"), I("U"), I("u")>>, <<I("a"), I("d")>>, <<I("j"), L("-"), I("V"), I("w")>>,
     <<I("m"), I("d"), I("V"), I("u")>>}
MCTimeFormats ==
    {y \o <<L("/")>> \o p : y \in Years, p \in Parts}
    \cup {p \o <<L("/")>> \o y : y \in {<<E("Y")>>, <<O("y")>>}, p \in {<<I("m"), L("-"), I("d")>>, <<I("m")>>, <<I("a")>>}}
    \cup {<<I("D")>>, <<I("F")>>, <<I("x")>>, <<E("x")>>, <<I("c")>>, <<E("c")>>, <<I("X")>>, <<E("X")>>, <<I("r")>>,
          <<I("R")>>, <<I("T")>>, <<I("I"), I("M")>>, <<I("p"), I("H")>>, <<I("p"), I("n"), I("I"), I("S")>>,
          <<O("H"), L(" "), L(" "), O("M"), I("t"), O("S"), I("n")>>, <<I("M"), I("%"), I("S"), I("p")>>,
          <<I("c"), L(" "), I("z"), L(" "), L("("), I("Z"), L(")")>>}
    \cup {<<I("F"), L(" "), I("T")>> \o z :
              z \in {<<>>, <<I("z")>>, <<I("Z")>>, <<I("z"), I("Z")>>, <<L(" "), I("Z"), I("z")>>}}

(* A month and the year of an era, either first. *)
MCEraDates == {d \in MCTimes : d.kind = "date"}
MCEraFormats == {<<E("Y"), L("/"), I("m")>>, <<I("m"), L("/"), E("Y")>>, <<I("B"), L("/"), E("C"), L(" "), E("y")>>}
=============================================================================
