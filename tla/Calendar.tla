------------------------------ MODULE Calendar ------------------------------
(***************************************************************************)
(* The calendar that the time facet reckons by: a day is the number of     *)
(* days since 1970, a date a triple of year, month and day of the month.   *)
(***************************************************************************)
EXTENDS Integers, FiniteSetsExt

YearStart(y) == 365 * (y - 1970) + (y - 1969) \div 4 - (y - 1901) \div 100 + (y - 1601) \div 400
Leap(y) == YearStart(y + 1) - YearStart(y) - 365
MonthStart(y, m) == <<0, 31, 59, 90, 120, 151, 181, 212, 243, 273, 304, 334, 365>>[m]
                    + IF m > 2 THEN Leap(y) ELSE 0
LastDay(y, m) == MonthStart(y, m + 1) - MonthStart(y, m)
DayOf(y, m, d) == YearStart(y) + MonthStart(y, m) + d - 1
Weekday(day) == (day + 4) % 7
Iso(wday) == IF wday = 0 THEN 7 ELSE wday

YearOf(day) ==
    LET about(y) == CHOOSE x \in (y - 1)..(y + 1) : YearStart(x) <= day /\ day < YearStart(x + 1)
    IN about(1970 + (400 * day) \div 146097)
MonthOf(y, rest) == Max({m \in 1..12 : MonthStart(y, m) <= rest})
DateOf(day) ==
    LET on(y, m) == <<y, m, day - YearStart(y) - MonthStart(y, m) + 1>>
        of(y) == on(y, MonthOf(y, day - YearStart(y)))
    IN of(YearOf(day))
=============================================================================
