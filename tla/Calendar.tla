------------------------------ MODULE Calendar ------------------------------
(***************************************************************************)
(* mktime, get_yday and localtime of time.c (and of lib/time.c, a copy     *)
(* linked to the programs), as the days go by from 1970 to 2069, the years *)
(* a two-digit tm_year stands for.  Hours and seconds are left out: they   *)
(* are added and divided off by themselves.                                *)
(***************************************************************************)
EXTENDS Integers, FiniteSetsExt

CONSTANT LastYear  \* bound of the model, counted from 1900

\* What the constants are; an instance assumes it.
CalendarAssumption == LastYear \in 70 .. 169

VARIABLES
    year, mon, mday,  \* a date of the Gregorian calendar, the year from 1900
    days,             \* since 1970-01-01
    yday              \* since the first of January

vars == <<year, mon, mday, days, yday>>

-----------------------------------------------------------------------------
\* The calendar.
Leap(yr) == yr % 4 = 0 /\ (yr % 100 # 0 \/ (yr + 1900) % 400 = 0)

MonthLength(m, yr) == CASE m \in {4, 6, 9, 11} -> 30
                   [] m = 2 -> IF Leap(yr) THEN 29 ELSE 28
                   [] OTHER -> 31

Init == year = 70 /\ mon = 1 /\ mday = 1 /\ days = 0 /\ yday = 0

NextDay ==
    /\ mday < MonthLength(mon, year)
    /\ mday' = mday + 1 /\ yday' = yday + 1
    /\ UNCHANGED <<year, mon>>

NextMonth ==
    /\ mday = MonthLength(mon, year) /\ mon < 12
    /\ mday' = 1 /\ mon' = mon + 1 /\ yday' = yday + 1
    /\ UNCHANGED year

NextYear ==
    /\ mday = MonthLength(mon, year) /\ mon = 12 /\ year < LastYear
    /\ mday' = 1 /\ mon' = 1 /\ yday' = 0
    /\ year' = year + 1

Next == (NextDay \/ NextMonth \/ NextYear) /\ days' = days + 1

-----------------------------------------------------------------------------
\* Days before each month, of a leap year.
month == <<0, 31, 60, 91, 121, 152, 182, 213, 244, 274, 305, 335>>

\* Years since 1970 of a tm_year of two digits.
YearsOf(tm_year) == IF tm_year >= 70 THEN tm_year - 70 ELSE tm_year - 70 + 100

NotLeap(years) == (years + 2) % 4 # 0

MonthDaysFromFebruary(tm_mon, years) ==
    month[tm_mon] - (IF NotLeap(years) /\ tm_mon >= 2 THEN 1 ELSE 0)

MonthDays(tm_mon, years) ==
    month[tm_mon] - (IF NotLeap(years) /\ tm_mon > 2 THEN 1 ELSE 0)

\* mktime, in days.
mktime(tm_year, tm_mon, tm_mday) ==
    LET years == YearsOf(tm_year)
    IN  365 * years + (years + 1) \div 4 + MonthDays(tm_mon, years) + tm_mday - 1

\* The first of January is day 1.
get_yday(tm_year, tm_mon, tm_mday) == MonthDays(tm_mon, YearsOf(tm_year)) + tm_mday

elapsed_leap_years(yr) ==
    (yr - 1) \div 4 - (yr - 1) \div 100 + (yr + 299) \div 400 - (1970 - 1900) \div 4

is_leap_year(yr) == (yr % 4 = 0 /\ yr % 100 # 0) \/ (yr + 1900) % 400 = 0

\* localtime, of a stamp in days.
localtime(stamp) ==
    LET years == stamp \div 365 + 70
        offset == IF is_leap_year(years) THEN 0 ELSE 1
        tm_yday == (stamp - elapsed_leap_years(years)) % (366 - offset)
        later == {m \in 1 .. 12 : month[m] - offset > tm_yday}
        tm_mon == (IF later = {} THEN 13 ELSE Min(later)) - 1
    IN  [year |-> years, mon |-> tm_mon, yday |-> tm_yday,
         mday |-> tm_yday - month[tm_mon] + offset + 1]

-----------------------------------------------------------------------------
\* mktime counts the days since 1970, and get_yday those of the year, of every
\* date a two-digit year can name.  localtime gives a date back from March to
\* December of a common year, if it is not so late in December that the leap
\* days before it make 365 more.  Of other dates nothing is promised.
DatesAgree ==
    /\ mktime(year % 100, mon, mday) = days
    /\ get_yday(year % 100, mon, mday) = yday + 1
    /\ ~Leap(year) /\ mon > 2 /\ yday + elapsed_leap_years(year) < 365 =>
        localtime(days) = [year |-> year, mon |-> mon, yday |-> yday, mday |-> mday]
=============================================================================
