------------------------------ MODULE Calendar ------------------------------
(***************************************************************************)
(* Dates: common/time_utils.cpp, and the printing and parsing of utime_t   *)
(* (common/time_utils.h).  The specification walks from day to day as      *)
(* gmtime_r() of the C library counts them; the code's own arithmetic and  *)
(* what it prints and parses are looked at on every day.                   *)
(*                                                                         *)
(* A date is what struct tm holds: years from 1900, months from 0.  Local  *)
(* time is a fixed number of seconds ahead, without daylight saving.  What *)
(* is printed is the sequence of the numbers in it and, for the fraction   *)
(* of a second, its digits.                                                *)
(***************************************************************************)
EXTENDS Integers, Sequences, FiniteSets, SequencesExt

CONSTANTS
  Sixty,         \* seconds in a minute, minutes in an hour
  Years,         \* the years that are walked through
  Offset,        \* the seconds local time is ahead
  NsecDigits,    \* decimal digits of a nanosecond, 9
  UsecDigits,    \* of a microsecond, 6
  TimesOfDay,    \* the seconds of a day that are looked at
  Nsecs          \* the nanoseconds that are looked at

Hour == Sixty * Sixty
Day == 24 * Hour

CalendarAssumption ==
  /\ Sixty \in Nat \ {0} /\ Years \subseteq 1970 .. 2400
  /\ Offset \in -Day + 1 .. Day - 1
  /\ {NsecDigits, UsecDigits} \subseteq Nat /\ UsecDigits <= NsecDigits
  /\ TimesOfDay \subseteq 0 .. Day - 1
  /\ Nsecs \subseteq 0 .. 10 ^ NsecDigits - 1

VARIABLES
  date,          \* the date it is
  day            \* the days since 1 January 1970

vars == <<date, day>>

(***************************************************************************)
(* The C library.                                                          *)
(***************************************************************************)
Leap(y) == IF y % 100 = 0 THEN y % 400 = 0 ELSE y % 4 = 0
MonthDays(y, m) ==
  CASE m = 1 -> IF Leap(y + 1900) THEN 29 ELSE 28
    [] m \in {3, 5, 8, 10} -> 30
    [] OTHER -> 31
After(d) ==
  CASE d.mday < MonthDays(d.year, d.mon) -> [d EXCEPT !.mday = @ + 1]
    [] d.mday = MonthDays(d.year, d.mon) /\ d.mon < 11 -> [d EXCEPT !.mon = @ + 1, !.mday = 1]
    [] OTHER -> [year |-> d.year + 1, mon |-> 0, mday |-> 1]
Before(d) ==
  CASE d.mday > 1 -> [d EXCEPT !.mday = @ - 1]
    [] d.mday = 1 /\ d.mon > 0 -> [d EXCEPT !.mon = @ - 1, !.mday = MonthDays(d.year, d.mon - 1)]
    [] OTHER -> [year |-> d.year - 1, mon |-> 11, mday |-> 31]

\* the date n days after the day it is, for the few n near 0
DateOn(n) ==
  CASE n = 0 -> date
    [] n = 1 -> After(date)
    [] n = 2 -> After(After(date))
    [] n = -1 -> Before(date)
    [] n = -2 -> Before(Before(date))

TmOf(t) ==
  LET d == DateOn((t \div Day) - day)
      s == t % Day
  IN  [year |-> d.year, mon |-> d.mon, mday |-> d.mday,
       hour |-> s \div Hour, min |-> (s \div Sixty) % Sixty, sec |-> s % Sixty]
gmtime_r(t) == TmOf(t)
localtime_r(t) == TmOf(t + Offset)
mktime(tm) ==
  LET n == CHOOSE n \in -2 .. 2 : DateOn(n) = [year |-> tm.year, mon |-> tm.mon, mday |-> tm.mday]
  IN  (day + n) * Day + tm.hour * Hour + tm.min * Sixty + tm.sec - Offset

(***************************************************************************)
(* Counting days.                                                          *)
(***************************************************************************)
is_leap(year) ==
  CASE year % 400 = 0 -> 1
    [] year % 400 # 0 /\ year % 100 = 0 -> 0
    [] OTHER -> IF year % 4 = 0 THEN 1 ELSE 0
is_leap_year(year) == (0 = year % 4 /\ 0 # year % 100) \/ 0 = year % 400

days_from_0(year) ==
  LET y == year - 1 IN 365 * y + (y \div 400) - (y \div 100) + (y \div 4)
days_from_1970(year) == days_from_0(year) - days_from_0(1970)
FirstOfMonth ==
  <<<<0, 31, 59, 90, 120, 151, 181, 212, 243, 273, 304, 334>>,
    <<0, 31, 60, 91, 121, 152, 182, 213, 244, 274, 305, 335>>>>
days_from_1jan(year, month, d) == FirstOfMonth[is_leap(year) + 1][month] + d - 1

\* a month out of range is of a later or an earlier year
internal_timegm(tm) ==
  LET back == (11 - tm.mon) \div 12
      years == IF tm.mon > 11 THEN tm.mon \div 12 ELSE IF tm.mon < 0 THEN -back ELSE 0
      year == tm.year + 1900 + years
      month == tm.mon - 12 * years + 1
  IN  Day * (days_from_1970(year) + days_from_1jan(year, month, tm.mday))
        + Hour * tm.hour + Sixty * tm.min + tm.sec

is_same_day(a, b) ==
  LET x == localtime_r(a) y == localtime_r(b)
  IN  x.year = y.year /\ x.mon = y.mon /\ x.mday = y.mday
time2date(t) ==
  LET x == localtime_r(t) IN (x.year + 1900) * 10000 + (x.mon + 1) * 100 + x.mday

round_to_minute(t) == mktime([localtime_r(t) EXCEPT !.sec = 0])
round_to_hour(t) == mktime([localtime_r(t) EXCEPT !.sec = 0, !.min = 0])

(***************************************************************************)
(* Printing and parsing.                                                   *)
(***************************************************************************)
DateFields(tm) == <<tm.year + 1900, tm.mon + 1, tm.mday>>
TimeFields(tm) == <<tm.hour, tm.min, tm.sec>>
to_string(t) == DateFields(localtime_r(t)) \o TimeFields(localtime_r(t))
to_date(t) == DateFields(localtime_r(t))
to_time(t) == TimeFields(localtime_r(t))
yesterday(now) == to_date(now - Day)
tomorrow(now) == to_date(now + Day)

\* strptime() with "%Y-%m-%d %H:%M:%S"
strptime(f) == [year |-> f[1] - 1900, mon |-> f[2] - 1, mday |-> f[3],
                hour |-> f[4], min |-> f[5], sec |-> f[6]]
datetime_struct_from_string(f) == mktime(strptime(f))

\* setw(w) and setfill('0') of n
Padded(n, w) == [i \in 1 .. w |-> (n \div 10 ^ (w - i)) % 10]
NumberOf(ds) == FoldLeft(LAMBDA v, c : 10 * v + c, 0, ds)
usec(nsec) == nsec \div 10 ^ (NsecDigits - UsecDigits)

\* utime_t::gmtime() and gmtime_nsec(): seconds and a fraction in the first ten years
TenYears == Day * 365 * 10
gmtime(t, nsec) ==
  IF t < TenYears THEN [kind |-> "seconds", number |-> t, digits |-> Padded(usec(nsec), UsecDigits)]
  ELSE [kind |-> "date", number |-> DateFields(gmtime_r(t)) \o TimeFields(gmtime_r(t)),
        digits |-> Padded(usec(nsec), UsecDigits)]
gmtime_nsec(t, nsec) ==
  IF t < TenYears THEN gmtime(t, nsec)
  ELSE [gmtime(t, nsec) EXCEPT !.digits = Padded(nsec, NsecDigits)]

\* utime_t::parse_date(): what is left of the nanoseconds' digits is 0
parse_date(p) ==
  LET ds == p.digits \o [i \in 1 .. NsecDigits |-> 0]
  IN  IF p.kind = "date"
      THEN [epoch |-> internal_timegm(strptime(p.number)), nsec |-> NumberOf(SubSeq(ds, 1, NsecDigits))]
      ELSE [epoch |-> internal_timegm(gmtime_r(p.number)),
            nsec |-> NumberOf(p.digits) * 10 ^ (NsecDigits - UsecDigits)]

(***************************************************************************)
(* The specification.                                                      *)
(***************************************************************************)
\* from the first of January of a year that follows none of them
Init ==
  \E y \in Years :
    /\ y - 1 \notin Years
    /\ date = [year |-> y - 1900, mon |-> 0, mday |-> 1]
    /\ day = 365 * (y - 1970) + Cardinality({z \in 1970 .. y - 1 : Leap(z)})

Tomorrow ==
  /\ After(date).year + 1900 \in Years
  /\ date' = After(date) /\ day' = day + 1

Next == Tomorrow
Spec == Init /\ [][Next]_vars

(***************************************************************************)
(* Properties.                                                             *)
(***************************************************************************)

\* The code counts the days the way the C library does, over every leap day
\* and century, with months out of range too; and every time survives being
\* printed and parsed, up to what of the fraction is printed.
CalendarExact ==
  /\ is_leap(date.year + 1900) = 1 <=> is_leap_year(date.year + 1900)
  /\ \A s \in TimesOfDay :
       LET t == day * Day + s
           near == {t - Day, t - s, t + Day}
       IN  /\ \A k \in {-1, 0, 2} :
                internal_timegm([gmtime_r(t) EXCEPT !.mon = @ + 12 * k, !.year = @ - k]) = t
           /\ \A u \in near :
                /\ is_same_day(t, u) <=> time2date(t) = time2date(u)
                /\ time2date(t) < time2date(u) => t < u
                /\ (t + Offset) \div Day < (u + Offset) \div Day => time2date(t) < time2date(u)
           /\ datetime_struct_from_string(to_string(t)) = t
           /\ to_string(t) = to_date(t) \o to_time(t)
           /\ t - round_to_minute(t) \in 0 .. Sixty - 1 /\ t - round_to_hour(t) \in 0 .. Hour - 1
           /\ LET n == ((t + Offset) \div Day) - day
              IN  /\ to_date(t) = DateFields(DateOn(n))
                  /\ yesterday(t) = DateFields(DateOn(n - 1)) /\ tomorrow(t) = DateFields(DateOn(n + 1))
           /\ \A n \in Nsecs :
                /\ parse_date(gmtime_nsec(t, n)).epoch = t
                /\ parse_date(gmtime(t, n)) =
                     [epoch |-> t, nsec |-> n - (n % 10 ^ (NsecDigits - UsecDigits))]
                /\ t >= TenYears => parse_date(gmtime_nsec(t, n)).nsec = n
=============================================================================
