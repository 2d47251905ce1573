------------------------------ MODULE Calendar ------------------------------
(***************************************************************************)
(* The two calendars behind the real-time clock: the tables with which the *)
(* simulator checks a date (pc_sim_fmk_cpu.c), and the one with which the  *)
(* C library of the host turns dates into times and back.  A date is a     *)
(* year, a month and a day; the day of the week is only checked to be one  *)
(* of seven and always read from the host, so it is left out.  Days are    *)
(* counted from the first of January 2000.                                 *)
(***************************************************************************)
EXTENDS Integers, Sequences

(* Seeded fault of IsLeapYear: every hundredth year is common.             *)
IsLeapYearNo400(y) == y % 4 = 0 /\ y % 100 # 0

IsLeapYear(y) == y % 4 = 0 /\ (y % 100 # 0 \/ y % 400 = 0)

DaysPerMonth == <<31, 28, 31, 30, 31, 30, 31, 31, 30, 31, 30, 31>>

DaysInMonth(y, m) == IF m = 2 /\ IsLeapYear(y) THEN 29 ELSE DaysPerMonth[m]

ValidDate(d) ==
  /\ d.year \in 2000 .. 2099
  /\ d.month \in 1 .. 12
  /\ d.day \in 1 .. DaysInMonth(d.year, d.month)

----------------------------------------------------------------------------
(* mktime and localtime of the host, in a time zone without shifts.  Years *)
(* are counted from March, so that a leap day is the last of its year.     *)

(* Days from March of year 0 to March of year y, and to the first of the   *)
(* m-th month after March.                                                 *)
DaysOfYears(y) == 365 * y + (y \div 4) - (y \div 100) + (y \div 400)
DaysOfMonths(m) == (153 * m + 2) \div 5

Epoch == DaysOfYears(1999) + DaysOfMonths(10)

(* A day beyond the end of its month runs on into the next one.            *)
DayNumber(d) ==
  LET y == IF d.month <= 2 THEN d.year - 1 ELSE d.year
      m == IF d.month <= 2 THEN d.month + 9 ELSE d.month - 3
  IN  DaysOfYears(y) + DaysOfMonths(m) + (d.day - 1) - Epoch

DateOf(n) ==
  LET days  == (n + Epoch) % 146097
      years == (days - (days \div 1460) + (days \div 36524)
                     - (days \div 146096)) \div 365
      rest  == days - (365 * years + (years \div 4) - (years \div 100))
      m     == (5 * rest + 2) \div 153
      y     == 400 * ((n + Epoch) \div 146097) + years
  IN  [year  |-> IF m >= 10 THEN y + 1 ELSE y,
       month |-> IF m >= 10 THEN m - 9 ELSE m + 3,
       day   |-> rest - DaysOfMonths(m) + 1]
=============================================================================
