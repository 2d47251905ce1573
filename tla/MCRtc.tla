------------------------------- MODULE MCRtc -------------------------------
(* Instance of Rtc for TLC: a second has 2 ms, a day 2 s, the tick wraps   *)
(* after 6 ms, and the host runs for more than two wraps.  The clock       *)
(* starts the day before a leap day, and dates are asked for at the end    *)
(* of February, of the range and beyond both.                              *)
EXTENDS Rtc

SomeDates ==
  { [year |-> 2000, month |-> 2, day |-> 28],
    [year |-> 2000, month |-> 2, day |-> 29],
    [year |-> 2000, month |-> 2, day |-> 30],
    [year |-> 2001, month |-> 2, day |-> 29],
    [year |-> 2099, month |-> 12, day |-> 31],
    [year |-> 2100, month |-> 1, day |-> 1] }

BeforeLeapDay == {DayNumber([year |-> 2000, month |-> 2, day |-> 28]) * 2 + 1}
=============================================================================
