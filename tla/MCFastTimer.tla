---------------------------- MODULE MCFastTimer ----------------------------
(* Instance of FastTimer for TLC, with half milliseconds, callbacks of any *)
(* duration and periods of all kinds: refused, less than a millisecond,    *)
(* 1.5 ms and 2 ms.                                                        *)
EXTENDS FastTimer

AllPeriods == {-1, 1, 3, 4}
=============================================================================
