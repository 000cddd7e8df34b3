--------------------------- MODULE MCStartCourier ---------------------------
(***************************************************************************)
(* Instances of StartCourier for TLC.  A day of 3 hours of 3 minutes, one  *)
(* tick a minute: nine instants, enough for a window, its boundary         *)
(* instants and a gap.  The delays are a few ticks, so that every timer    *)
(* runs out inside a window or a gap.                                      *)
(***************************************************************************)
EXTENDS StartCourier

\* 00:00-01:01: active at ticks 1..3, closed for the six ticks 4..8, 0;
\* the gap is longer than any stop can last (StopTimeout + 2 ticks).
LongGapSchedule ==
    << [begHour |-> 0, begMin |-> 0, endHour |-> 1, endMin |-> 1] >>

\* 00:01-00:00 spans midnight: active at ticks 2..8, closed at 0 and 1,
\* shorter than StopTimeout + 2: the window reopens while a stop is pending.
ShortGapSchedule ==
    << [begHour |-> 0, begMin |-> 1, endHour |-> 0, endMin |-> 0] >>

\* Two jobs, the second one's window inside the first one's gap.
TwoJobSchedule ==
    << [begHour |-> 0, begMin |-> 0, endHour |-> 1, endMin |-> 1],
       [begHour |-> 1, begMin |-> 1, endHour |-> 2, endMin |-> 2] >>
=============================================================================
