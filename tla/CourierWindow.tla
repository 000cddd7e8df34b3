--------------------------- MODULE CourierWindow ---------------------------
(***************************************************************************)
(* The daily time window of a scheduled process: ScheduledProc in          *)
(* src/test/StartCourier.js parses "hh:mm" begin and end times, decides    *)
(* once whether the window runs past midnight (beyondDay), and on every    *)
(* time slice handleAction builds today's begin and end instants and asks  *)
(* whether the current instant lies strictly between them.                 *)
(*                                                                         *)
(* An instant of the day is a number of clock ticks since midnight; a      *)
(* minute has TicksPerMinute ticks, so a window boundary (seconds and      *)
(* milliseconds set to 0 by createDate) is one instant among several.      *)
(***************************************************************************)
EXTENDS Naturals

CONSTANTS HoursPerDay, MinutesPerHour, TicksPerMinute

Day == HoursPerDay * MinutesPerHour * TicksPerMinute
TimeOfDay == 0 .. Day - 1
Hours == 0 .. HoursPerDay - 1
Minutes == 0 .. MinutesPerHour - 1

\* A window as ScheduledProc keeps it: this.begHour, begMin, endHour, endMin.
Windows == [begHour : Hours, begMin : Minutes, endHour : Hours, endMin : Minutes]

\* Mutant of TimeBefore: equal times count as "before".
TimeBeforeOrEqual(hour1, min1, hour2, min2) ==
    IF hour1 # hour2 THEN hour1 < hour2 ELSE min1 <= min2

\* timeBefore(hour1, min1, hour2, min2): hour1:min1 is strictly earlier.
TimeBefore(hour1, min1, hour2, min2) ==
    IF hour1 # hour2 THEN hour1 < hour2 ELSE min1 < min2

\* createDate(date, hours, mins): today's instant hours:mins:00.000.
\* Date.setHours/setMinutes roll over past the day, so no modulus.
CreateDate(hours, mins) == (hours * MinutesPerHour + mins) * TicksPerMinute

\* this.beyondDay, fixed in the constructor.
BeyondDay(w) == ~TimeBefore(w.begHour, w.begMin, w.endHour, w.endMin)

\* handleAction's `action`: the process should be running at instant date.
Action(w, date) ==
    LET begDate == CreateDate(w.begHour, w.begMin)
        endDate == CreateDate(w.endHour, w.endMin)
    IN  IF BeyondDay(w)
        THEN date > begDate \/ date < endDate
        ELSE date > begDate /\ date < endDate
=============================================================================
