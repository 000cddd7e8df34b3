---------------------------- MODULE WindowCheck ----------------------------
(***************************************************************************)
(* Checks handleAction's window test (CourierWindow) against a reference   *)
(* definition of a daily window, over every window of a small clock and   *)
(* every instant of the day.  The state is one window and one instant; the *)
(* instant walks through the day.                                          *)
(***************************************************************************)
EXTENDS Naturals, CourierWindow

VARIABLES w, t

\* Windows as the config may give them: any hh:mm of the day, and also an
\* end of 24:00 (HoursPerDay:00), which createDate rolls over to midnight.
CheckedWindows ==
    Windows \cup [begHour : Hours, begMin : Minutes,
                  endHour : {HoursPerDay}, endMin : {0}]

TypeOK == w \in CheckedWindows /\ t \in TimeOfDay

Init == w \in CheckedWindows /\ t \in TimeOfDay

NextInstant == t' = (t + 1) % Day /\ UNCHANGED w

Spec == Init /\ [][NextInstant]_<<w, t>>

\* The reference: a window is the open arc of the daily clock that starts at
\* the begin instant and runs forward to the end instant; when begin and end
\* are the same instant it is the whole day but that instant.
Instant(h, m) == (h * MinutesPerHour * TicksPerMinute + m * TicksPerMinute) % Day

InWindow(win, date) ==
    LET b == Instant(win.begHour, win.begMin)
        e == Instant(win.endHour, win.endMin)
    IN  IF b = e THEN date # b
        ELSE 0 < (date - b) % Day /\ (date - b) % Day < (e - b) % Day

\* handleAction runs the process exactly at the instants strictly inside the
\* window, both for windows within a day and for windows spanning midnight
\* (beyondDay), and never at the begin or end instant itself.
ActionMatchesReference == Action(w, t) = InWindow(w, t)
=============================================================================
