\* Three hours of three minutes, two ticks a minute: every window of this
\* clock, each instant of the day, and the half-minute after each boundary.
CONSTANTS
    HoursPerDay = 3
    MinutesPerHour = 3
    TicksPerMinute = 2

SPECIFICATION Spec

INVARIANT ActionMatchesReference
