\* One job whose process-failure-freeze-period attribute is not a number:
\* parseInt gives NaN.  Is a child that dies inside the window still
\* followed by the failure freeze of the phase machine?
CONSTANTS
    HoursPerDay = 3
    MinutesPerHour = 3
    TicksPerMinute = 1
    StopTimeout = 1
    ErrorDelay = 2
    ProcessFailedDelay = NaN
    NotSet = NotSet
    Schedule <- LongGapSchedule
    StdErrBlocks = FALSE

SPECIFICATION FairSpec

PROPERTY PhasesRefined
