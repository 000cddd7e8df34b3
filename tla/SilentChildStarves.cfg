\* Two jobs and children that may stay silent on stderr: does the main loop
\* keep serving every job?
CONSTANTS
    HoursPerDay = 3
    MinutesPerHour = 3
    TicksPerMinute = 1
    StopTimeout = 1
    ErrorDelay = 2
    ProcessFailedDelay = 2
    NotSet = NotSet
    Schedule <- TwoJobSchedule
    StdErrBlocks = TRUE

SPECIFICATION FairSpec

PROPERTY EveryJobServed
