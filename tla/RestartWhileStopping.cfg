\* One job whose window spans midnight and is closed for only two ticks,
\* less than a stop may take: does the job start a child while the previous
\* one is still being stopped, and abandon one it never asked to stop?
CONSTANTS
    HoursPerDay = 3
    MinutesPerHour = 3
    TicksPerMinute = 1
    StopTimeout = 1
    ErrorDelay = 2
    ProcessFailedDelay = 2
    NotSet = NotSet
    Schedule <- ShortGapSchedule
    StdErrBlocks = FALSE

SPECIFICATION FairSpec

INVARIANT OrphansWereStopped
