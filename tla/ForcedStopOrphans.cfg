\* One job with a long gap after its window and a child that never blocks
\* the loop: when a stop times out, is the child really terminated?
CONSTANTS
    HoursPerDay = 3
    MinutesPerHour = 3
    TicksPerMinute = 1
    StopTimeout = 1
    ErrorDelay = 2
    ProcessFailedDelay = 2
    NotSet = NotSet
    Schedule <- LongGapSchedule
    StdErrBlocks = FALSE

SPECIFICATION FairSpec

INVARIANT NoOrphanProcess
