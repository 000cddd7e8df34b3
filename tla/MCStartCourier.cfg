\* The starter with two jobs whose windows are each followed by a long gap, and a
\* child whose stderr never makes the loop wait.
CONSTANTS
    HoursPerDay = 3
    MinutesPerHour = 3
    TicksPerMinute = 1
    StopTimeout = 1
    ErrorDelay = 2
    ProcessFailedDelay = 2
    NotSet = NotSet
    Schedule <- TwoJobSchedule
    StdErrBlocks = FALSE

SPECIFICATION FairSpec

INVARIANT TypeOK
INVARIANT OrphansWereStopped
INVARIANT StopWrittenOnce
PROPERTY StopResolved
PROPERTY DeadHandleReleased
PROPERTY PhasesRefined
