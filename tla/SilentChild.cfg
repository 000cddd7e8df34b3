\* Two jobs whose children may stay silent, so the loop may wait in one
\* job's stderr drain while time passes and the other job's window opens
\* and closes unseen.  Does every job still follow the phase machine?
CONSTANTS
    HoursPerDay = 3
    MinutesPerHour = 3
    TicksPerMinute = 1
    StopTimeout = 1
    ErrorDelay = 2
    ProcessFailedDelay = 2
    NotSet = NotSet
    Schedule <- TwoJobSchedule
    StdErrBlocks = TRUE

SPECIFICATION FairSpec

PROPERTY PhasesRefined
