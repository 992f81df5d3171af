\* A page whose first read and stream both failed does nothing more: deadlock is not checked.
SPECIFICATION Spec
CONSTANTS
    Events = 3
    Invalidations = {2, 3}
    QueueSize = 1
    TimelineLimit = 3
    MaxFaults = 1
CHECK_DEADLOCK FALSE
INVARIANTS
    TypeOK
    ScreenIsNeverBehind
    AlertsAreNews
PROPERTIES
    KeepsThePromise
    EveryEventIsShown
    OutcomeIsShown
