\* Every request comes to its end: deadlock is not checked.
SPECIFICATION Spec
CONSTANTS
    Requests = {r1, r2, r3}
    MaxRestarts = 1
CHECK_DEADLOCK FALSE
INVARIANTS
    TypeOK
    StartedOnce
    DecidedOnce
PROPERTIES
    BackgroundStartsAreFresh
    StartIsCarriedOut
