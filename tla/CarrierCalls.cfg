\* Every call comes to its end: deadlock is not checked.
\* Three calls for memories of two, never more than two of them on the line at once.
SPECIFICATION Spec
CONSTANTS
    Calls = {1, 2, 3}
    Ours = {1, 2, 3}
    Limit = 2
    Retries = 2
    Lines = 2
    Late = 0
    Failures = {2}
CHECK_DEADLOCK FALSE
INVARIANTS
    TypeOK
    SpokenOnce
PROPERTIES
    SilenceIsEnded
