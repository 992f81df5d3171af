\* A mission is watched for MaxElapsed slots and then left alone: deadlock is not checked.
SPECIFICATION Spec
CONSTANTS
    PerHour = 1
    Window = 13
    MaxElapsed = 3
CHECK_DEADLOCK FALSE
INVARIANTS
    TypeOK
    VerdictIsRight
    MarginIsTrue
PROPERTIES
    VerdictOnlyWorsens
