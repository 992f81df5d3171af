\* When every call is closed and no delivery is left nothing happens: no deadlock check.
SPECIFICATION Spec
CONSTANTS
    Calls = {c1, c2}
    Webhooks = {w1}
    Pollers = {p1}
    Requests = {}
    Nobody = Nobody
    TERMINAL_STATUSES = {"completed", "failed"}
    MaxCrashes = 0
CHECK_DEADLOCK FALSE
INVARIANTS
    TypeOK
    IngestedOnce
    RecordAgrees
    NoWaitingCircle
