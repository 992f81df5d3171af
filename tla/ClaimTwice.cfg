\* When every call is closed and no delivery is left nothing happens: no deadlock check.
SPECIFICATION OperatorSpec
CONSTANTS
    Calls = {c1}
    Webhooks = {w1}
    Pollers = {p1}
    Refreshes = {r1}
    Results = {m1}
    Requests = {r1, m1}
    Nobody = Nobody
    TERMINAL_STATUSES = {"completed", "failed"}
    MaxCrashes = 0
CHECK_DEADLOCK FALSE
INVARIANTS
    IngestionIsIdempotent
