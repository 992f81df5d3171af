\* When every call is closed and no delivery is left nothing happens: no deadlock check.
SPECIFICATION FairSpec
CONSTANTS
    Calls = {c1}
    Webhooks = {w1, w2}
    Pollers = {p1}
    Requests = {}
    Nobody = Nobody
    TERMINAL_STATUSES = {"completed", "failed"}
    MaxCrashes = 1
CHECK_DEADLOCK FALSE
PROPERTIES
    EveryCallIsActedUpon
    KeepsThePromise
