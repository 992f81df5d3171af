\* When every call is closed and no delivery is left nothing happens: no deadlock check.
SPECIFICATION FairOperatorSpec
CONSTANTS
    Calls = {c1}
    Webhooks = {}
    Pollers = {p1}
    Refreshes = {r1}
    Results = {}
    Requests = {r1}
    Nobody = Nobody
    TERMINAL_STATUSES = {"completed", "failed"}
    MaxCrashes = 0
CHECK_DEADLOCK FALSE
PROPERTIES
    NoMissionIsStuck
