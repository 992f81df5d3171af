\* A mission that has ended, or waits for a human, may stop: deadlock is not checked.
SPECIFICATION Spec
CONSTANTS
    Candidates = {1, 2}
    Keys <- MCKeys
    Mandatory <- MCKeys
    TimeKeys <- MCTimeKeys
    Cost <- CostPct
    Replies <- AllReplies
    NoVal = NoVal
    MaxOps = 5
    MaxReplans = 3
    MaxRetries = 2
    MaxClarifications = 1
    CostLimit = 15
    Cutoff = 4
    MinWindow = 1
    TTL = 2
    MaxTime = 0
    UseLLM = FALSE
    AllowCrash = TRUE
    AllowManual = FALSE
CHECK_DEADLOCK FALSE
INVARIANTS
    TypeOK
    OneLiveThread
    StrategiesFormOneLine
    EveryCallHasItsCause
    CallsAreBounded
    EvidenceHasProvenance
