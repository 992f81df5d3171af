\* A mission that has ended, or waits for a human, may stop: deadlock is not checked.
SPECIFICATION Spec
CONSTANTS
    Candidates = {1, 2}
    Keys <- MCKeys
    Mandatory <- MCKeys
    TimeKeys <- MCTimeKeys
    Cost <- CostPct
    Replies <- FewReplies
    NoVal = NoVal
    MaxOps = 3
    MaxReplans = 3
    MaxRetries = 2
    MaxClarifications = 1
    CostLimit = 15
    Cutoff = 2
    MinWindow = 1
    TTL = 1
    MaxTime = 0
    UseLLM = FALSE
    AllowCrash = FALSE
    AllowManual = FALSE
CHECK_DEADLOCK FALSE
INVARIANTS
    DeadNumbersAreNotRedialled
