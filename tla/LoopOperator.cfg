\* A mission that has ended, or waits for a human, may stop: deadlock is not checked.
SPECIFICATION Spec
CONSTANTS
    Candidates = {1, 2, 3}
    Keys <- MCKeys
    Mandatory <- MCKeys
    TimeKeys <- MCTimeKeys
    Cost <- CostPct
    Replies <- FewReplies
    NoVal = NoVal
    MaxOps = 3
    MaxReplans = 1
    MaxRetries = 2
    MaxClarifications = 1
    CostLimit = 15
    Cutoff = 4
    MinWindow = 1
    TTL = 1
    MaxTime = 0
    UseLLM = TRUE
    AllowCrash = TRUE
    AllowManual = TRUE
CHECK_DEADLOCK FALSE
INVARIANTS
    BudgetsHold
PROPERTIES
    OutcomeIsWrittenOnce
