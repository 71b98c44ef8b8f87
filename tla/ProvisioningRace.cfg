SPECIFICATION Spec
CONSTANTS
    Keys <- MCKeys
    Vals <- MCVals
    Services <- MCServices
    NoVal = NoVal
    WebInit = "WebInit"
    cmd = "cmd"
    Answers = {"A", "B"}
    Factory = "factory"
    One = "1"
    NoAnswer = NoAnswer
    SleepSuffices = TRUE
    ResetApart = FALSE
    MaxReset = 1
    MaxCrash = 0
INVARIANT DoneMeansConfigured
CHECK_DEADLOCK FALSE
