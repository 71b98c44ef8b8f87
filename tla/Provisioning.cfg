SPECIFICATION Spec
CONSTANTS
    Keys <- MCKeys
    Vals <- MCVals
    Services <- MCServices
    NoVal = NoVal
    WebInit = "WebInit"
    cmd = "cmd"
    Answers = {"A", "B"}
    Factory = "factory"
    One = "1"
    NoAnswer = NoAnswer
    SleepSuffices = TRUE
    ResetApart = TRUE
    MaxReset = 1
    MaxCrash = 3
INVARIANTS FactoryWhole ConfiguredWhole
CHECK_DEADLOCK FALSE
