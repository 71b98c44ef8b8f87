SPECIFICATION Spec
CONSTANTS
    Apps = {a1}
    NoApp = NoApp
    Names = {n1, n2}
    Icons = {i1, i2}
    Vers = {1, 2}
    SeqNos = {1}
    Pkgs = {TRUE}
    NumSize = 2
    MtimeGrain = 2
    Truncation = TRUE
    Stepping = TRUE
    Rollback = TRUE
    MaxClock = 3
    MaxPublish = 1
    MaxCrash = 1
INVARIANTS ListHonest CycleConverges
PROPERTY SweepSparesListed
SYMMETRY Symmetry
CHECK_DEADLOCK FALSE
