SPECIFICATION Spec
CONSTANTS
    Apps = {a1, a2, a3}
    NoApp = NoApp
    Names = {n1}
    Icons = {i1}
    Vers = {1}
    SeqNos = {1, 2, 3}
    Pkgs = {TRUE}
    NumSize = 4
    MtimeGrain = 1
    Truncation = FALSE
    Stepping = FALSE
    Rollback = FALSE
    MaxClock = 4
    MaxPublish = 1
    MaxCrash = 0
INVARIANTS TypeOK NumbersDistinct ListOnCard CycleConverges SpaceReclaimed ListedPresent
SYMMETRY Symmetry
CHECK_DEADLOCK FALSE
