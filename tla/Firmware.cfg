SPECIFICATION FairSpec
CONSTANTS
    Versions = {1, 2, 3}
    Chunks = 4
    Block = 2
    Data <- MCDistinct
    MaxErrors = 2
    MaxCrash = 1
INVARIANTS FwTypeOK OnlyChecked SuccessMeansWhole
PROPERTIES LostOnlyWhileWriting GetsUpdated
CHECK_DEADLOCK FALSE
