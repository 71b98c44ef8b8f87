SPECIFICATION Spec
CONSTANTS
    Versions = {1, 2, 3}
    Chunks = 4
    Block = 2
    Data <- MCPadded
    MaxErrors = 1
    MaxCrash = 0
INVARIANT SuccessMeansWhole
CHECK_DEADLOCK FALSE
