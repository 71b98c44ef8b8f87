SPECIFICATION FairSpec
CONSTANTS
    u1 = u1
    u2 = u2
    Urls = {u1, u2}
    NoUrl = NoUrl
    Size <- MCSize
    Port = {u2}
    PackLen = 3
    MaxTail = 2
    Budget = 2
    Word = 64
    MaxRec = 2
    MaxCopies = 2
    Nothing = Nothing
    MaxFiles = 1
    MaxPower = 1
INVARIANTS SizeTells NoneLost NoneTwice
PROPERTIES ImplementsTransfer KeepsGoing RecordsArrive GetsFile
CHECK_DEADLOCK FALSE
