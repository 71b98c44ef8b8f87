SPECIFICATION FairSpec
CONSTANTS
    Versions = {1, 2, 12}
    Urls = {"u1", "u2"}
    NoUrl = NoUrl
    SizeOf <- MCSizeOf
    UrlOf <- MCUrlOf
    LongMax = 20
    Monotone = TRUE
    Truncation = TRUE
    MaxPublish = 2
    MaxCrash = 1
INVARIANTS CoreTypeOK InstalledWhole NeverAhead
PROPERTIES RecordAfterFile BecomesCurrent
CHECK_DEADLOCK FALSE
