SPECIFICATION Spec
CONSTANTS
    Key = {k1}
    Partition = {0, 1}
    NoSet = NoSet
    None = None
    HashOf <- HashToFirst
    Modes = {FALSE}
    Paced = FALSE
    MaxMsgs = 3
    MaxRoutes = 2
    MaxLost = 0
    MaxRepeats = 0
    MaxCrashes = 0
INVARIANTS
    TotalOrder
CHECK_DEADLOCK FALSE
