SPECIFICATION Spec
CONSTANTS
    Key = {k1, k2}
    Partition = {0, 1, 2}
    NoSet = NoSet
    None = None
    HashOf <- HashToFirst
    Modes = {FALSE}
    Paced = TRUE
    MaxMsgs = 3
    MaxRoutes = 3
    MaxLost = 0
    MaxRepeats = 1
    MaxCrashes = 0
SYMMETRY Symmetry
INVARIANTS
    TotalOrder
PROPERTIES
    SendsAtomically
CHECK_DEADLOCK FALSE
