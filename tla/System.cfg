SPECIFICATION SysSpec
CONSTANTS
    a = a
    b = b
    Key = {k1, k2}
    IP = {a, b}
    Lists <- TwoOneOrNone
    None = None
    NoAnswer = NoAnswer
    MaxInFlight = 1
    Iters = 4
    MaxRequests = 4
    MaxChanges = 1
    MaxFaults = 2
SYMMETRY Symmetry
INVARIANTS
    SysTypeOK
    KeyInOneList
    CountsCover
    NobodyHangs
PROPERTIES
    KeyStays
    FailsOnlyOnNewList
CHECK_DEADLOCK FALSE
