SPECIFICATION Spec
CONSTANTS
    Key = {k1}
    Partition = {0, 1}
    NoSet = NoSet
    None = None
    HashOf <- HashToFirst
    Modes = {TRUE, FALSE}
    Paced = FALSE
    MaxMsgs = 3
    MaxRoutes = 2
    MaxLost = 1
    MaxRepeats = 2
    MaxCrashes = 1
INVARIANTS
    TypeOK
    HeaderNamesPartition
    SourceWasAnnounced
    NothingVanishes
    SentOnce
PROPERTIES
    Delivery
CHECK_DEADLOCK FALSE
