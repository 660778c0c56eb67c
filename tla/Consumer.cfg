SPECIFICATION Spec
CONSTANTS
    word = word
    Key = {k1}
    Partition = {0, 1}
    NoSet = NoSet
    Member = {c1, c2}
    Words <- OneWord
    MaxMsgs = 3
    MaxDisturbances = 1
INVARIANTS
    TypeOK
    CommittedIsHandled
    ShiftsAreSetEnds
    RestIsEarned
PROPERTIES
    RedeliveryNeedsMishap
    EverythingIsHandled
    MembersSettle
CHECK_DEADLOCK FALSE
