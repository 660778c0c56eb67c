SPECIFICATION Spec
CONSTANTS
    word = word
    Key = {k1}
    Partition = {0, 1}
    NoSet = NoSet
    Member = {c1, c2}
    Words <- TwoWords
    MaxMsgs = 2
    MaxDisturbances = 1
PROPERTIES
    DoneMeansReturn
CHECK_DEADLOCK FALSE
