SPECIFICATION PMSpec
CONSTANTS
    Key = {k1, k2, k3}
    NumPartitions = 2
    Word = 3
    Nil = Nil
INVARIANTS
    StoreAgreesWithKeyMap
PROPERTIES
    RebalanceAddsNoWeight
    RebalanceReturns
