SPECIFICATION Spec
CONSTANTS
    Key = {k1, k2}
    NumPartitions = 2
    Word = 32
    Nil = Nil
    Width = 4
    HotCount = 1
    MaxBuckets = 2
PROPERTIES
    RebalanceRelieves
