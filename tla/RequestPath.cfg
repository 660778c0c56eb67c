SPECIFICATION RPSpec
CONSTANTS
    Key = {k1, k2}
    NumPartitions = 2
    Word = 32
    Nil = Nil
    Width = 4
    HotCount = 1
    MaxBuckets = 3
    Handler = {h1}
INVARIANTS
    TypeOK
    SurvivorsArriveTwicePerBucket
    RoutedKeysAreTracked
    SizesStillTrue
    HotKeysAreRouted
    StoreAgreesWithKeyMap
PROPERTIES
    RecordsStay
    ForgottenWereSparse
    TurnCompletes
    RoutesLikeATable
    EveryRequestIsAnswered
CHECK_DEADLOCK FALSE
