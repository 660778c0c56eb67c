SPECIFICATION Spec
CONSTANTS
    a = a
    b = b
    Key = {k1}
    IP = {a, b}
    Lists <- TwoOneOrNone
    None = None
    NoAnswer = NoAnswer
    MaxInFlight = 1
    MaxRequests = 1
    MaxChanges = 1
    MaxFaults = 0
PROPERTIES
    FollowsController
CHECK_DEADLOCK FALSE
