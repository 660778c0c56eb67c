SPECIFICATION Spec
CONSTANTS
    Namespace = {ns1, ns2}
    Name = {producer}
    Addresses = {a1, a2}
    Absent = Absent
    MaxRetries = 1
    MaxChanges = 4
    MaxErrors = 2
    MaxCrashes = 1
INVARIANTS
    TypeOK
    StaleIsUnderWay
PROPERTIES
    Converges
CHECK_DEADLOCK FALSE
