SPECIFICATION Spec
CONSTANTS
    Namespace = {ns1}
    Name = {producer}
    Addresses = {a1}
    Absent = Absent
    MaxRetries = 1
    MaxChanges = 2
    MaxErrors = 0
    MaxCrashes = 0
INVARIANTS
    GoneIsNotServed
CHECK_DEADLOCK FALSE
