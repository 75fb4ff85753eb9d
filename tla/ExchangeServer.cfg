SPECIFICATION LiveSpec
CONSTANTS
    Connections = {c1, c2, c3}
    Partitions = {p1, p2}
    OneShot = {p1}
    Length = 2
    MaxConnections = 2
CHECK_DEADLOCK FALSE
INVARIANTS
    CompleteMeansAll
    OneShotReadOnce
PROPERTIES
    ReadersEnd
