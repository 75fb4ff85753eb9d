SPECIFICATION LiveSpec
CONSTANTS
    Partitions = {p1, p2}
    Entities = {k1, k2}
    MaxVersion = 2
    Payloads = {x, y}
    MaxLog = 2
    MaxEntities = 1
    MaxRecords = 2
    None = None
INVARIANTS QueryFindsEveryChange QueryInventsNothing
PROPERTIES BoundedReadCompletes
