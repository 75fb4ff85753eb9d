SPECIFICATION LiveSpec
CONSTANTS
    Partitions = {p1}
    Entities = {k1}
    MaxVersion = 1
    Payloads = {x}
    MaxLog = 2
    MaxEntities = 1
    BatchSizes = {2}
    ItemFactor = 1
    None = None
CHECK_DEADLOCK FALSE
PROPERTIES
    EveryChangeSettles
