SPECIFICATION Spec
CONSTANTS
    Partitions = {p1, p2}
    Entities = {k1, k2}
    MaxVersion = 2
    Payloads = {x}
    MaxLog = 2
    MaxEntities = 1
    BatchSizes = {2}
    ItemFactor = 2
    None = None
SYMMETRY MCSymmetry
CHECK_DEADLOCK FALSE
INVARIANTS NoChangeIsSkipped 
PROPERTIES FramesAreNews
