CONSTANTS
    Relations = {r1}
    Blocks = {b1, b2}
    Contents = {c1}
    Budget = 0
    Kinds = {"tables", "stream"}
    Timed = TRUE
    HalfBlocks = FALSE
    MaxOid = 3
    NoBlock = NoBlock
    Other = Other
SPECIFICATION LiveSpec
INVARIANTS QueryReadsItsInputs 
PROPERTIES CallersObjectsAreKept CallReturns
