SPECIFICATION Spec
CONSTANTS
    Engines = {e1, e2}
    Keys = {k1, k2}
    Absent = Absent
    None = None
    Imports <- MCImports
    Faults = {"refresh", "refreshCommit", "encode", "persist", "commit"}
    MaxRevision = 2
INVARIANTS
    CacheHitIsSound
    WritesStartFromTheirSnapshot
    TransactionReadsItsOwnWrites
PROPERTIES
    EveryGraphChangeHasANewRevision
    ImplementsGraphTransactions
