SPECIFICATION WireLiveSpec
CONSTANTS
    Callers = {c1, c2, c3}
    MaxOps = 2
    MaxRounds = 2
    Nil = Nil
CHECK_DEADLOCK FALSE
INVARIANTS OneOperationOutstanding WritesAreGranted
PROPERTIES NoLateGrant EveryOperationIsAnswered
