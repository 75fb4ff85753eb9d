CONSTANTS
    Threads = {t1, t2}
    Nobody = Nobody
    NoAnswer = NoAnswer
    MaxWrites = 3
    MaxSavepoints = 2
    MaxInterrupts = 2
SPECIFICATION Spec
SYMMETRY Symmetry
INVARIANTS PendingWritesHaveAnOwner  ReadsAreExact
PROPERTY FailedMutationsRollBack
CHECK_DEADLOCK FALSE
