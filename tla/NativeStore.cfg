CONSTANTS
    MaxElements = 3
    MaxSavepoints = 3
    MaxDepth = 2
    MaxSessions = 2
    Gone = Gone
SPECIFICATION Spec
INVARIANTS FileIsTheCheckpoint HandlesNeverAlias PartialWritesNeverCommit
PROPERTY CommittedHandlesSurvive
CHECK_DEADLOCK FALSE
