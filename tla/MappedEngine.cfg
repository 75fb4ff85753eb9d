\* GraphEngine over mapped tables.
CONSTANTS
    Statements = {s1, s2, s3}
    DropUpdates = FALSE
SPECIFICATION MappedSpec
INVARIANTS AnsweredIsCommitted NoHalfCommits
