CONSTANTS
    Queries = {q1, q2}
    NoQuery = NoQuery
    WithInput = {q1}
    Deadlines = {q1}
    Batches = 2
    Capacity = 1
SPECIFICATION SessionLiveSpec
INVARIANTS EndIsComplete
PROPERTIES OnlyCancelledAreInterrupted SessionIsFreed
