CONSTANTS
    Kinds = {"char", "alt", "held", "heldFn", "high", "low", "up"}
    MaxRecords = 3
    MaxThreads = 2
SPECIFICATION InputSpec
INVARIANTS KeysInOrder ReadsWhenResumed
PROPERTIES PauseReturns
CHECK_DEADLOCK FALSE
