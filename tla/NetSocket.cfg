CONSTANTS
    MaxChunks = 3
    MaxInput = 1
    MaxHandles = 1
    AppOps = {"lookup", "finish", "earlyFinish", "destroy", "destroySoon", "pause", "halfOpen", "reset", "throw"}
    EarlyEof = TRUE
SPECIFICATION Spec
INVARIANTS WritesInOrder QueueHasWriter NoAssertFails CloseIsLast NoDataLost
PROPERTIES DestroyedCloses FinishCloses
CHECK_DEADLOCK FALSE
