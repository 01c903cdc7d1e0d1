SPECIFICATION Spec
CONSTANTS
    MaxChunks = 4
    MaxInputs = 2
INVARIANTS ShutdownBehindData NothingCutOff
PROPERTIES ClosedUnlessReading
CHECK_DEADLOCK FALSE
