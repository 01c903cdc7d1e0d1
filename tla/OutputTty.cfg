SPECIFICATION Spec
CONSTANTS
    MaxArgs = 2
    UShortMax = 127
    Wide = 65535
    Streams = {"stdout", "stderr"}
    Sizes <- MCSizes
    Messages <- MCMessages
    BufSize = 2
    MaxWrites = 3
    MaxUserActions = 1
INVARIANTS WithinBuffers CursorInWindow
PROPERTIES ActsAtOnce
CHECK_DEADLOCK FALSE
