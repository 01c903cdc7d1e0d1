SPECIFICATION Spec
CONSTANTS
    Ttys = {t1, t2}
    NoTty = NoTty
    MaxChunks = 3
    MaxOps = 7
SYMMETRY Symmetry
INVARIANTS RestoredAtExit InputInOrder KeepsReading
CHECK_DEADLOCK FALSE
