SPECIFICATION Spec
CONSTANTS
    Bodies <- MCBodies
    Kinds <- PlainKinds
    AppOps = {"aborted"}
    MaxOps = 0
INVARIANTS NoAssertFails
CHECK_DEADLOCK FALSE
