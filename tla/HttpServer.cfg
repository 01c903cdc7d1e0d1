SPECIFICATION Spec
CONSTANTS
    Bodies <- MCBodies
    Kinds <- MCKinds
    AppOps = {"pause", "throw", "destroy", "aborted", "setHeader", "contentLength", "checkContinue"}
    MaxOps = 2
INVARIANTS ResponsesInOrder BodyInOrder NothingStuck
CHECK_DEADLOCK FALSE
