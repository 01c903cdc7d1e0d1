CONSTANTS
    Codes = {0, 1, 3}
    MaxCallbacks = 3
    MaxWork = 1
SPECIFICATION Spec
INVARIANTS TypeOK EveryCallbackHasATick NoNestedErrorHandling ExitCodeHonoured
PROPERTIES RunsInOrder CallbacksRun ExitEndsLoop
