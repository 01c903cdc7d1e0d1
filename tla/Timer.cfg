CONSTANTS
    Timers = {t1, t2}
    Restarted = {t2}
    Returning = {t2}
    MaxWaits = 2
SPECIFICATION Spec
INVARIANTS ClearedNeverFires NoExtraFiring
PROPERTIES Fires
CHECK_DEADLOCK FALSE
