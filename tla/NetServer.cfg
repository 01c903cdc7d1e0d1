CONSTANTS
    maxConnections = 2
    MaxClients = 3
    MaxListens = 2
    MaxFailures = 1
    ListenersThrow = TRUE
SPECIFICATION Spec
INVARIANTS ConnectionsCounted OneAccept
PROPERTIES ClientsServed
CHECK_DEADLOCK FALSE
