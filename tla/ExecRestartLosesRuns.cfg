\* The old kernel exits while the buffer restarts it.
SPECIFICATION Spec
CONSTANTS
    MaxClients = 1
    MaxStarts = 4
    MaxRuns = 2
    AutoStart = TRUE
    Scenarios <- OnlyRestarts
CHECK_DEADLOCK FALSE
PROPERTIES
    RestartKeepsRuns
