\* The backend and kernels fail to start or exit, with stops and restarts.
SPECIFICATION Spec
CONSTANTS
    MaxClients = 2
    MaxStarts = 4
    MaxRuns = 3
    AutoStart = TRUE
    Scenarios <- AnyExit
CHECK_DEADLOCK FALSE
INVARIANTS
    TypeOK
    StopAfterRuns
    StartedSound
PROPERTIES
    RunsDelivered
