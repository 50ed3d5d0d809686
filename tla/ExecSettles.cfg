\* Nothing goes wrong; or the backend and kernels may exit at any moment, while
\* the kernel is stopped or restarted.
SPECIFICATION FairSpec
CONSTANTS
    MaxClients = 2
    MaxStarts = 5
    MaxRuns = 3
    AutoStart = TRUE
    Scenarios <- Settling
CHECK_DEADLOCK FALSE
PROPERTIES
    RunsExecute
    Settles
    ExitNoticed
