\* Every command, with auto_start_kernel = false; a backend that exits and is
\* spawned again, or cannot be spawned; kernels that fail to start.
SPECIFICATION Spec
CONSTANTS
    MaxClients = 2
    MaxStarts = 2
    MaxRuns = 1
    AutoStart = FALSE
    Scenarios <- AnyCommand
CHECK_DEADLOCK FALSE
INVARIANTS
    NoStuckRuns
    DroppedNeverRun
    KernelsReachable
    SessionsOwned
