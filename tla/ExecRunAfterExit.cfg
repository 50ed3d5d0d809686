\* A kernel exits while its start is being completed.
SPECIFICATION Spec
CONSTANTS
    MaxClients = 1
    MaxStarts = 3
    MaxRuns = 2
    AutoStart = TRUE
    Scenarios <- OnlyExits
CHECK_DEADLOCK FALSE
PROPERTIES
    RunsNeedKernel
