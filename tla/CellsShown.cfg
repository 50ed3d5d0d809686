\* Kernels exit; one cell is cleared or deleted, or two cells are run and the
\* kernel is stopped.
SPECIFICATION FairSpec
CONSTANTS
    Cells <- TwoCells
    c1 = c1
    c2 = c2
    MaxRuns = 2
    MaxKernels = 2
    MaxOutputs = 1
    Scenarios <- ExitsAndStops
CHECK_DEADLOCK FALSE
INVARIANTS
    TypeOK
    BusyUntilExit
    DroppedStayEmpty
    OneRunShown
    ReplicasAgree
PROPERTIES
    BusyEnds
