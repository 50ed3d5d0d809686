\* The kernel is stopped while a cell executes.
SPECIFICATION Spec
CONSTANTS
    Cells <- TwoCells
    c1 = c1
    c2 = c2
    MaxRuns = 1
    MaxKernels = 1
    MaxOutputs = 1
    Scenarios <- OnlyStops
CHECK_DEADLOCK FALSE
INVARIANTS
    BusyHasKernel
