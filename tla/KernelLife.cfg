\* Two kernels of one session, with everything that may go wrong.
SPECIFICATION FairSpec
CONSTANTS
    ipykernel = ipykernel
    other = other
    Kernels <- MCKernels
    OwnPorts <- MCOwnPorts
    Ports = {1, 2}
    Contested = {1}
    Requests = {1}
    MaxStops = 1
    MaxTries = 2
    Faults <- AllFaults
CHECK_DEADLOCK FALSE
INVARIANTS
    TypeOK
    NothingLeft
    OwnProcess
    NoFalseReport
    ReplyNotDropped
PROPERTIES
    LaunchEnds
    StopServed
    DeadRemoved
