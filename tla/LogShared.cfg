\* Backends that lock and crash; or that cannot lock, on a disk that fails.
SPECIFICATION Spec
CONSTANTS
    Backends = {b1, b2, b3}
    NoBackend = NoBackend
    b1 = b1
    b2 = b2
    b3 = b3
    Limit = 2
    MaxLine = 1
    MaxFiles = 4
    Scenarios <- LockedAndUnlocked
SYMMETRY Symmetry
CHECK_DEADLOCK FALSE
INVARIANTS
    TypeOK
    RotatesFull
    SizeBounded
    LockReleased
    LinesKept
