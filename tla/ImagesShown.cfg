SPECIFICATION Spec
CONSTANTS
    Outputs = {o1, o2, o3}
    FileOutputs = {o1}
    FirstLuaId = 4
    MaxClients = 2
    Scenarios <- ImageScenarios
INVARIANTS
    TypeOK
    ImagesOwn
    NoneLeftBehind
PROPERTIES
    PendingEnds
