SPECIFICATION Spec
CHECK_DEADLOCK FALSE
CONSTANTS
    Delimiters = {"a", "b"}
    MaxLines = 4
    MaxEdits = 3
    MaxMarks = 5
    MaxQueued = 2
    Scenarios <- EditorScenarios
INVARIANTS
    OutputsFollow
    DecorationsCurrent
