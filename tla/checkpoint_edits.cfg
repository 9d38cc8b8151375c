SPECIFICATION Spec
CONSTANTS
    Workspaces = {w1, w2}
    Procs = {p1, p2}
    p1 = p1
    p2 = p2
    w1 = w1
    w2 = w2
    NameExtends <- DottedName
    EditDuring = {"operation", "unfinished"}
    Keep = 2
    Floor = 2
    NoTree = NoTree
    MaxSnapshots = 2
    MaxEdits = 2
    MaxCrashes = 2
SYMMETRY AnyProcess
PROPERTIES RestoresWhatWasRecorded ClaimedIsLeftAlone
