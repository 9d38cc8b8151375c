SPECIFICATION Spec
CONSTANTS
    Workspaces = {w1}
    Procs = {p1, p2}
    p1 = p1
    p2 = p2
    w1 = w1
    w2 = w2
    NameExtends <- NoNames
    EditDuring = {"unfinished"}
    Keep = 2
    Floor = 2
    NoTree = NoTree
    MaxSnapshots = 5
    MaxEdits = 2
    MaxCrashes = 2
INVARIANTS UndoKeepsItsCheckpoints SafetyOutlivesCrash RolledBackIsTrue
PROPERTIES ImplementsRestore DeletedIsSaved SnapshotOfSettledOnly
