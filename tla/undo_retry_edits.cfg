SPECIFICATION Spec
CONSTANTS
    Missions = {1}
    Workspaces = {w1}
    WsOf <- OneWorkspace
    MaxAttempts = 2
    Clis = {c1}
    Worker = worker
    Gated = {}
    MaxCrashes = 0
    MaxEdits = 1
PROPERTY UndoChecksForEdits
CHECK_DEADLOCK FALSE
