SPECIFICATION Spec
CONSTANTS
    Missions = {1}
    Workspaces = {w1}
    WsOf <- OneWorkspace
    MaxAttempts = 2
    Clis = {c1, c2}
    Worker = worker
    Gated = {}
    MaxCrashes = 1
    MaxEdits = 0
SYMMETRY CliSymmetry
INVARIANT ReadsStayTrue
PROPERTIES ImplementsLifecycle
CHECK_DEADLOCK FALSE
