SPECIFICATION Spec
CONSTANTS
    Missions = {1, 2}
    Workspaces = {w1}
    WsOf <- OneWorkspace
    MaxAttempts = 1
    Clis = {c1}
    Worker = worker
    Gated = {}
    MaxCrashes = 1
    MaxEdits = 0
INVARIANTS TypeOK OneProcessPerWorkspace OneOpenMission
PROPERTIES UndoSparesOtherMissions UndoneMeansRestored
CHECK_DEADLOCK FALSE
