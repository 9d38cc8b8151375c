SPECIFICATION Spec
CONSTANTS
    Missions = {1, 2}
    Workspaces = {w1, w2}
    WsOf <- OwnWorkspaces
    MaxAttempts = 1
    Clis = {c1}
    Worker = worker
    Gated = {2}
    MaxCrashes = 1
    MaxEdits = 0
PROPERTIES LiveMissionNotRecovered
CHECK_DEADLOCK FALSE
