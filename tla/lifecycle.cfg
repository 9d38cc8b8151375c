SPECIFICATION Spec
CONSTANTS
    Missions = {1, 2, 3}
    Workspaces = {"shared", "other"}
    WsOf <- TwoWorkspaces
    MaxAttempts = 2
INVARIANT AttemptBudget
CHECK_DEADLOCK FALSE
