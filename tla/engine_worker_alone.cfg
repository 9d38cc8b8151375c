SPECIFICATION FairSpec
CONSTANTS
    Missions = {1, 2}
    Workspaces = {w1}
    WsOf <- OneWorkspace
    MaxAttempts = 1
    Clis = {}
    Worker = worker
    Gated = {}
    MaxCrashes = 2
    MaxEdits = 1
INVARIANT RecordsSettled
PROPERTIES StartupLeavesNoOrphan RunsSettle
CHECK_DEADLOCK FALSE
