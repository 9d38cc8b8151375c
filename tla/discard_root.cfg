SPECIFICATION Spec
CONSTANTS
  Parts = {"phoenix"}
  Kernels = {1, 2, 3}
  PointKernels <- MCPointKernels
  RootKernels = {2, 3}
  MaxRuns = 2
  MaxCrashes = 2
  OverlayBoots = TRUE
  RestoreAgain = FALSE
  MaxTxns = 2
  Bundles = TRUE
  MaxOthers = 1
  MaxPre = 1
  MaxStops = 1
  Cpus = {"cpu0", "cpu1"}
  Services = {"packagekit", "ModemManager"}
  Slice = "system.slice"
  MaxArms = 2
  MaxKills = 2
  Writers = {"worker", "client"}
  MaxSerial = 4
  MaxDamage = 1
  Servers = {"files", "snapshots"}
  Allows = {"files"}
  MaxCalls = 2
  MaxShort = 1
  MaxStopped = 1
PROPERTY DiscardedIsACopy
CHECK_DEADLOCK FALSE
