\* A user asks for a certain snapshot to be restored into a new PVC.
SPECIFICATION Spec
CONSTANTS
  p1 = p1
  p2 = p2
  r1 = r1
  r2 = r2
  NoPVC = NoPVC
  NoRepo = NoRepo
  PVCs <- OnePVC
  NameOf <- OwnNames
  Repos <- OneRepo
  Specs <- FixedSpec
  BackupTimes <- NoTimes
  ForgetTimes <- NoTimes
  AutoRestore = TRUE
  UserActions = {"restorePVC"}
  TasksRun = FALSE
  Faults = {}
  MaxFaults = 0
  MaxRequests = 1
  MaxClock = 0
  MaxTasks = 3
INVARIANTS ManualRestoreWins
CHECK_DEADLOCK FALSE
