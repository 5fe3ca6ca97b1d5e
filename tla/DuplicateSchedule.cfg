\* A schedule fires again while its first Task has not reached Starting.
SPECIFICATION Spec
CONSTANTS
  p1 = p1
  p2 = p2
  r1 = r1
  r2 = r2
  NoPVC = NoPVC
  NoRepo = NoRepo
  PVCs <- OnePVC
  NameOf <- OwnNames
  Repos <- OneRepo
  Specs <- FixedSpec
  BackupTimes <- EveryTick
  ForgetTimes <- NoTimes
  AutoRestore = FALSE
  UserActions = {}
  TasksRun = TRUE
  Faults = {}
  MaxFaults = 0
  MaxRequests = 0
  MaxClock = 1
  MaxTasks = 3
INVARIANTS OneScheduledTask
CHECK_DEADLOCK FALSE
