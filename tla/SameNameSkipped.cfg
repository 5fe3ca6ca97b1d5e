\* Two PVCs of one name in two namespaces are due for the same repository.
SPECIFICATION FairSpec
CONSTANTS
  p1 = p1
  p2 = p2
  r1 = r1
  r2 = r2
  NoPVC = NoPVC
  NoRepo = NoRepo
  PVCs <- TwoPVCs
  NameOf <- OneName
  Repos <- OneRepo
  Specs <- FixedSpec
  BackupTimes <- SecondTick
  ForgetTimes <- NoTimes
  AutoRestore = FALSE
  UserActions = {}
  TasksRun = TRUE
  Faults = {}
  MaxFaults = 0
  MaxRequests = 0
  MaxClock = 1
  MaxTasks = 3
PROPERTIES RunIsBackedUp
CHECK_DEADLOCK FALSE
