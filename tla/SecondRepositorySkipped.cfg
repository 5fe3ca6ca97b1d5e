\* Two repositories are due at the same time for one PVC.
SPECIFICATION FairSpec
CONSTANTS
  p1 = p1
  p2 = p2
  r1 = r1
  r2 = r2
  NoPVC = NoPVC
  NoRepo = NoRepo
  PVCs <- OnePVC
  NameOf <- OwnNames
  Repos <- TwoRepos
  Specs <- PairSpec
  BackupTimes <- SecondTick
  ForgetTimes <- NoTimes
  AutoRestore = FALSE
  UserActions = {}
  TasksRun = TRUE
  Faults = {}
  MaxFaults = 0
  MaxRequests = 0
  MaxClock = 1
  MaxTasks = 3
PROPERTIES RunIsBackedUp
CHECK_DEADLOCK FALSE
