\* The Job of an automatic restore fails.
SPECIFICATION FairRecoverySpec
CONSTANTS
  p1 = p1  p2 = p2  r1 = r1
  NoPVC = NoPVC  NoRepo = NoRepo
  PVCs <- OnePVC
  NameOf <- OneName
  Repos <- OneRepo
  Specs <- FixedSpec
  BackupTimes <- NoTimes
  ForgetTimes <- NoTimes
  AutoRestore = TRUE
  UserActions = {}
  TasksRun = TRUE
  Faults = {}
  MaxFaults = 0
  MaxRequests = 0
  MaxClock = 0
  MaxTasks = 3
  Archive <- TwoSnapshots
  JobsFail = TRUE
  MaxWrites = 0
PROPERTIES NewPVCsRecover
CHECK_DEADLOCK FALSE
