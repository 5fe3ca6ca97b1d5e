\* A PVC is applied again after a disaster, and the schedule backs it up before its restore.
SPECIFICATION RecoverySpec
CONSTANTS
  p1 = p1  p2 = p2  r1 = r1
  NoPVC = NoPVC  NoRepo = NoRepo
  PVCs <- OnePVC
  NameOf <- OneName
  Repos <- OneRepo
  Specs <- FixedSpec
  BackupTimes <- EveryTick
  ForgetTimes <- NoTimes
  AutoRestore = TRUE
  UserActions = {}
  TasksRun = TRUE
  Faults = {}
  MaxFaults = 0
  MaxRequests = 0
  MaxClock = 0
  MaxTasks = 3
  Archive <- TwoSnapshots
  JobsFail = FALSE
  MaxWrites = 0
INVARIANTS DataIsBack
CHECK_DEADLOCK FALSE
