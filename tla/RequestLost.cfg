\* The creation of the Task that a PVC asks for is refused once.
SPECIFICATION Spec
CONSTANTS
  p1 = p1
  p2 = p2
  r1 = r1
  r2 = r2
  NoPVC = NoPVC
  NoRepo = NoRepo
  PVCs <- OnePVC
  NameOf <- OwnNames
  Repos <- OneRepo
  Specs <- FixedSpec
  BackupTimes <- NoTimes
  ForgetTimes <- NoTimes
  AutoRestore = FALSE
  UserActions = {"backupPVC"}
  TasksRun = FALSE
  Faults = {"create"}
  MaxFaults = 1
  MaxRequests = 1
  MaxClock = 0
  MaxTasks = 3
PROPERTIES RequestsServed
CHECK_DEADLOCK FALSE
