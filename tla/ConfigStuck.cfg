\* Where a Config waits for ever: a user deletes it, and it carries its finalizer; or it
\* has no repositories, and a user annotates a PVC.  Each property is violated: check
\* them one at a time.
SPECIFICATION FairSpec
CONSTANTS
  p1 = p1
  p2 = p2
  r1 = r1
  r2 = r2
  NoPVC = NoPVC
  NoRepo = NoRepo
  PVCs <- OnePVC
  NameOf <- OwnNames
  Repos <- OneRepo
  Specs <- EmptySpec
  BackupTimes <- NoTimes
  ForgetTimes <- NoTimes
  AutoRestore = FALSE
  UserActions = {"deleteConfig", "backupPVC"}
  TasksRun = FALSE
  Faults = {}
  MaxFaults = 0
  MaxRequests = 1
  MaxClock = 0
  MaxTasks = 3
PROPERTIES DeletionEnds RequestsSettle
CHECK_DEADLOCK FALSE
