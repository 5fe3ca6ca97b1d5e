\* Two PVCs that appear, and two manual requests on them or on the Config, whose list
\* of repositories may be empty, while any one step may fail.  MaxTasks is never
\* reached: the worker does not deadlock on it.
SPECIFICATION Spec
CONSTANTS
  p1 = p1
  p2 = p2
  r1 = r1
  r2 = r2
  NoPVC = NoPVC
  NoRepo = NoRepo
  PVCs <- TwoPVCs
  NameOf <- OwnNames
  Repos <- OneRepo
  Specs <- MaybeEmptySpec
  BackupTimes <- NoTimes
  ForgetTimes <- NoTimes
  AutoRestore = TRUE
  UserActions = {"backupPVC", "restorePVC", "backupConfig", "restoreConfig"}
  TasksRun = FALSE
  Faults = {"abort", "staleConfig", "stalePVC", "list", "create", "restic", "otherWrite"}
  MaxFaults = 1
  MaxRequests = 2
  MaxClock = 0
  MaxTasks = 10
INVARIANTS TypeOK RestoresCounted
PROPERTIES RequestsKept
