\* Requests, a PVC that appears and a schedule, served in the
\* end although one step fails.  MaxTasks is never reached.
SPECIFICATION FairSpec
CONSTANTS
  p1 = p1
  p2 = p2
  r1 = r1
  r2 = r2
  NoPVC = NoPVC
  NoRepo = NoRepo
  PVCs <- OnePVC
  NameOf <- OwnNames
  Repos <- OneRepo
  Specs <- FixedSpec
  BackupTimes <- EveryTick
  ForgetTimes <- NoTimes
  AutoRestore = TRUE
  UserActions = {"restorePVC", "backupConfig"}
  TasksRun = FALSE
  Faults = {"abort", "create", "list", "restic", "stalePVC", "otherWrite"}
  MaxFaults = 1
  MaxRequests = 2
  MaxClock = 1
  MaxTasks = 9
INVARIANTS RestoreFirst
PROPERTIES RequestsSettle NewPVCsSettle SchedulesRun
