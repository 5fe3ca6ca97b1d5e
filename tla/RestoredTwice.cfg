\* Somebody else writes to a new PVC, as the controller that binds it does, between the
\* creation of its restore and the mark.
SPECIFICATION Spec
CONSTANTS
  p1 = p1
  p2 = p2
  r1 = r1
  r2 = r2
  NoPVC = NoPVC
  NoRepo = NoRepo
  PVCs <- OnePVC
  NameOf <- OwnNames
  Repos <- OneRepo
  Specs <- FixedSpec
  BackupTimes <- NoTimes
  ForgetTimes <- NoTimes
  AutoRestore = TRUE
  UserActions = {}
  TasksRun = FALSE
  Faults = {"otherWrite"}
  MaxFaults = 1
  MaxRequests = 0
  MaxClock = 0
  MaxTasks = 3
INVARIANTS RestoredOnce
CHECK_DEADLOCK FALSE
