\* One repository whose schedule fires three times while its Tasks make progress
\* and the lists of PVCs and Tasks may lag.  MaxTasks is never reached.
SPECIFICATION FairSpec
CONSTANTS
  p1 = p1
  p2 = p2
  r1 = r1
  r2 = r2
  NoPVC = NoPVC
  NoRepo = NoRepo
  PVCs <- OnePVC
  NameOf <- OwnNames
  Repos <- OneRepo
  Specs <- FixedSpec
  BackupTimes <- EveryTick
  ForgetTimes <- NoTimes
  AutoRestore = FALSE
  UserActions = {}
  TasksRun = TRUE
  Faults = {"abort", "staleTask", "stalePVC", "create"}
  MaxFaults = 1
  MaxRequests = 0
  MaxClock = 2
  MaxTasks = 5
PROPERTIES RunIsBackedUp
