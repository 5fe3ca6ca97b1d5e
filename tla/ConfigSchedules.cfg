\* Two repositories with schedules in a list users extend and reorder; the worker
\* may die or read a Config that lags.  A deleted Config stops the controller.
SPECIFICATION Spec
CONSTANTS
  p1 = p1
  p2 = p2
  r1 = r1
  r2 = r2
  NoPVC = NoPVC
  NoRepo = NoRepo
  PVCs <- OnePVC
  NameOf <- OwnNames
  Repos <- TwoRepos
  Specs <- EditedSpecs
  BackupTimes <- EveryTick
  ForgetTimes <- SecondTick
  AutoRestore = FALSE
  UserActions = {"editSpec", "deleteConfig", "deletePVC"}
  TasksRun = FALSE
  Faults = {"abort", "staleConfig", "restic"}
  MaxFaults = 1
  MaxRequests = 1
  MaxClock = 1
  MaxTasks = 6
INVARIANTS ReposAligned
PROPERTIES TimesAdvance
CHECK_DEADLOCK FALSE
