\* Two incarnations of one PVC, whose data the later of two old snapshots holds; a schedule is due
\* at once, as it is when a Config is applied again; an application writes once.  Three Tasks:
\* restores of both incarnations and a backup of either.  The worker stops where a fourth would
\* be created.  No adverse events: they are the subject of the runs of ConfigReconciler.
SPECIFICATION FairRecoverySpec
CONSTANTS
  p1 = p1  p2 = p2  r1 = r1
  NoPVC = NoPVC  NoRepo = NoRepo
  PVCs <- TwoPVCs
  NameOf <- OneName
  Repos <- OneRepo
  Specs <- FixedSpec
  BackupTimes <- EveryTick
  ForgetTimes <- NoTimes
  AutoRestore = TRUE
  UserActions = {"deletePVC"}
  TasksRun = TRUE
  Faults = {}
  MaxFaults = 0
  MaxRequests = 0
  MaxClock = 0
  MaxTasks = 3
  Archive <- TwoSnapshots
  JobsFail = FALSE
  MaxWrites = 1
INVARIANTS DataTypeOK DataIsBackUnlessOvertaken
PROPERTIES NewPVCsRecover
CHECK_DEADLOCK FALSE
