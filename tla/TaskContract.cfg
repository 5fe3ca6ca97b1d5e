\* One Task, two workloads in any state, two adverse events of every kind, and
\* deletions.  A Task that is removed leaves the controller with nothing to do.
SPECIFICATION Spec
CONSTANTS
  t1 = t1
  t2 = t2
  w1 = w1
  w2 = w2
  NoTask = NoTask
  Tasks <- OneTask
  Workloads <- TwoWorkloads
  Desired <- DesiredTwo
  StopPodsChoices = {TRUE, FALSE}
  TemplateChoices = {TRUE, FALSE}
  InitialPods = {"gone", "unready", "ready"}
  JobOutcomes = {"succeeded", "failed"}
  UserDeletes = TRUE
  Faults = {"abort", "staleTask", "staleJob", "lookup", "patchDown", "patchUp", "expire"}
  MaxFaults = 2
INVARIANTS TypeOK WorkIsGuarded CopiesAreVersions ScalingInv SizesKept HeldDuringJob NotRelaunched JobAttended SuccessKept
PROPERTIES Contract WakeAfterJob
CHECK_DEADLOCK FALSE
