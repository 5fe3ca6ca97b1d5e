\* A size is lost in two ways: the worker dies once, between the patches and the status
\* write, or a scale-up patch is refused.  Take one of the faults away to see the other.
SPECIFICATION Spec
CONSTANTS
  t1 = t1
  t2 = t2
  w1 = w1
  w2 = w2
  NoTask = NoTask
  Tasks <- OneTask
  Workloads <- OneWorkload
  Desired <- DesiredOne
  StopPodsChoices = {TRUE}
  TemplateChoices = {TRUE}
  InitialPods = {"ready"}
  JobOutcomes = {"succeeded"}
  UserDeletes = FALSE
  Faults = {"abort", "patchUp"}
  MaxFaults = 1
INVARIANTS SizesRemembered
CHECK_DEADLOCK FALSE
