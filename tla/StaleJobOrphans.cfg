\* The Job is read from a cache that lags; the user deletes the Task.
SPECIFICATION Spec
CONSTANTS
  t1 = t1
  t2 = t2
  w1 = w1
  w2 = w2
  NoTask = NoTask
  Tasks <- OneTask
  Workloads <- OneWorkload
  Desired <- DesiredOne
  StopPodsChoices = {TRUE}
  TemplateChoices = {TRUE}
  InitialPods = {"ready"}
  JobOutcomes = {"succeeded"}
  UserDeletes = TRUE
  Faults = {"staleJob"}
  MaxFaults = 1
INVARIANTS JobNotOrphaned
CHECK_DEADLOCK FALSE
