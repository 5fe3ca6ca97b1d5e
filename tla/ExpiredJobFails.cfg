\* The Job is deleted by its TTL before the Task is updated.
SPECIFICATION Spec
CONSTANTS
  t1 = t1
  t2 = t2
  w1 = w1
  w2 = w2
  NoTask = NoTask
  Tasks <- OneTask
  Workloads <- OneWorkload
  Desired <- DesiredOne
  StopPodsChoices = {TRUE}
  TemplateChoices = {TRUE}
  InitialPods = {"ready"}
  JobOutcomes = {"succeeded"}
  UserDeletes = FALSE
  Faults = {"expire"}
  MaxFaults = 1
INVARIANTS SuccessIsReported
CHECK_DEADLOCK FALSE
