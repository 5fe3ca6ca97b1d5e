\* The API server refuses the Job.
SPECIFICATION FairSpec
CONSTANTS
  t1 = t1
  t2 = t2
  w1 = w1
  w2 = w2
  NoTask = NoTask
  Tasks <- OneTask
  Workloads <- OneWorkload
  Desired <- DesiredOne
  StopPodsChoices = {TRUE}
  TemplateChoices = {FALSE}
  InitialPods = {"ready"}
  JobOutcomes = {"succeeded"}
  UserDeletes = FALSE
  Faults = {}
  MaxFaults = 0
PROPERTIES EveryTaskSettles
CHECK_DEADLOCK FALSE
