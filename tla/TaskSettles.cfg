\* One Task reaches its end and gives the workloads their sizes back, whatever fails
\* on the way, if pods have appeared.
SPECIFICATION FairSpec
CONSTANTS
  t1 = t1
  t2 = t2
  w1 = w1
  w2 = w2
  NoTask = NoTask
  Tasks <- OneTask
  Workloads <- TwoWorkloads
  Desired <- DesiredTwo
  StopPodsChoices = {TRUE, FALSE}
  TemplateChoices = {TRUE}
  InitialPods = {"unready", "ready"}
  JobOutcomes = {"succeeded", "failed"}
  UserDeletes = TRUE
  Faults = {"abort", "staleTask", "staleJob", "patchUp", "expire"}
  MaxFaults = 2
PROPERTIES EveryTaskSettles WorkloadsReturn
CHECK_DEADLOCK FALSE
