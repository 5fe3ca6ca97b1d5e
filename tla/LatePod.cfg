\* Two workloads, the pods of which may not exist yet when the Task begins: one that
\* comes later is not stopped, and keeps the Task waiting for ever.  Each property is
\* violated: check them one at a time.
SPECIFICATION FairSpec
CONSTANTS
  t1 = t1
  t2 = t2
  w1 = w1
  w2 = w2
  NoTask = NoTask
  Tasks <- OneTask
  Workloads <- TwoWorkloads
  Desired <- DesiredTwo
  StopPodsChoices = {TRUE}
  TemplateChoices = {TRUE}
  InitialPods = {"gone", "ready"}
  JobOutcomes = {"succeeded"}
  UserDeletes = FALSE
  Faults = {}
  MaxFaults = 0
INVARIANTS QuietDuringJob
PROPERTIES EveryTaskSettles
CHECK_DEADLOCK FALSE
