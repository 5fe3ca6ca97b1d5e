\* Two Tasks stop the pods of one PVC: the second records the size 0, the first to
\* end wakes the pods under the Job of the other, and one waits for ever for pods the
\* other has stopped again.  Each property is violated: check them one at a time.
SPECIFICATION FairSpec
CONSTANTS
  t1 = t1
  t2 = t2
  w1 = w1
  w2 = w2
  NoTask = NoTask
  Tasks <- TwoTasks
  Workloads <- OneWorkload
  Desired <- DesiredOne
  StopPodsChoices = {TRUE}
  TemplateChoices = {TRUE}
  InitialPods = {"ready"}
  JobOutcomes = {"succeeded"}
  UserDeletes = FALSE
  Faults = {}
  MaxFaults = 0
INVARIANTS SizesRemembered QuietDuringJob
PROPERTIES EveryTaskSettles
CHECK_DEADLOCK FALSE
