\* Two Tasks, so that one key waits behind another, and a Config in the other queue.
\* Stage 1 is the whole pipeline, 2 a Task that is finished and has no finalizer.
CONSTANTS
  t1 = t1  t2 = t2  c1 = c1  c2 = c2
  NoKey = NoKey
  Tasks <- TwoTasks
  Configs <- OneConfig
  Last = 2
  UserDeletes = TRUE
  MaxIncidents = 1
SPECIFICATION FairSpec
INVARIANTS TypeOK QueuesAgree KeyKept
PROPERTIES Attended DoneKeysRest
\* All Tasks may be finished and all Configs gone.
CHECK_DEADLOCK FALSE
