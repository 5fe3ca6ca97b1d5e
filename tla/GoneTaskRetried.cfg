\* One Task, which finishes or is deleted: its key is retried for ever.
CONSTANTS
  t1 = t1  t2 = t2  c1 = c1  c2 = c2
  NoKey = NoKey
  Tasks <- OneTask
  Configs <- NoConfigs
  Last = 2
  UserDeletes = TRUE
  MaxIncidents = 0
SPECIFICATION FairSpec
PROPERTIES GoneKeysRest
CHECK_DEADLOCK FALSE
