\* Two PVCs, three repositories, every documented form of an annotation.
SPECIFICATION Spec
CONSTANTS
  Words <- AllWords
  LatestWords <- LatestValues
  Numerals <- Digits
  Number <- Values
  Repositories <- ThreeRepositories
  PVCs <- DistinctPVCs
  Annotations <- Documented
  TaskNames <- BackupTasks
  Ids <- SnapshotIds
  MaxSnapshots = 2
INVARIANTS SameRulesWhenPlain NamedBackupsAreFound RestoresOwnData
