\* A PVC b-data in the namespace a, a PVC data in the namespace a-b.
SPECIFICATION Spec
CONSTANTS
  Words <- AllWords
  LatestWords <- LatestValues
  Numerals <- Digits
  Number <- Values
  Repositories <- TwoRepositories
  PVCs <- DashedPVCs
  Annotations <- OneWord
  TaskNames <- BackupTasks
  Ids <- SnapshotIds
  MaxSnapshots = 2
INVARIANTS RestoresOwnData
