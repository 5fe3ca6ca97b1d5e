\* What one annotation means, three times: four words, a name alone, an ID with a host.
\* Each invariant is violated; TLC's option -continue shows them all.
SPECIFICATION Spec
CONSTANTS
  Words <- AllWords
  LatestWords <- LatestValues
  Numerals <- Digits
  Number <- Values
  Repositories <- TwoRepositories
  PVCs <- DistinctPVCs
  Annotations <- SimpleOrLong
  TaskNames <- BackupTasks
  Ids <- SnapshotIds
  MaxSnapshots = 1
INVARIANTS SameRules NameIsEnough IdIsFound
