SPECIFICATION Spec
CONSTANTS
  Batches <- MCBatches
  MaxHistoryMessages = 6
  TailSize = 1
  MaxIterations = 2
  MaxRecoveries = 1
  DuplicateStreak = 1
  MaxRuns = 2
  MaxReplies = 2
  MaxExtras = 1
INVARIANTS
  RequestsWellFormed
  StoredResultsGrounded
  
PROPERTY
  RunEnds
  KeepsSessionLog
