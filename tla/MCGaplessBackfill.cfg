SPECIFICATION Spec
CONSTANTS
  MaxHead = 2
  Concurrency = 2
  HeadLag = 0
  LogBlocks = {1}
  ReceiptsSent = {TRUE}
  Plans <- MCPlans
INVARIANTS
  TypeOK
  PassedSettled
  PassedComplete
  FinishedCoversRange
  HalfStoredRevisited
PROPERTIES
  DequeuedOnlyStored
  CheckpointAdvances
  KeepsPromise
