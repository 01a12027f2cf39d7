SPECIFICATION Spec
CONSTANTS
  MaxHead = 2
  Concurrency = 1
  HeadLag = 2
  LogBlocks = {1}
  ReceiptsSent = {TRUE, FALSE}
  Plans <- MCPlans
INVARIANTS
  PassedSettled
