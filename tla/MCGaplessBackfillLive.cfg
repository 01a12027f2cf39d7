SPECIFICATION FairSpec
CONSTANTS
  MaxHead = 1
  Concurrency = 2
  HeadLag = 0
  LogBlocks = {1}
  ReceiptsSent = {TRUE, FALSE}
  Plans <- MCSmallPlans
PROPERTIES
  JobEnds
  RetryPassEnds
