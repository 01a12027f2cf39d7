SPECIFICATION FairSpec
CONSTANTS
  MaxHead = 3
  HeadLag = 1
  Concurrency = 2
  TicketBlock = 2
  MaxFaults = 2
INVARIANTS
  TypeOK
  RowsExplained
  PollCompletes
  CatchUpCovers
PROPERTIES
  FinalityReaches
