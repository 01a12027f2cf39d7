SPECIFICATION FairSpec
CONSTANTS
  indexer = indexer
  backfill = backfill
  m1 = m1
  m2 = m2
  m3 = m3
  MaxL1 = 3
  LogBatch = 2
  Limit = 1
  MaxFaults = 1
  MaxLinking = 2
  Savers <- MCSavers
  Indexer <- indexer
  Messages <- MCSmallMessages
  Deliveries <- MCTwoBlocks
PROPERTIES
  RecordedGetsLinked
