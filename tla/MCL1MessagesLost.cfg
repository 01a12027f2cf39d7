SPECIFICATION Spec
CONSTANTS
  indexer = indexer
  backfill = backfill
  m1 = m1
  m2 = m2
  m3 = m3
  MaxL1 = 2
  LogBatch = 2
  Limit = 1
  MaxFaults = 1
  MaxLinking = 2
  Savers <- MCSavers
  Indexer <- indexer
  Messages <- MCSmallMessages
  Deliveries <- MCOneEach
INVARIANTS
  EachRecorded
