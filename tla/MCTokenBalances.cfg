SPECIFICATION Spec
CONSTANTS
  alice = alice
  bob = bob
  zero = zero
  MaxHead = 3
  Owners <- MCOwners
  Zero = zero
  Transfers <- MCTransfers
  Day <- MCDay
  MaxCount = 2
  MaxFaults = 1
INVARIANTS
  BalanceOfSet
  MissingExplained
  RecomputeExact
  RollupFresh
