SPECIFICATION Spec
CONSTANTS
  Txs <- MCTxs
  Calls <- MCCalls
  Requests = {"r1", "r2"}
  Contracts = {"a", "b"}
  Implementation <- MCImplementation
  Readers = {"r1"}
  MaxRejections = 1
  Addresses = {"nft"}
  Answers <- MCAnswers
  Nfts = {"nft"}
  Wants <- MCWants
  EXPLORER_LIST_CAP = 40
  Sizes = {25, 50}
  Inserts = {1}
  StoredTotals = {20, 60}
  MaxChanges = 1
  MaxPages = 2
  Submissions = {"s1", "s2"}
  Standard = TRUE
  Accounts = {"a"}
  Slots = {"s", "t"}
INVARIANTS
  AnswerComplete
  VerifiedIsFound
  DetailHeals
  LongEntriesTrue
  WalkComplete
  DiffAppliesBack
PROPERTIES
  ResolutionEnds
  VerifiedStays
CHECK_DEADLOCK FALSE
