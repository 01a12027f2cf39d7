SPECIFICATION ItSpec
CONSTANTS
  Txs = {"t1", "t2"}
  Calls <- MCCalls
  Requests = {"r1", "r2"}
INVARIANT OneRowPerCall
