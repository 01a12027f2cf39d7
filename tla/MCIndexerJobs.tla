---------------------------- MODULE MCIndexerJobs ----------------------------
(* Small instances for TLC of the indexer's jobs beside the live poll, of what *)
(* they extract, and of the RPC calls under them.  The parts share no state: a *)
(* behaviour is about one of them, and the others stay where they are.         *)
EXTENDS Backfills, StandaloneBackfill, RpcRouter, TokenMetadata, Receipts

VARIABLE which

mcVars == <<which, scanVars, standaloneVars, routerVars, senderVars, metaVars, receiptVars>>

MCExposed == [t1 |-> {"name", "symbol"}, t2 |-> {}]

Log(block, topic0, topics, words, ids, values) ==
  [block |-> block, topic0 |-> topic0, topics |-> topics, words |-> words,
   ids |-> ids, values |-> values]

MCShape ==
  [erc20  |-> Log(1, "Transfer", 3, 1, 0, 0),  erc721 |-> Log(1, "Transfer", 4, 0, 0, 0),
   nodata |-> Log(1, "Transfer", 3, 0, 0, 0),  odd    |-> Log(1, "Transfer", 4, 1, 0, 0),
   single |-> Log(1, "TransferSingle", 4, 2, 0, 0),
   batch  |-> Log(1, "TransferBatch", 4, 8, 2, 3),
   op     |-> Log(1, "UserOperationEvent", 4, 4, 0, 0),
   op2    |-> Log(1, "UserOperationEvent", 4, 4, 0, 0),
   \* An amount of two words, and a value that is missing.
   long   |-> Log(2, "Transfer", 3, 2, 0, 0),  short  |-> Log(2, "TransferSingle", 4, 1, 0, 0),
   op3    |-> Log(2, "UserOperationEvent", 4, 4, 0, 0)]
MCLogs == DOMAIN MCShape

\* Bounds: URLs of all providers together, and of both lists.
MCUrls == 3
MCListed == 3

\* A part's initial states, and one of them for the behaviours that are not about it.
Part(w, init, rest) == IF which = w THEN init ELSE init /\ rest

Init ==
  /\ which \in {"jobs", "standalone", "router", "sender", "metadata", "receipts"}
  /\ Part("jobs", ScanInit, kind = "nft" /\ rows = {})
  /\ Part("standalone", StandaloneInit, tip = 0)
  /\ Part("router", RouterInit, \A p \in DOMAIN conf : conf[p] = 0)
  /\ conf["zan"] + conf["uniblock"] + conf["quicknode"] <= MCUrls
  /\ Part("sender", SenderInit, env.zan = <<>> /\ env.quicknode = <<>>)
  /\ Len(env.zan) + Len(env.quicknode) <= MCListed
  /\ Part("metadata", MetaInit, known = {})
  /\ ReceiptsInit

Next ==
  /\ UNCHANGED which
  /\ \/ /\ which = "jobs" /\ ScanNext
        /\ UNCHANGED <<standaloneVars, routerVars, senderVars, metaVars, receiptVars>>
     \/ /\ which = "standalone" /\ StandaloneNext
        /\ UNCHANGED <<scanVars, routerVars, senderVars, metaVars, receiptVars>>
     \/ /\ which = "router" /\ RouterNext
        /\ UNCHANGED <<scanVars, standaloneVars, senderVars, metaVars, receiptVars>>
     \/ /\ which = "sender" /\ SenderNext
        /\ UNCHANGED <<scanVars, standaloneVars, routerVars, metaVars, receiptVars>>
     \/ /\ which = "metadata" /\ MetaNext
        /\ UNCHANGED <<scanVars, standaloneVars, routerVars, senderVars, receiptVars>>
     \/ /\ which = "receipts" /\ SaversNext
        /\ UNCHANGED <<scanVars, standaloneVars, routerVars, senderVars, metaVars>>

\* The job of the other parts' behaviours never begins: fairness asks nothing there.
Spec == Init /\ [][Next]_mcVars /\ ScanFairness
=============================================================================
