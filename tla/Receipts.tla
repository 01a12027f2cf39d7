------------------------------- MODULE Receipts -------------------------------
(***************************************************************************)
(* What becomes of the logs in a block's receipts (apps/indexer:           *)
(* services/tokenTransferService.ts, nftTransferService.ts, logService.ts, *)
(* called by the live poll, the gapless job and two backfills): the rows   *)
(* extracted for three tables, each saved by one createMany that skips     *)
(* what is there, by jobs that overlap and die.  The transaction page      *)
(* reads user operations back from them (apps/api:                         *)
(* controllers/userOperations.controller.ts).                              *)
(***************************************************************************)
EXTENDS Integers, FiniteSets

CONSTANTS
  Logs,    \* logs of the blocks
  Shape,   \* [Logs -> [block, topic0, topics, words, ids, values]]: what a log looks like
  Savers   \* jobs: "index" (poll or gapless), "nft" and "logs" backfills

Topics0 == {"Transfer", "TransferSingle", "TransferBatch", "UserOperationEvent", "other"}
Blocks == {Shape[l].block : l \in Logs}

\* words: 32-byte words of data; ids and values: lengths of a batch's two arrays.
ASSUME ReceiptsAssumption ==
  /\ \A l \in Logs :
       /\ Shape[l].topic0 \in Topics0 /\ Shape[l].topics \in 0..4
       /\ Shape[l].words \in Nat /\ Shape[l].ids \in Nat /\ Shape[l].values \in Nat
  /\ Savers \subseteq {"index", "nft", "logs"}

VARIABLES
  tokenRows,  \* TokenTransfer: logs
  nftRows,    \* NftTransfer: <<log, batchIndex>>
  logRows,    \* Log: logs
  saver,      \* [Savers -> [at, block]]
  operations  \* the user operations the page shows for a block: [Blocks -> SUBSET Logs]

receiptVars == <<tokenRows, nftRows, logRows, saver, operations>>

Waiting == [at |-> "waiting", block |-> 0]

ReceiptsInit ==
  /\ tokenRows = {} /\ nftRows = {} /\ logRows = {}
  /\ saver = [j \in Savers |-> Waiting]
  /\ operations = [b \in Blocks |-> {}]

LogsOf(b) == {l \in Logs : Shape[l].block = b}
Moved(j, at) == saver' = [saver EXCEPT ![j].at = at]

-----------------------------------------------------------------------------
(* Extraction.                                                              *)

\* Mutant: any Transfer with data is taken for an ERC-20 one.
ExtractAnyTransfer(logs) ==
  {l \in logs : Shape[l].topic0 = "Transfer" /\ Shape[l].words > 0}

\* ERC-20: exactly three topics, and an amount.
extractTokenTransfers(logs) ==
  {l \in logs : Shape[l].topic0 = "Transfer" /\ Shape[l].topics = 3 /\ Shape[l].words > 0}

\* ERC-721: the same topic0 with four.  ERC-1155: one id and value, or arrays of
\* them, as many as the shorter array has.
extractNftTransfers(logs) ==
  LET rows(l) ==
        CASE Shape[l].topic0 = "Transfer" -> {0}
          [] Shape[l].topic0 = "TransferSingle" /\ Shape[l].words >= 2 -> {0}
          [] Shape[l].topic0 = "TransferBatch" ->
               {i \in 0..Shape[l].ids : i < Shape[l].ids /\ i < Shape[l].values}
          [] OTHER -> {}
  IN UNION {{<<l, i>> : i \in rows(l)} : l \in {k \in logs : Shape[k].topics = 4}}

\* Every log.
extractLogs(logs) == logs

\* The amount column holds 78 digits: what one word holds, and not two.
Fits(rows) == \A l \in rows : Shape[l].words = 1

-----------------------------------------------------------------------------
(* The jobs.                                                                *)

\* A job has the receipts of a block.  backfillLogs passes a block that has a row.
Begin(j, b) ==
  /\ saver[j] = Waiting
  /\ j = "logs" => LogsOf(b) \cap logRows = {}
  /\ saver' = [saver EXCEPT ![j] =
       [at |-> CASE j = "index" -> "tokens" [] j = "nft" -> "nfts" [] j = "logs" -> "logs",
        block |-> b]]
  /\ UNCHANGED <<tokenRows, nftRows, logRows, operations>>

\* One statement: an amount that does not fit rejects the rows of the whole block, and
\* with it the job's work on it.
saveTokenTransfers(j) ==
  LET rows == extractTokenTransfers(LogsOf(saver[j].block)) IN
  /\ saver[j].at = "tokens" /\ Fits(rows)
  /\ tokenRows' = tokenRows \cup rows
  /\ Moved(j, "nfts")
  /\ UNCHANGED <<nftRows, logRows, operations>>

saveNftTransfers(j) ==
  /\ saver[j].at = "nfts"
  /\ nftRows' = nftRows \cup extractNftTransfers(LogsOf(saver[j].block))
  /\ saver' = [saver EXCEPT ![j] = IF j = "index" THEN [@ EXCEPT !.at = "logs"] ELSE Waiting]
  /\ UNCHANGED <<tokenRows, logRows, operations>>

saveLogs(j) ==
  /\ saver[j].at = "logs"
  /\ logRows' = logRows \cup extractLogs(LogsOf(saver[j].block))
  /\ saver' = [saver EXCEPT ![j] = Waiting]
  /\ UNCHANGED <<tokenRows, nftRows, operations>>

\* The job fails, or its process dies, between two statements.
SaverStops(j) ==
  /\ saver[j] # Waiting
  /\ saver' = [saver EXCEPT ![j] = Waiting]
  /\ UNCHANGED <<tokenRows, nftRows, logRows, operations>>

\* The page asks for the user operations of a transaction of a block.
listTransactionUserOperations(b) ==
  /\ operations' = [operations EXCEPT ![b] =
       {l \in LogsOf(b) \cap logRows : Shape[l].topic0 = "UserOperationEvent"}]
  /\ UNCHANGED <<tokenRows, nftRows, logRows, saver>>

SaversNext ==
  \/ \E j \in Savers :
       \/ \E b \in Blocks : Begin(j, b)
       \/ saveTokenTransfers(j) \/ saveNftTransfers(j) \/ saveLogs(j) \/ SaverStops(j)
  \/ \E b \in Blocks : listTransactionUserOperations(b)

ReceiptsSpec == ReceiptsInit /\ [][SaversNext]_receiptVars

-----------------------------------------------------------------------------
(* Properties.                                                              *)

\* However jobs overlap, repeat and die: no event is both a token transfer and an NFT
\* transfer though the two share a topic (tokenTransferService.ts:39-44), and a block's
\* logs are all stored or none, as backfillLogs.ts:84-90 counts on when it passes a
\* block with a row, and as the page shows them: every user operation, or none.
EventInOneTable ==
  /\ \A r \in nftRows : r[1] \notin tokenRows
  /\ \A l \in logRows : LogsOf(Shape[l].block) \subseteq logRows
  /\ \A b \in DOMAIN operations : operations[b] # {} =>
       operations[b] = {l \in LogsOf(b) : Shape[l].topic0 = "UserOperationEvent"}
=============================================================================
