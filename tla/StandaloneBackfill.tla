-------------------------- MODULE StandaloneBackfill --------------------------
(***************************************************************************)
(* The standalone indexer (src/hoodscan-indexer): backfill.ts walks from    *)
(* its checkpoint to the chain's head in windows of parallel fetches and    *)
(* stores what it has fetched in batches, and fill-gaps.ts, beside it,      *)
(* fetches the numbers that are missing between stored blocks.  Either can  *)
(* be interrupted and started again by hand.                                *)
(***************************************************************************)
EXTENDS Integers, FiniteSets, FiniteSetsExt

CONSTANTS
  MaxTip,       \* bound: the newest block the chain reaches
  Concurrency,  \* blocks in a window, of both programs
  BatchSize,    \* BACKFILL_BATCH_SIZE
  MaxTrouble    \* bound: null answers, failed fetches and interrupted programs

ASSUME StandaloneAssumption ==
  /\ MaxTip \in Nat /\ MaxTrouble \in Nat
  /\ Concurrency \in Nat \ {0} /\ BatchSize \in Nat \ {0}

Chain == 0 .. MaxTip

VARIABLES
  tip,               \* the chain's newest block
  table,             \* blocks with a Block row
  txTable,           \* blocks whose transactions are stored
  lastIndexedBlock,  \* BackfillProgress
  mainAt,            \* where backfill.ts is
  chainHead,         \* its locals
  current,
  buffer,            \* "batch": fetched blocks that are not stored
  fillAt,            \* where fill-gaps.ts is
  missing,           \* what is left of its list
  fillBatch,         \* the window it has fetched
  trouble,
  nulled,            \* history: blocks backfill.ts was answered null for
  beyond,            \* history: blocks below a checkpoint, above the head it had read
  listed,            \* history: the range fill-gaps.ts has looked at
  failed,            \* history: blocks fill-gaps.ts could not fetch
  torn               \* history: blocks a program died over between its two statements

mainVars == <<lastIndexedBlock, mainAt, chainHead, current, buffer, nulled, beyond>>
fillVars == <<fillAt, missing, fillBatch, listed, failed>>
standaloneVars == <<tip, table, txTable, trouble, torn, mainVars, fillVars>>

StandaloneInit ==
  /\ tip \in Chain
  /\ table = {} /\ txTable = {} /\ lastIndexedBlock = -1
  /\ mainAt = "off" /\ chainHead = 0 /\ current = 0 /\ buffer = {}
  /\ fillAt = "off" /\ missing = {} /\ fillBatch = {}
  /\ trouble = 0
  /\ nulled = {} /\ beyond = {} /\ listed = {} /\ failed = {} /\ torn = {}

Least(a, b) == IF a < b THEN a ELSE b

Trouble(n) == trouble + n <= MaxTrouble /\ trouble' = trouble + n

-----------------------------------------------------------------------------
(* backfill.ts. *)

\* main, up to the loop: some endpoint's head, then the checkpoint.
MainStart ==
  /\ mainAt = "off"
  /\ chainHead' \in 0 .. tip
  /\ current' = lastIndexedBlock + 1
  /\ current' <= chainHead'
  /\ mainAt' = "fetch"
  /\ UNCHANGED <<tip, table, txTable, trouble, torn, lastIndexedBlock, buffer, nulled,
                 beyond, fillVars>>

\* current moves past the whole window, the part above chainHead included.
FetchWindow ==
  /\ mainAt = "fetch"
  /\ LET window == current .. Least(current + Concurrency - 1, chainHead)
     IN \E N \in SUBSET window :
          /\ Trouble(Cardinality(N))
          /\ buffer' = buffer \cup (window \ N)
          /\ nulled' = nulled \cup N
  /\ current' = current + Concurrency
  /\ mainAt' = IF Cardinality(buffer') >= BatchSize \/ current' > chainHead
               THEN "blocks" ELSE "fetch"
  /\ UNCHANGED <<tip, table, txTable, torn, lastIndexedBlock, chainHead, beyond, fillVars>>

\* flushBatch: createMany for the blocks, then for the transactions.
FlushBlocks ==
  /\ mainAt = "blocks"
  /\ table' = table \cup buffer
  /\ mainAt' = "transactions"
  /\ UNCHANGED <<tip, txTable, trouble, torn, lastIndexedBlock, chainHead, current, buffer,
                 nulled, beyond, fillVars>>

FlushTransactions ==
  /\ mainAt = "transactions"
  /\ txTable' = txTable \cup buffer
  /\ mainAt' = "checkpoint"
  /\ UNCHANGED <<tip, table, trouble, torn, lastIndexedBlock, chainHead, current, buffer,
                 nulled, beyond, fillVars>>

\* Mutant: the checkpoint is that of the window that has just started.
SaveCheckpointAhead ==
  /\ mainAt = "checkpoint"
  /\ lastIndexedBlock' = current
  /\ beyond' = beyond \cup (chainHead + 1 .. current - 1)
  /\ buffer' = {}
  /\ mainAt' = IF current <= chainHead THEN "fetch" ELSE "off"
  /\ UNCHANGED <<tip, table, txTable, trouble, torn, chainHead, current, nulled, fillVars>>

\* saveCheckpoint(current - 1), and the loop's condition.
SaveCheckpoint ==
  /\ mainAt = "checkpoint"
  /\ lastIndexedBlock' = current - 1
  /\ beyond' = beyond \cup (chainHead + 1 .. current - 1)
  /\ buffer' = {}
  /\ mainAt' = IF current <= chainHead THEN "fetch" ELSE "off"
  /\ UNCHANGED <<tip, table, txTable, trouble, torn, chainHead, current, nulled, fillVars>>

\* Ctrl+C, a block that failed its attempts, a rejected write.
MainDies ==
  /\ mainAt # "off"
  /\ Trouble(1)
  /\ mainAt' = "off" /\ buffer' = {}
  /\ torn' = IF mainAt = "transactions" THEN torn \cup buffer ELSE torn
  /\ UNCHANGED <<tip, table, txTable, lastIndexedBlock, chainHead, current, nulled,
                 beyond, fillVars>>

-----------------------------------------------------------------------------
(* fill-gaps.ts. *)

\* The query's rows: a row without a successor begins a gap up to the next row.
Gaps == {<<b + 1, Min({c \in table : c > b}) - 1>> :
           b \in {d \in table : d < Max(table) /\ d + 1 \notin table}}

\* Mutant: a gap's end is taken for exclusive.
FindMissingShort ==
  UNION {g[1] .. g[2] - 1 : g \in Gaps}

findMissingBlockNumbers ==
  UNION {g[1] .. g[2] : g \in Gaps}

FillStart ==
  /\ fillAt \in {"off", "done"}
  /\ missing' = findMissingBlockNumbers
  /\ listed' = IF table = {} THEN {} ELSE Min(table) .. Max(table)
  /\ failed' = {}
  /\ fillAt' = IF missing' = {} THEN "done" ELSE "window"
  /\ UNCHANGED <<tip, table, txTable, trouble, torn, mainVars, fillBatch>>

\* Null and failed alike are left out and counted.
FillWindow ==
  /\ fillAt = "window"
  /\ LET window == {b \in missing : Cardinality({c \in missing : c < b}) < Concurrency}
     IN \E N \in SUBSET window :
          /\ Trouble(Cardinality(N))
          /\ fillBatch' = window \ N
          /\ failed' = failed \cup N
          /\ missing' = missing \ window
  /\ fillAt' = "blocks"
  /\ UNCHANGED <<tip, table, txTable, torn, mainVars, listed>>

FillBlocks ==
  /\ fillAt = "blocks"
  /\ table' = table \cup fillBatch
  /\ fillAt' = "transactions"
  /\ UNCHANGED <<tip, txTable, trouble, torn, mainVars, missing, fillBatch, listed, failed>>

FillTransactions ==
  /\ fillAt = "transactions"
  /\ txTable' = txTable \cup fillBatch
  /\ fillBatch' = {}
  /\ fillAt' = IF missing = {} THEN "done" ELSE "window"
  /\ UNCHANGED <<tip, table, trouble, torn, mainVars, missing, listed, failed>>

FillDies ==
  /\ fillAt \in {"window", "blocks", "transactions"}
  /\ Trouble(1)
  /\ fillAt' = "off" /\ missing' = {} /\ fillBatch' = {}
  /\ torn' = IF fillAt = "transactions" THEN torn \cup fillBatch ELSE torn
  /\ UNCHANGED <<tip, table, txTable, mainVars, listed, failed>>

-----------------------------------------------------------------------------

ChainGrows ==
  /\ tip < MaxTip
  /\ tip' = tip + 1
  /\ UNCHANGED <<table, txTable, trouble, torn, mainVars, fillVars>>

StandaloneNext ==
  \/ MainStart \/ FetchWindow \/ FlushBlocks \/ FlushTransactions \/ SaveCheckpoint
  \/ MainDies
  \/ FillStart \/ FillWindow \/ FillBlocks \/ FillTransactions \/ FillDies
  \/ ChainGrows

StandaloneSpec == StandaloneInit /\ [][StandaloneNext]_standaloneVars

-----------------------------------------------------------------------------
(* Properties. *)

StandaloneTypeOK ==
  /\ tip \in Chain /\ table \subseteq 0 .. tip /\ txTable \subseteq table
  /\ lastIndexedBlock \in -1 .. MaxTip + Concurrency - 1
  /\ mainAt \in {"off", "fetch", "blocks", "transactions", "checkpoint"}
  /\ chainHead \in 0 .. tip /\ current \in 0 .. MaxTip + Concurrency
  /\ buffer \subseteq lastIndexedBlock + 1 .. chainHead
  /\ fillAt \in {"off", "window", "blocks", "transactions", "done"}
  /\ missing \subseteq listed /\ fillBatch \subseteq listed \ missing
  /\ trouble \in 0 .. MaxTrouble
  /\ torn \subseteq table /\ nulled \subseteq 0 .. tip /\ beyond \subseteq 0 .. MaxTip + Concurrency

\* Behind the checkpoint a block has its row and its transactions, or it was one of
\* the two known kinds of hole: answered null (backfill.ts:178), or numbered above
\* the head that run had read (backfill.ts:182).  Interrupts between the two writes
\* and the checkpoint, and the gap filler beside it, add no other.
HolesKnown ==
  \A b \in 0 .. Least(lastIndexedBlock, tip) :
    b \in table \cap txTable \/ b \in nulled \cup beyond

\* A gap fill that ends has closed every hole between the first and the last row there
\* was (below the first row it does not look, though fill-gaps.ts:2-3 says that it starts
\* at 0), but for the blocks it says it could not fetch; and a row there has its
\* transactions, unless the other program is about to store them, or one of them died
\* between its two statements: such a row is no hole to the query and is not repaired by
\* it (fill-gaps.ts:84-106, 118-131, 204-212).
FillerCovers ==
  fillAt = "done" => \A b \in listed \ failed :
    /\ b \in table
    /\ \/ b \in txTable \cup torn
       \/ mainAt = "transactions" /\ b \in buffer

\* "last saved checkpoint is safe to resume from" (backfill.ts:217): a block of the
\* chain that the next run starts above has been asked for.
CheckpointSafe ==
  \A b \in 0 .. Least(lastIndexedBlock, tip) : b \in table \cup nulled
=============================================================================
