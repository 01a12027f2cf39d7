------------------------------ MODULE Backfills ------------------------------
(***************************************************************************)
(* The jobs that go over stored blocks once more, for rows derived from    *)
(* them: the startup NFT backfill (jobs/backfillNftTransfers.ts) and its   *)
(* script, the log and internal-transaction backfills                      *)
(* (jobs/backfillLogs.ts, jobs/backfillInternalTx.ts), and the receipt     *)
(* backfill (jobs/backfillReceipts.ts).  They do not meet: a behaviour is  *)
(* one job, over and over, beside whoever stores blocks.                   *)
(*                                                                         *)
(* The first two walk up, a block at a time; the next two walk down, a     *)
(* batch of parallel tasks at a time, and a restart resumes below the      *)
(* batch.  The last has no cursor: a block drops out of its query once its *)
(* fees are set.                                                           *)
(***************************************************************************)
EXTENDS Integers, FiniteSets, FiniteSetsExt

CONSTANTS
  MaxBlock,   \* bound: stored blocks
  PageSize,   \* PAGE, PAGE_SIZE, or RECEIPT_BACKFILL_BATCH_BLOCKS
  Parallel,   \* BACKFILL_CONCURRENCY of the jobs that walk down
  Refused,    \* blocks whose receipts no provider has
  Partial,    \* blocks an answer for which may lack a transaction's receipt
  MaxRejects  \* bound: rejected awaits and ends of a job

Stored == 1 .. MaxBlock

ASSUME BackfillsAssumption ==
  /\ MaxBlock \in Nat \ {0} /\ PageSize \in Nat \ {0} /\ Parallel \in Nat \ {0}
  /\ Refused \subseteq Stored /\ Partial \subseteq Stored /\ MaxRejects \in Nat

NoBlock == 0   \* no cursor row, or -1n

VARIABLES
  kind,     \* which job this behaviour is about
  rows,     \* blocks with a Block row
  derived,  \* blocks with the rows (for the receipts: the fees) the job writes
  cursor,   \* the job's IndexerCursor row
  at,       \* where the job is
  pos,      \* its cursor in memory
  bound,    \* the newest row when it started, for the startup NFT backfill
  page,     \* what is left of the page it has read
  batch,    \* tasks of its batch that have not ended
  last,     \* the batch's last block
  updated,  \* updatesThisBatch is not 0
  partial,  \* history: a block of this page got some of its receipts only
  rejects,
  owed      \* history: blocks in front of the job at one of its starts, unscanned

localVars == <<pos, bound, page, batch, last, updated, partial>>
scanVars  == <<kind, rows, derived, cursor, at, localVars, rejects, owed>>

\* The jobs with a cursor: whether they walk up, how many tasks run at once,
\* whether they stop at the newest row of their start, keep a cursor row, and pass a
\* block that has such rows already.
backfillNftTransfers ==
  [up |-> TRUE, tasks |-> 1, bounded |-> TRUE, keeps |-> TRUE, passes |-> FALSE]
nftScript == [backfillNftTransfers EXCEPT !.bounded = FALSE, !.keeps = FALSE]
backfillLogs ==
  [up |-> FALSE, tasks |-> Parallel, bounded |-> FALSE, keeps |-> TRUE, passes |-> TRUE]
backfillInternalTx == backfillLogs

Jobs == [nft |-> backfillNftTransfers, script |-> nftScript,
         logs |-> backfillLogs, internal |-> backfillInternalTx]
Kinds == DOMAIN Jobs \cup {"receipts"}

\* The receipt backfill walks down.
Ascending == kind # "receipts" /\ Jobs[kind].up

ScanInit ==
  /\ kind \in Kinds
  /\ rows \in SUBSET Stored /\ derived = {}
  /\ cursor = NoBlock
  /\ at = "off" /\ pos = NoBlock /\ bound = MaxBlock
  /\ page = {} /\ batch = {} /\ last = NoBlock /\ updated = FALSE
  /\ partial = FALSE
  /\ rejects = 0 /\ owed = {}

-----------------------------------------------------------------------------
(* Helpers. *)

Reject == rejects < MaxRejects /\ rejects' = rejects + 1

\* The query's condition on the block number, and its order.
InFront(c, top) ==
  IF Ascending THEN {b \in rows : c < b /\ b <= top}
  ELSE {b \in rows : c = NoBlock \/ b < c}

Before(b, c) == IF Ascending THEN b < c ELSE b > c

FirstOf(S, n) == {b \in S : Cardinality({c \in S : Before(c, b)}) < n}

LastOf(S) == IF Ascending THEN Max(S) ELSE Min(S)

\* The job returns or dies, and its locals are gone.
JobOver(place) ==
  /\ at' = place
  /\ pos' = NoBlock /\ bound' = MaxBlock
  /\ page' = {} /\ batch' = {} /\ last' = NoBlock /\ updated' = FALSE
  /\ partial' = FALSE

-----------------------------------------------------------------------------
(* The jobs with a cursor. *)

\* readCursor, readCheckpoint; the script keeps none and starts at --from.
Launch ==
  /\ at \in {"off", "ended"} /\ kind # "receipts"
  /\ LET top == IF Jobs[kind].bounded THEN Max(rows \cup {NoBlock}) ELSE MaxBlock
     IN bound' = top /\ owed' = owed \cup InFront(cursor, top)
  /\ pos' = cursor
  /\ at' = "page"
  /\ UNCHANGED <<kind, rows, derived, cursor, page, batch, last, updated, partial>>
  /\ UNCHANGED rejects

\* findMany in the job's order; an empty page ends it.
ReadPage ==
  /\ at = "page" /\ kind # "receipts"
  /\ LET rest == InFront(pos, bound)
     IN IF rest = {} THEN JobOver("ended")
        ELSE /\ page' = FirstOf(rest, PageSize)
             /\ at' = "run"
             /\ UNCHANGED <<pos, bound, batch, last, updated, partial>>
  /\ UNCHANGED <<kind, rows, derived, cursor, rejects, owed>>

\* The next blocks of the page: one, or a Promise.all of tasks.
StartBatch ==
  /\ at = "run" /\ batch = {} /\ last = NoBlock
  /\ batch' = FirstOf(page, Jobs[kind].tasks)
  /\ last' = LastOf(batch') /\ page' = page \ batch'
  /\ UNCHANGED <<kind, rows, derived, cursor, at, pos, bound, updated, partial>>
  /\ UNCHANGED <<rejects, owed>>

\* Fetch, extract, save.  The jobs that walk down skip a block that has such rows
\* already; whatever rejects is logged (by the callee, for the traces) and the
\* block counts as done.
Scan(b) ==
  /\ b \in batch
  /\ \/ derived' = derived \cup {b} /\ UNCHANGED rejects
     \/ /\ ~Jobs[kind].passes \/ b \notin derived
        /\ Reject
        /\ UNCHANGED derived
  /\ batch' = batch \ {b} /\ owed' = owed \ {b}
  /\ UNCHANGED <<kind, rows, cursor, at, pos, bound, page, last, updated, partial>>

\* Mutant: the checkpoint is written when the first task of the batch is done.
CheckpointEarly ==
  /\ at = "run" /\ last # NoBlock
  /\ cursor' = IF Jobs[kind].keeps THEN last ELSE cursor
  /\ at' = IF page = {} THEN "page" ELSE "run"
  /\ pos' = IF page = {} THEN last ELSE pos
  /\ last' = NoBlock
  /\ UNCHANGED <<kind, rows, derived, bound, page, batch, updated, partial>>
  /\ UNCHANGED <<rejects, owed>>

\* writeCursor or writeCheckpoint; after a page's last batch, the next page.
Checkpoint ==
  /\ at = "run" /\ last # NoBlock /\ batch = {}
  /\ cursor' = IF Jobs[kind].keeps THEN last ELSE cursor
  /\ at' = IF page = {} THEN "page" ELSE "run"
  /\ pos' = IF page = {} THEN last ELSE pos
  /\ last' = NoBlock
  /\ UNCHANGED <<kind, rows, derived, bound, page, batch, updated, partial>>
  /\ UNCHANGED <<rejects, owed>>

\* The process ends, or an await outside the try rejects (the count before the
\* fetch, the cursor's upsert); tasks left of the batch may still finish.
JobDies ==
  /\ at \notin {"off", "ended"}
  /\ Reject
  /\ \E S \in SUBSET batch : derived' = derived \cup S
  /\ JobOver("off")
  /\ UNCHANGED <<kind, rows, cursor, owed>>

-----------------------------------------------------------------------------
(* backfillReceipts. *)

ReceiptsLaunch ==
  /\ at \in {"off", "ended"} /\ kind = "receipts"
  /\ at' = "query"
  /\ UNCHANGED <<kind, rows, derived, cursor, localVars, rejects, owed>>

\* The newest blocks with a transaction without gasUsed.
ReceiptsQuery ==
  /\ at = "query"
  /\ LET feeless == rows \ derived
     IN IF feeless = {} THEN JobOver("ended")
        ELSE /\ page' = FirstOf(feeless, PageSize)
             /\ updated' = FALSE /\ partial' = FALSE
             /\ at' = "receipts"
             /\ UNCHANGED <<pos, bound, batch, last>>
  /\ UNCHANGED <<kind, rows, derived, cursor, rejects, owed>>

\* A block of the page: its receipts are written, all or those that the answer
\* has, which count as updates each time, or the answer is null (an empty list), or
\* something rejects and is logged.
ReceiptsBlock ==
  /\ at = "receipts" /\ page # {}
  /\ LET b == Max(page)
     IN /\ page' = page \ {b}
        /\ \/ b \in Refused /\ UNCHANGED <<derived, updated, partial, rejects>>
           \/ /\ b \notin Refused
              /\ derived' = derived \cup {b} /\ updated' = TRUE
              /\ UNCHANGED <<partial, rejects>>
           \/ /\ b \in Partial \ Refused
              /\ updated' = TRUE /\ partial' = TRUE
              /\ UNCHANGED <<derived, rejects>>
           \/ b \notin Refused /\ Reject /\ UNCHANGED <<derived, updated, partial>>
  /\ UNCHANGED <<kind, rows, cursor, at, pos, bound, batch, last, owed>>

\* Mutant: the loop goes on until the query is empty.
ReceiptsForever ==
  /\ at = "receipts" /\ page = {}
  /\ at' = "query"
  /\ UNCHANGED <<kind, rows, derived, cursor, localVars, rejects, owed>>

\* The safety valve: a page without an update is the last.
ReceiptsNext ==
  /\ at = "receipts" /\ page = {}
  /\ IF updated THEN at' = "query" /\ UNCHANGED localVars ELSE JobOver("ended")
  /\ UNCHANGED <<kind, rows, derived, cursor, rejects, owed>>

-----------------------------------------------------------------------------

\* The poll and the other backfills store a block, and perhaps its derived rows.
StoreBlock(b) ==
  /\ b \notin rows
  /\ rows' = rows \cup {b}
  /\ derived' \in {derived, derived \cup {b}}
  /\ UNCHANGED <<kind, cursor, at, localVars, rejects, owed>>

ScanStep == ReadPage \/ StartBatch \/ (\E b \in Stored : Scan(b)) \/ Checkpoint

ReceiptsStep == ReceiptsQuery \/ ReceiptsBlock \/ ReceiptsNext

ScanNext ==
  \/ Launch \/ ScanStep \/ JobDies
  \/ ReceiptsLaunch \/ ReceiptsStep
  \/ \E b \in Stored : StoreBlock(b)

\* Every await settles.
ScanFairness == WF_scanVars(ScanStep) /\ WF_scanVars(ReceiptsStep)

ScanSpec == ScanInit /\ [][ScanNext]_scanVars /\ ScanFairness

-----------------------------------------------------------------------------
(* Properties. *)

ScanTypeOK ==
  /\ kind \in Kinds
  /\ rows \subseteq Stored /\ derived \subseteq rows
  /\ cursor \in rows \cup {NoBlock} /\ pos \in rows \cup {NoBlock}
  /\ at \in {"off", "page", "run", "query", "receipts", "ended"}
  /\ bound \in 0 .. MaxBlock
  /\ page \subseteq rows /\ batch \subseteq rows /\ page \cap batch = {}
  /\ last \in rows \cup {NoBlock}
  /\ updated \in BOOLEAN /\ partial \in BOOLEAN /\ rejects \in 0 .. MaxRejects
  /\ owed \subseteq rows

\* A row that was there when a job started is tried before the job's persisted cursor
\* is past it, and before a run ends by itself: no crash or rejection, between or
\* inside batches, and no row stored meanwhile, makes a restart resume beyond it.
NothingPassedBy ==
  /\ \A b \in owed : b \in InFront(cursor, MaxBlock)
  /\ at = "ended" => owed = {}

\* The receipt job ends although there are blocks it can never do, unless some of
\* their receipts keep coming: those are updates again in every batch, and the job
\* goes on, though it says "stop rather than spin forever on blocks the RPC can't
\* return receipts for" (backfillReceipts.ts:67-68).
ReceiptsJobEnds ==
  <>[]~partial => (kind = "receipts" /\ at = "query" ~> at \in {"off", "ended"})
=============================================================================
