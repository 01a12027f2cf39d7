----------------------------- MODULE LiveIndexer -----------------------------
(***************************************************************************)
(* The indexer's process as index.ts starts it: the live poll of the       *)
(* latest and of the finalized block, the downtime backfill                *)
(* (jobs/backfillBlocks.ts) and the L1 watcher's ticket fetch              *)
(* (services/l1MessageService.ts), concurrent promises that meet in the    *)
(* database.  Blocks are numbered from 1.                                  *)
(*                                                                         *)
(* A block's data is three facts: it has a Block row, all its              *)
(* transactions, and every row derived from its receipts.  Each await      *)
(* after which another promise could see a difference is a step.  Each    *)
(* call is answered by whichever provider it reaches, so one call's latest *)
(* block may lie behind the chain's, and behind an earlier call's.         *)
(***************************************************************************)
EXTENDS Integers, FiniteSets, FiniteSetsExt

CONSTANTS
  MaxHead,      \* bound: blocks of the chain
  HeadLag,      \* how far a provider's latest block may lie behind the chain's
  Concurrency,  \* concurrency of backfillBlocks
  TicketBlock,  \* the block of the one retryable ticket
  MaxFaults     \* bound: rejected awaits, null answers and ends of the process

Blocks == 1 .. MaxHead

ASSUME LiveAssumption ==
  /\ MaxHead \in Nat \ {0} /\ Concurrency \in Nat \ {0}
  /\ TicketBlock \in Blocks /\ MaxFaults \in Nat /\ HeadLag \in Nat

None == 0   \* null

VARIABLES
  head, finalized,              \* the chain: latest and finalized block
  rows, txs, derived,           \* blocks with these rows
  flagged,                      \* blocks with isFinalized
  up,                           \* the process runs
  pollAt, pollBlock, receipts,  \* pollLoop; did eth_getBlockReceipts answer a list
  gapAt, gapNext, gapEnd, task, \* backfillBlocks, gapEnd the chainHead it was told;
                                \* task[b]: indexBlockByNumber(b)
  faults,
  downtime,  \* history: the blocks between the newest row and the head at a start
  begun,     \* history: the blocks of this start's batches so far
  missed,    \* history: those of them that were answered null or rejected
  raced,     \* history: a row was stored in a downtime gap's way: a newer one,
             \*          before backfillBlocks read the newest
  cut        \* history: blocks whose row a failure, or a ticket, left alone

chainVars == <<head, finalized>>
dbVars    == <<rows, txs, derived, flagged>>
pollVars  == <<pollAt, pollBlock, receipts>>
gapVars   == <<gapAt, gapNext, gapEnd, task, downtime, begun, missed>>
vars == <<chainVars, dbVars, up, pollVars, gapVars, faults, raced, cut>>

NoTasks == [b \in Blocks |-> "none"]
Newest  == Max(rows \cup {None})

Init ==
  /\ head = 1 /\ finalized = 0
  /\ rows = {} /\ txs = {} /\ derived = {} /\ flagged = {}
  /\ up = FALSE
  /\ pollAt = "idle" /\ pollBlock = None /\ receipts = TRUE
  /\ gapAt = "off" /\ gapNext = None /\ gapEnd = None /\ task = NoTasks
  /\ faults = 0 /\ downtime = {} /\ begun = {} /\ missed = {}
  /\ raced = FALSE /\ cut = {}

-----------------------------------------------------------------------------
(* Helpers. *)

Fault == faults < MaxFaults /\ faults' = faults + 1

\* What eth_getBlockByNumber("latest") may answer.
ReportedHeads == {n \in Blocks : head - HeadLag <= n /\ n <= head}

\* saveBlock: an upsert that leaves an existing row alone.
SaveBlock(b) ==
  /\ rows' = rows \cup {b}
  /\ raced' = (raced \/ (gapAt = "latest" /\ downtime # {} /\ b > Newest))

\* Blocks with a handler past saveBlock, which a failure now would leave there.
PollCut == IF pollAt \in {"txs", "derived"} THEN {pollBlock} ELSE {}
TaskCut == {b \in Blocks : task[b] = "txs"}

-----------------------------------------------------------------------------
(* The process. *)

\* main: the poll and the background jobs all start at once.
Start ==
  /\ ~up
  /\ up' = TRUE
  /\ downtime' = IF rows = {} THEN {} ELSE Newest + 1 .. head
  /\ gapAt' = "latest"
  /\ UNCHANGED <<chainVars, dbVars, pollVars, gapNext, gapEnd, task, begun, missed,
                 faults, raced, cut>>

\* The process ends: its promises are gone.
Crash ==
  /\ up /\ Fault
  /\ up' = FALSE
  /\ pollAt' = "idle" /\ pollBlock' = None /\ receipts' = TRUE
  /\ gapAt' = "off" /\ gapNext' = None /\ gapEnd' = None /\ task' = NoTasks
  /\ cut' = cut \cup PollCut \cup TaskCut
  /\ downtime' = {} /\ begun' = {} /\ missed' = {} /\ raced' = FALSE
  /\ UNCHANGED <<chainVars, dbVars>>

-----------------------------------------------------------------------------
(* pollLoop: pollLatestBlock, then pollFinalizedBlock. *)

\* eth_getBlockByNumber("latest", true) and saveBlock, whether or not the block
\* has a row.
PollLatest ==
  /\ up /\ pollAt = "idle"
  /\ \E n \in ReportedHeads :
       /\ SaveBlock(n)
       /\ pollBlock' = n
  /\ pollAt' = "txs"
  /\ UNCHANGED <<chainVars, txs, derived, flagged, up, receipts, gapVars,
                 faults, cut>>

\* Mutant: the transactions are saved only if there are receipts to join them with.
PollTransactionsJoined ==
  /\ pollAt = "txs"
  /\ \/ txs' = txs \cup {pollBlock} /\ receipts' = TRUE /\ UNCHANGED faults
     \/ receipts' = FALSE /\ Fault /\ UNCHANGED txs
  /\ pollAt' = "derived"
  /\ UNCHANGED <<chainVars, rows, derived, flagged, up, pollBlock, gapVars, raced, cut>>

\* getBlockReceipts, which turns a null answer into no receipts, and
\* saveTransactions.
PollTransactions ==
  /\ pollAt = "txs"
  /\ txs' = txs \cup {pollBlock}
  /\ \/ receipts' = TRUE /\ UNCHANGED faults
     \/ receipts' = FALSE /\ Fault
  /\ pollAt' = "derived"
  /\ UNCHANGED <<chainVars, rows, derived, flagged, up, pollBlock, gapVars, raced, cut>>

\* saveTokenTransfers, applyTokenBalanceUpdates, saveNftTransfers, saveLogs; then
\* pollLatestBlock returns the number.
PollDerived ==
  /\ pollAt = "derived"
  /\ derived' = IF receipts THEN derived \cup {pollBlock} ELSE derived
  /\ pollAt' = "final"
  /\ UNCHANGED <<chainVars, rows, txs, flagged, up, pollBlock, receipts, gapVars,
                 faults, raced, cut>>

\* Mutant: a failure after saveBlock is logged, and the number returned.
PollFailsLogged ==
  /\ up /\ pollAt \in {"idle", "txs", "derived"}
  /\ Fault
  /\ cut' = cut \cup PollCut
  /\ pollAt' = "final"
  /\ UNCHANGED <<chainVars, rows, txs, derived, flagged, up, pollBlock, receipts,
                 gapVars, raced>>

\* An await of pollLatestBlock rejects, or "latest" is null: pollLoop goes on.
PollFails ==
  /\ up /\ pollAt \in {"idle", "txs", "derived"}
  /\ Fault
  /\ cut' = cut \cup PollCut
  /\ pollAt' = "final" /\ pollBlock' = None /\ receipts' = TRUE
  /\ UNCHANGED <<chainVars, rows, txs, derived, flagged, up, gapVars, raced>>

\* Mutant: only the newest of the final blocks is marked.
PollFinalizedNewest ==
  /\ pollAt = "final"
  /\ flagged' = flagged \cup (rows \cap {finalized})
  /\ pollAt' = "idle" /\ pollBlock' = None /\ receipts' = TRUE
  /\ UNCHANGED <<chainVars, rows, txs, derived, up, gapVars, faults, raced,
                 cut>>

\* Mutant: the rows up to the block just polled are marked.
PollFinalizedPolled ==
  /\ pollAt = "final"
  /\ flagged' = flagged \cup (rows \cap 1 .. pollBlock)
  /\ pollAt' = "idle" /\ pollBlock' = None /\ receipts' = TRUE
  /\ UNCHANGED <<chainVars, rows, txs, derived, up, gapVars, faults, raced,
                 cut>>

\* pollFinalizedBlock; a null answer or a rejection leaves the flags alone, and a
\* provider that is behind reports an earlier block.
PollFinalized ==
  /\ pollAt = "final"
  /\ \/ flagged' = flagged \cup (rows \cap 1 .. finalized) /\ UNCHANGED faults
     \/ /\ Fault
        /\ \E f \in 0 .. finalized : flagged' = flagged \cup (rows \cap 1 .. f)
  /\ pollAt' = "idle" /\ pollBlock' = None /\ receipts' = TRUE
  /\ UNCHANGED <<chainVars, rows, txs, derived, up, gapVars, raced, cut>>

PollStep == PollLatest \/ PollTransactions \/ PollDerived \/ PollFinalized

-----------------------------------------------------------------------------
(* backfillBlocks, once per start. *)

GapOver(outcome) == gapAt' = outcome /\ gapNext' = None

\* getLatestIndexedBlockNumber is read first ...
GapReadLatest ==
  /\ gapAt = "latest"
  /\ gapAt' = "head" /\ gapNext' = Newest + 1
  /\ UNCHANGED <<chainVars, dbVars, up, pollVars, gapEnd, task, downtime, begun,
                 missed, faults, raced, cut>>

\* ... and the head afterwards.  An empty table or a caught-up one: return.
GapReadHead ==
  /\ gapAt = "head"
  /\ \E h \in ReportedHeads :
       /\ gapEnd' = h
       /\ \/ (gapNext = 1 \/ gapNext > h) /\ GapOver("done")
          \/ gapNext \in 2 .. h /\ gapAt' = "run" /\ UNCHANGED gapNext
  /\ UNCHANGED <<chainVars, dbVars, up, pollVars, task, downtime, begun, missed,
                 faults, raced, cut>>

\* Either of the two reads rejects; main's catch logs it.
GapReadFails ==
  /\ gapAt \in {"latest", "head"}
  /\ Fault
  /\ GapOver("dead")
  /\ UNCHANGED <<chainVars, dbVars, up, pollVars, gapEnd, task, downtime, begun,
                 missed, raced, cut>>

\* Mutant: the loop stops before the head.
GapBatchShort ==
  /\ gapAt = "run" /\ task = NoTasks
  /\ \/ /\ gapNext >= gapEnd
        /\ GapOver("done")
        /\ UNCHANGED <<task, begun>>
     \/ /\ gapNext < gapEnd
        /\ LET batch == gapNext .. Min({gapNext + Concurrency - 1, gapEnd})
           IN /\ task' = [b \in Blocks |-> IF b \in batch THEN "fetch" ELSE "none"]
              /\ gapNext' = Max(batch) + 1
              /\ begun' = begun \cup batch
        /\ UNCHANGED gapAt
  /\ UNCHANGED <<chainVars, dbVars, up, pollVars, gapEnd, downtime, missed, faults,
                 raced, cut>>

\* The next batch of Promise.all, or the end of the loop.
GapBatch ==
  /\ gapAt = "run" /\ task = NoTasks
  /\ \/ /\ gapNext > gapEnd
        /\ GapOver("done")
        /\ UNCHANGED <<task, begun>>
     \/ /\ gapNext <= gapEnd
        /\ LET batch == gapNext .. Min({gapNext + Concurrency - 1, gapEnd})
           IN /\ task' = [b \in Blocks |-> IF b \in batch THEN "fetch" ELSE "none"]
              /\ gapNext' = Max(batch) + 1
              /\ begun' = begun \cup batch
        /\ UNCHANGED gapAt
  /\ UNCHANGED <<chainVars, dbVars, up, pollVars, gapEnd, downtime, missed, faults,
                 raced, cut>>

\* indexBlockByNumber up to saveBlock; a null answer ends the task, silently.
TaskSave(b) ==
  /\ task[b] = "fetch"
  /\ \/ /\ SaveBlock(b)
        /\ task' = [task EXCEPT ![b] = "txs"]
        /\ UNCHANGED <<faults, missed>>
     \/ /\ Fault
        /\ missed' = missed \cup {b}
        /\ task' = [task EXCEPT ![b] = "none"]
        /\ UNCHANGED <<rows, raced>>
  /\ UNCHANGED <<chainVars, txs, derived, flagged, up, pollVars, gapAt, gapNext,
                 gapEnd, downtime, begun, cut>>

\* ... and from getBlockReceipts on; nothing derived is written here.
TaskTransactions(b) ==
  /\ task[b] = "txs"
  /\ txs' = txs \cup {b}
  /\ task' = [task EXCEPT ![b] = "none"]
  /\ UNCHANGED <<chainVars, rows, derived, flagged, up, pollVars, gapAt, gapNext,
                 gapEnd, downtime, begun, missed, faults, raced, cut>>

\* A task rejects, and Promise.all with it: the job is over, while the other
\* tasks of the batch run on.
TaskFails(b) ==
  /\ task[b] # "none"
  /\ Fault
  /\ cut' = cut \cup ({b} \cap TaskCut)
  /\ missed' = missed \cup {b}
  /\ task' = [task EXCEPT ![b] = "none"]
  /\ GapOver("dead")
  /\ UNCHANGED <<chainVars, dbVars, up, pollVars, gapEnd, downtime, begun, raced>>

GapStep ==
  \/ GapReadLatest \/ GapReadHead \/ GapBatch
  \/ \E b \in Blocks : TaskSave(b) \/ TaskTransactions(b)

-----------------------------------------------------------------------------
(* The L1 watcher's fetchAndPersistL2Ticket: the Block row of a ticket and the *)
(* one transaction, of a block that may have others.                           *)

PersistTicket ==
  /\ up
  /\ TicketBlock <= head /\ TicketBlock \notin rows
  /\ SaveBlock(TicketBlock)
  /\ cut' = cut \cup {TicketBlock}
  /\ UNCHANGED <<chainVars, txs, derived, flagged, up, pollVars, gapVars,
                 faults>>

-----------------------------------------------------------------------------
(* The chain. *)

NewBlock ==
  /\ head < MaxHead
  /\ head' = head + 1
  /\ UNCHANGED <<finalized, dbVars, up, pollVars, gapVars, faults, raced, cut>>

Finalize ==
  /\ finalized < head
  /\ finalized' = head
  /\ UNCHANGED <<head, dbVars, up, pollVars, gapVars, faults, raced, cut>>

Next ==
  \/ Start \/ Crash
  \/ PollStep \/ PollFails
  \/ GapStep \/ GapReadFails \/ \E b \in Blocks : TaskFails(b)
  \/ PersistTicket
  \/ NewBlock \/ Finalize

Spec == Init /\ [][Next]_vars

\* The poll's timer goes on for ever (index.ts:151), and every await settles: a
\* call of a provider is aborted after its timeout.  Nobody has to start the process.
Fairness == WF_vars(PollStep) /\ WF_vars(GapStep)

FairSpec == Spec /\ Fairness

-----------------------------------------------------------------------------
(* Properties. *)

TypeOK ==
  /\ head \in Blocks /\ finalized \in 0 .. head
  /\ rows \subseteq 1 .. head /\ txs \subseteq rows
  /\ derived \subseteq txs
  /\ flagged \subseteq rows \cap 1 .. finalized
  /\ up \in BOOLEAN /\ receipts \in BOOLEAN /\ raced \in BOOLEAN
  /\ pollAt \in {"idle", "txs", "derived", "final"}
  /\ pollBlock \in rows \cup {None}
  /\ gapAt \in {"off", "latest", "head", "run", "done", "dead"}
  /\ gapNext \in 0 .. MaxHead + 1 /\ gapEnd \in 0 .. MaxHead
  /\ task \in [Blocks -> {"none", "fetch", "txs"}]
  /\ faults \in 0 .. MaxFaults
  /\ downtime \subseteq 1 .. head /\ begun \subseteq 1 .. gapEnd /\ missed \subseteq begun
  /\ cut \subseteq rows

\* Three writers create Block rows before the transactions they belong to: a row
\* is without its transactions only while a poll or a backfill task is between
\* the two, or after one was cut short there, or for a ticket's sake.
RowsExplained == rows \ txs \subseteq PollCut \cup TaskCut \cup cut

\* When pollLatestBlock reports a block it has its transactions and every derived
\* row, whoever stored the Block row before and whatever earlier polls of the same
\* block left out.  That is so because it does not stop at an indexed block, though
\* its own comment says that it returns null for one (pollLatestBlock.ts:17-18).
PollCompletes ==
  pollAt = "final" /\ pollBlock # None /\ receipts => pollBlock \in txs \cap derived

\* The downtime backfill passes over no block: what its batches have begun is
\* stored, under way, or was answered null or rejected, also after a failure has
\* ended it; and when it ends by itself, and read the newest row before anyone
\* stored a newer one, it has begun every block of the downtime up to the head
\* it was told.  (That "downtime gaps fill", index.ts:163-164, is more: a poll that
\* has stored the head first makes the job take the gap as filled.)
CatchUpCovers ==
  /\ \A b \in begun : b \in txs \cup missed \/ task[b] # "none"
  /\ gapAt = "done" /\ ~raced => downtime \cap 1 .. gapEnd \subseteq begun

\* Again and again while the process is up every row below the finalized tag is
\* flagged, also rows that are stored long after the tag has passed them.
FinalityReaches == []<>(~up \/ rows \cap 1 .. finalized \subseteq flagged)
=============================================================================
