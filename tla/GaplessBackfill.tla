-------------------------- MODULE GaplessBackfill --------------------------
(***************************************************************************)
(* The gapless backfill of apps/indexer/src/jobs/backfillGapless.ts: a job *)
(* that walks a contiguous block range in batches, and the separate        *)
(* process of scripts/retryFailedBlocks.ts that drains the failed-block    *)
(* queue while the job may be running.                                     *)
(*                                                                         *)
(* The two processes share the database: the Block and Transaction rows,   *)
(* the rows derived from receipts, the checkpoint and the failed queue.    *)
(* Within the job the blocks of a batch are handled in parallel            *)
(* (Promise.all); a step of a task is what it does between two awaits that *)
(* another task or process can observe.                                    *)
(*                                                                         *)
(* A provider's answer to eth_getBlockByNumber is "full" (the chain's      *)
(* transactions) or "short" (fewer); the answer of the count call is the   *)
(* chain's count, null, or an error.                                       *)
(***************************************************************************)
EXTENDS Integers, FiniteSets

CONSTANTS
  MaxHead,      \* bound: the highest block the chain reaches
  Concurrency,  \* BACKFILL_CONCURRENCY
  HeadLag,      \* how many blocks an answer to "latest" may be behind the chain
  LogBlocks,    \* the blocks whose transactions emit transfers or other logs
  ReceiptsSent, \* what eth_getBlockReceipts may answer: TRUE a list, FALSE null
  Plans         \* the settings an operator may run the job with

Blocks == 0 .. MaxHead
None   == -1    \* no checkpoint row; BACKFILL_START_BLOCK not set

Plan == [direction : {"reverse", "forward"},
         startBlock : Blocks \cup {None},
         endBlock : Blocks]

ASSUME MaxHeadAssumption     == MaxHead \in Nat
ASSUME ConcurrencyAssumption == Concurrency \in Nat \ {0}
ASSUME HeadLagAssumption     == HeadLag \in Nat
ASSUME LogBlocksAssumption   == LogBlocks \subseteq Blocks
ASSUME ReceiptsAssumption    == ReceiptsSent \subseteq BOOLEAN
ASSUME PlansAssumption       == Plans \subseteq Plan

VARIABLES
  chainHead,   \* the chain's newest block
  plan,        \* the settings in force, the same for every launch
  rows,        \* blocks with a Block row
  txs,         \* blocks all of whose Transaction rows are stored
  logs,        \* blocks whose transfer and log rows are stored
  checkpoint,  \* IndexerCursor "gaplessBackfill"
  failed,      \* IndexerCursor rows "gaplessFailed:<n>"
  phase,       \* the job: "down", "running" or "finished"
  next,        \* the loop variable b of backfillGapless
  end,         \* the last block of the resolved range
  batch,       \* the blocks handled in parallel now
  todo,        \* what is left of the snapshot retryFailedBlocks took
  step,        \* where each task of each process is
  refetched,   \* tasks of the job on their second processBlock
  answer,      \* the transactions the task's last fetch returned
  anchor       \* history: the first block of the run the checkpoint goes back to

dbVars   == <<rows, txs, logs>>
jobVars  == <<phase, next, end, batch, anchor>>
taskVars == <<step, refetched, answer>>
vars == <<chainHead, plan, dbVars, checkpoint, failed, jobVars, todo, taskVars>>

Workers == {"job", "retrier"}
Answers == {"full", "short"}
Steps   == {"idle",      \* not being handled
            "process",   \* processBlock
            "verify",    \* verifyBlock
            "enqueue",   \* enqueueFailed after a lasting mismatch, in the try
            "rescue",    \* enqueueFailed in the catch
            "clear",     \* dequeueFailed after a verified success
            "done"}

Init ==
  /\ chainHead \in Blocks
  /\ plan \in Plans
  /\ rows = {} /\ txs = {} /\ logs = {}
  /\ checkpoint = None
  /\ failed = {}
  /\ phase = "down"
  /\ next = 0 /\ end = 0 /\ anchor = 0
  /\ batch = {}
  /\ todo = {}
  /\ step = [w \in Workers |-> [b \in Blocks |-> "idle"]]
  /\ refetched = {}
  /\ answer = [w \in Workers |-> [b \in Blocks |-> "short"]]

-----------------------------------------------------------------------------
(* Ranges, in the direction of the plan. *)

IsForward == plan.direction = "forward"

\* Mutant: the range end taken as exclusive.
PastExclusive(b, e) == IF IsForward THEN b >= e ELSE b <= e

\* `done` of backfillGapless: b lies past the end e.
Past(b, e) == IF IsForward THEN b > e ELSE b < e

After(b)  == IF IsForward THEN b + 1 ELSE b - 1
Before(b) == IF IsForward THEN b - 1 ELSE b + 1

\* The blocks from a to c, both included.
Span(a, c) ==
  {b \in Blocks : IF IsForward THEN a <= b /\ b <= c ELSE c <= b /\ b <= a}

\* The batch that starts at b: up to Concurrency blocks, none past end.
BatchFrom(b) ==
  {x \in Span(b, end) : IF IsForward THEN x < b + Concurrency
                                     ELSE x > b - Concurrency}

\* The loop variable after that batch.
AfterBatch(b) ==
  IF IsForward THEN (IF b + Concurrency > end THEN end + 1 ELSE b + Concurrency)
               ELSE (IF b - Concurrency < end THEN end - 1 ELSE b - Concurrency)

-----------------------------------------------------------------------------
(* One block, in either process. *)

MoveTo(w, b, s) == step' = [step EXCEPT ![w][b] = s]

\* Mutant: the job's catch only logs, as the retry pass's does.
OnErrorLogged(w) == "done"

\* Where a task goes when an await rejects: the job's handleBlock has a catch
\* that enqueues, the retry loop's catch only logs.
OnError(w) == IF w = "job" THEN "rescue" ELSE "done"

\* What processBlock returned, and the job's one re-fetch, are locals: gone
\* once the task is past its verification.
DropLocals(w, b) ==
  /\ answer' = [answer EXCEPT ![w][b] = "short"]
  /\ refetched' = IF w = "job" THEN refetched \ {b} ELSE refetched

Reject(w, b) == MoveTo(w, b, OnError(w)) /\ DropLocals(w, b)

TxsAfter(b, a) == IF a = "full" THEN txs \cup {b} ELSE txs

\* Mutant: a block whose transactions are there is taken as complete, and its
\* derived rows are not written again.
LogsAfterOnce(b, sent) ==
  IF sent /\ b \in LogBlocks /\ b \notin txs THEN logs \cup {b} ELSE logs

LogsAfter(b, sent) == IF sent /\ b \in LogBlocks THEN logs \cup {b} ELSE logs

\* processBlock: eth_getBlockByNumber and saveBlock, eth_getBlockReceipts and
\* saveTransactions, then the transfer and log rows.  Any await may reject and
\* leave what was written before it; a null block throws, and a block the chain
\* does not have yet gets no other answer; null receipts count as an empty
\* list, so no derived row is written.  No step of another task reads the rows
\* in between, so the writes are one step.
ProcessBlock(w, b) ==
  /\ step[w][b] = "process"
  /\ \/ /\ Reject(w, b)
        /\ UNCHANGED dbVars
     \/ /\ b <= chainHead
        /\ rows' = rows \cup {b}
        /\ \/ Reject(w, b) /\ UNCHANGED <<txs, logs>>
           \/ \E a \in Answers :
                /\ txs' = TxsAfter(b, a)
                /\ \/ Reject(w, b) /\ UNCHANGED logs
                   \/ /\ MoveTo(w, b, "verify")
                      /\ answer' = [answer EXCEPT ![w][b] = a]
                      /\ \E sent \in ReceiptsSent : logs' = LogsAfter(b, sent)
                      /\ UNCHANGED refetched
  /\ UNCHANGED failed

\* Mutant: a null count passes for agreement.
CountsAgreeOnNull(w, b) == TRUE

\* verifyBlock: the length of the fetched list against the chain's count.
CountsAgree(w, b) == answer[w][b] = "full"

\* Mutant: the second mismatch is logged but not enqueued.
MismatchLogged(w, b) ==
  \/ /\ w = "job" /\ b \notin refetched
     /\ MoveTo(w, b, "process")
     /\ refetched' = refetched \cup {b}
     /\ answer' = [answer EXCEPT ![w][b] = "short"]
  \/ /\ w = "retrier" \/ b \in refetched
     /\ MoveTo(w, b, "done")
     /\ DropLocals(w, b)

\* Mutant: the job fetches again for as long as the counts differ.
MismatchForever(w, b) ==
  /\ MoveTo(w, b, IF w = "job" THEN "process" ELSE "done")
  /\ DropLocals(w, b)

\* A mismatch: the job fetches once more, then gives up on the block; the
\* retry pass leaves the block queued.
Mismatch(w, b) ==
  \/ /\ w = "job" /\ b \notin refetched
     /\ MoveTo(w, b, "process")
     /\ refetched' = refetched \cup {b}
     /\ answer' = [answer EXCEPT ![w][b] = "short"]
  \/ /\ w = "job" /\ b \in refetched
     /\ MoveTo(w, b, "enqueue")
     /\ DropLocals(w, b)
  \/ /\ w = "retrier"
     /\ MoveTo(w, b, "done")
     /\ DropLocals(w, b)

\* The counts agree; or they differ, or the count call returned null; or it
\* failed.
Verify(w, b) ==
  /\ step[w][b] = "verify"
  /\ \/ CountsAgree(w, b) /\ MoveTo(w, b, "clear") /\ DropLocals(w, b)
     \/ Mismatch(w, b)
     \/ Reject(w, b)
  /\ UNCHANGED <<dbVars, failed>>

\* enqueueFailed in the try: an error is caught by handleBlock's own catch,
\* whether or not the row was written before it.
Enqueue(w, b) ==
  /\ step[w][b] = "enqueue"
  /\ \/ failed' = failed \cup {b} /\ MoveTo(w, b, "done")
     \/ failed' \in {failed, failed \cup {b}} /\ MoveTo(w, b, "rescue")
  /\ UNCHANGED <<dbVars, refetched, answer>>

\* enqueueFailed in the catch, when it succeeds.
Rescue(w, b) ==
  /\ step[w][b] = "rescue"
  /\ failed' = failed \cup {b}
  /\ MoveTo(w, b, "done")
  /\ UNCHANGED <<dbVars, refetched, answer>>

\* dequeueFailed.
Clear(w, b) ==
  /\ step[w][b] = "clear"
  /\ \/ failed' = failed \ {b} /\ MoveTo(w, b, "done")
     \/ failed' \in {failed, failed \ {b}} /\ MoveTo(w, b, OnError(w))
  /\ UNCHANGED <<dbVars, refetched, answer>>

Handle(w, b) ==
  /\ \/ ProcessBlock(w, b) \/ Verify(w, b)
     \/ Enqueue(w, b) \/ Rescue(w, b) \/ Clear(w, b)
  /\ UNCHANGED <<chainHead, plan, checkpoint, jobVars, todo>>

-----------------------------------------------------------------------------
(* The job. *)

\* resolveRange, with h the head the provider reported: the range that is left,
\* given the settings and the checkpoint.
ConfiguredStart(h) == IF plan.startBlock = None THEN h ELSE plan.startBlock

\* Mutant: the checkpoint is not consulted.
ResolvedStartAfresh(h) == IF IsForward THEN plan.endBlock ELSE ConfiguredStart(h)

ResolvedStart(h) ==
  LET configured == IF IsForward THEN plan.endBlock ELSE ConfiguredStart(h)
  IN  IF checkpoint # None /\ Past(After(checkpoint), configured)
      THEN After(checkpoint)
      ELSE configured

ResolvedEnd(h) == IF IsForward THEN ConfiguredStart(h) ELSE plan.endBlock

\* A process starts with none of its memory.
Forget(w) ==
  /\ step' = [step EXCEPT ![w] = [b \in Blocks |-> "idle"]]
  /\ answer' = [answer EXCEPT ![w] = [b \in Blocks |-> "short"]]
  /\ refetched' = IF w = "job" THEN {} ELSE refetched

\* An operator starts the job; the provider's "latest" may lag the chain.
Launch ==
  /\ phase \in {"down", "finished"}
  /\ \E h \in Blocks :
       /\ chainHead - HeadLag <= h /\ h <= chainHead
       /\ next' = ResolvedStart(h)
       /\ end' = ResolvedEnd(h)
       /\ phase' = IF Past(ResolvedStart(h), ResolvedEnd(h))
                   THEN "finished" ELSE "running"
       /\ anchor' = IF checkpoint = None THEN ResolvedStart(h) ELSE anchor
  /\ UNCHANGED <<chainHead, plan, dbVars, checkpoint, failed, batch, todo, taskVars>>

\* The loop body up to its Promise.all.
StartBatch ==
  /\ phase = "running"
  /\ batch = {}
  /\ ~Past(next, end)
  /\ batch' = BatchFrom(next)
  /\ next' = AfterBatch(next)
  /\ step' = [step EXCEPT !["job"] =
                [b \in Blocks |-> IF b \in BatchFrom(next) THEN "process" ELSE "idle"]]
  /\ UNCHANGED <<chainHead, plan, dbVars, checkpoint, failed, phase, end, anchor,
                 todo, refetched, answer>>

\* Mutant: the batch is started but not awaited.
BatchNotAwaited == batch # {}

\* Promise.all resolves once every task of the batch has settled.
BatchSettled ==
  /\ batch # {}
  /\ \A b \in batch : step["job"][b] = "done"

\* Mutant: the checkpoint is the loop variable, one past the batch.
CheckpointAtNext ==
  /\ BatchSettled
  /\ checkpoint' = next
  /\ batch' = {}
  /\ Forget("job")
  /\ UNCHANGED <<chainHead, plan, dbVars, failed, phase, next, end, anchor, todo>>

\* writeCheckpoint(batch[batch.length - 1]).
WriteCheckpoint ==
  /\ BatchSettled
  /\ checkpoint' = Before(next)
  /\ batch' = {}
  /\ Forget("job")
  /\ UNCHANGED <<chainHead, plan, dbVars, failed, phase, next, end, anchor, todo>>

Finish ==
  /\ phase = "running"
  /\ batch = {}
  /\ Past(next, end)
  /\ phase' = "finished"
  /\ UNCHANGED <<chainHead, plan, dbVars, checkpoint, failed, next, end, batch,
                 anchor, todo, taskVars>>

\* The process is killed, or an error nothing catches ends it: any await may be
\* its last, and the error of a checkpoint or queue write may come after the row.
StopJob ==
  /\ phase = "running"
  /\ phase' = "down"
  /\ next' = 0 /\ end' = 0
  /\ batch' = {}
  /\ Forget("job")
  /\ UNCHANGED <<chainHead, plan, dbVars, anchor, todo>>

Crash == StopJob /\ UNCHANGED <<checkpoint, failed>>

\* enqueueFailed rejects inside the catch: handleBlock throws, Promise.all
\* rejects, and the process exits.
RescueFails(b) ==
  /\ step["job"][b] = "rescue"
  /\ failed' \in {failed, failed \cup {b}}
  /\ StopJob
  /\ UNCHANGED checkpoint

CheckpointFails ==
  /\ BatchSettled
  /\ checkpoint' \in {checkpoint, Before(next)}
  /\ StopJob
  /\ UNCHANGED failed

-----------------------------------------------------------------------------
(* The retry pass: the blocks of a snapshot of the queue, newest first. *)

SnapshotQueue ==
  /\ todo = {}
  /\ todo' = failed
  /\ UNCHANGED <<chainHead, plan, dbVars, checkpoint, failed, jobVars, taskVars>>

IsNewest(b) == b \in todo /\ \A x \in todo : x <= b

RetryStart(b) ==
  /\ IsNewest(b)
  /\ step["retrier"][b] = "idle"
  /\ MoveTo("retrier", b, "process")
  /\ UNCHANGED <<chainHead, plan, dbVars, checkpoint, failed, jobVars, todo,
                 refetched, answer>>

\* Mutant: the pass holds on to a block until it is stored.
RetryUntilStored(b) ==
  /\ step["retrier"][b] = "done"
  /\ todo' = IF b \in failed THEN todo ELSE todo \ {b}
  /\ Forget("retrier")
  /\ UNCHANGED <<chainHead, plan, dbVars, checkpoint, failed, jobVars>>

RetryEnd(b) ==
  /\ step["retrier"][b] = "done"
  /\ todo' = todo \ {b}
  /\ Forget("retrier")
  /\ UNCHANGED <<chainHead, plan, dbVars, checkpoint, failed, jobVars>>

CrashRetry ==
  /\ todo # {}
  /\ todo' = {}
  /\ Forget("retrier")
  /\ UNCHANGED <<chainHead, plan, dbVars, checkpoint, failed, jobVars>>

-----------------------------------------------------------------------------
NewBlock ==
  /\ chainHead < MaxHead
  /\ chainHead' = chainHead + 1
  /\ UNCHANGED <<plan, dbVars, checkpoint, failed, jobVars, todo, taskVars>>

JobStep ==
  \/ StartBatch \/ WriteCheckpoint \/ Finish
  \/ \E b \in Blocks : Handle("job", b)

RetryStep == \E b \in Blocks : RetryStart(b) \/ RetryEnd(b) \/ Handle("retrier", b)

Next ==
  \/ Launch \/ JobStep
  \/ Crash \/ CheckpointFails \/ \E b \in Blocks : RescueFails(b)
  \/ SnapshotQueue \/ RetryStep \/ CrashRetry
  \/ NewBlock

Spec == Init /\ [][Next]_vars

\* Every await of either process settles: sendRpc aborts a call after its
\* timeout and tries a bounded number of times.  Nothing else is fair: the
\* launches, the crashes and the chain are the environment's.
Fairness ==
  /\ WF_vars(JobStep \/ \E b \in Blocks : RescueFails(b))
  /\ WF_vars(RetryStep)

FairSpec == Spec /\ Fairness

-----------------------------------------------------------------------------
(* Properties. *)

TypeOK ==
  /\ chainHead \in Blocks
  /\ plan \in Plans
  /\ rows \subseteq Blocks /\ txs \subseteq Blocks /\ logs \subseteq Blocks
  /\ checkpoint \in Blocks \cup {None}
  /\ failed \subseteq Blocks
  /\ phase \in {"down", "running", "finished"}
  /\ next \in IF IsForward THEN 0 .. MaxHead + 1 ELSE -1 .. MaxHead
  /\ end \in Blocks
  /\ batch \subseteq Blocks
  /\ todo \subseteq Blocks
  /\ step \in [Workers -> [Blocks -> Steps]]
  /\ refetched \subseteq Blocks
  /\ answer \in [Workers -> [Blocks -> Answers]]
  /\ anchor \in Blocks

Settled(b) == b \in txs \/ b \in failed

\* The blocks the job will not look at again: from the first block of the run
\* the checkpoint goes back to, up to the checkpoint.
PassedBlocks == IF checkpoint = None THEN {} ELSE Span(anchor, checkpoint)

\* backfillGapless.ts:44-58, "iterate a contiguous block range with no skips"
\* and "never a silent skip": every block behind the checkpoint is stored or
\* queued, whatever crashed, failed or ran beside the job.
PassedSettled == \A b \in PassedBlocks : Settled(b)

\* Where receipts always come, a passed block that is not queued has its
\* transfer and log rows too: an error between the writes is never taken for a
\* success by the transaction count alone.
PassedComplete ==
  \A b \in PassedBlocks : b \in failed \/ b \in logs \/ b \notin LogBlocks

\* A job that ends on its own leaves nothing of its range, back to the first
\* launch, neither stored nor queued.
FinishedCoversRange == phase = "finished" => \A b \in Span(anchor, end) : Settled(b)

\* The first block not behind the checkpoint.
Front == IF checkpoint = None THEN anchor ELSE After(checkpoint)

\* A Block row without its transactions (a processBlock that failed half way)
\* is never left behind: it is queued, or lies where the next launch, which
\* starts at the front, still comes to it.
HalfStoredRevisited == \A b \in rows \ txs : b \in failed \/ ~Past(Front, b)

\* Job and retry pass both delete queue entries, each after its own check: an
\* entry goes only when its block's transactions are stored.
DequeuedOnlyStored == [][\A b \in failed \ failed' : b \in txs]_vars

\* A checkpoint moves on by one batch at most, never back: no restart jumps
\* over a block.
CheckpointAdvances ==
  [][checkpoint # None /\ checkpoint' # checkpoint =>
       /\ Past(checkpoint', checkpoint)
       /\ Cardinality(Span(After(checkpoint), checkpoint')) <= Concurrency]_vars

\* A launched job ends, finished or dead: no block that keeps failing holds it.
JobEnds == phase = "running" ~> phase # "running"

\* A retry pass ends even while the job keeps adding to the queue.
RetryPassEnds == todo # {} ~> todo = {}

\* The mechanism keeps the promise.
Promise == INSTANCE BackfillPromise WITH stored <- txs, queued <- failed,
                                         passed <- PassedBlocks
KeepsPromise == Promise!Spec
=============================================================================
