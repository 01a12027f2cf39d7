----------------------- MODULE GaplessBackfillProofs -----------------------
(***************************************************************************)
(* Safety of the gapless backfill for every chain length, batch size, plan *)
(* and interleaving of the job, the retry pass, crashes and new blocks.    *)
(*                                                                         *)
(* The inductive invariant has three layers.  TaskInv, which needs no      *)
(* assumption: the position of a task tells what it has stored.  LoopInv   *)
(* and PassedInv, which need HonestHead: the batch in flight starts at the *)
(* front, the first block not behind the checkpoint, the checkpoint lies   *)
(* inside the configured range, and what it has passed is accounted for.   *)
(* RevisitInv: what a process handles, and where a half stored block is.   *)
(***************************************************************************)
EXTENDS GaplessBackfill, FiniteSetTheorems, TLAPS

\* The walk never jumps if the provider's head is current, or if no plan takes
\* its upper end from it while walking down.
HonestHead ==
  HeadLag = 0 \/ \A p \in Plans : p.direction = "forward" \/ p.startBlock # None

\* What a task that verified its block knows: the transactions are stored, and
\* so are the derived rows if receipts always come.
Complete(b) ==
  /\ b \in txs
  /\ FALSE \notin ReceiptsSent => b \in logs \/ b \notin LogBlocks

TaskInv ==
  /\ \A w \in Workers, b \in Blocks :
       /\ step[w][b] = "verify" /\ answer[w][b] = "full" => Complete(b)
       /\ step[w][b] = "clear" => Complete(b)
  /\ \A b \in Blocks : step["job"][b] = "done" => Complete(b) \/ b \in failed

\* Only a running job has a batch in flight, and it ends at a block.
BatchEndInv == batch # {} => phase = "running" /\ Before(next) \in Blocks

TypeInv == TypeOK /\ BatchEndInv

KnowledgeInv == TypeInv /\ TaskInv

\* x is a block at which a walk of this plan may be.
InRange(x) ==
  IF IsForward THEN plan.endBlock <= x
  ELSE IF plan.startBlock = None THEN x <= chainHead ELSE x <= plan.startBlock

LoopInv ==
  /\ checkpoint # None => InRange(checkpoint)
  /\ phase = "running" /\ checkpoint = None => InRange(anchor)
  /\ phase = "running" /\ batch = {} => next = Front
  /\ batch # {} =>
       /\ batch = Span(Front, Before(next))
       /\ Front \in Blocks
       /\ Past(next, Front)
  /\ phase = "finished" => Past(Front, end)

PassedInv == \A b \in PassedBlocks : Complete(b) \/ b \in failed

IInv == KnowledgeInv /\ LoopInv /\ PassedInv

-----------------------------------------------------------------------------
(* Ranges. *)

\* The batch that starts at b is the whole stretch from b to the block before
\* the new loop variable (backfillGapless.ts:352-356).
LEMMA BatchIsSpan ==
  ASSUME TypeOK, NEW b \in Blocks, ~Past(b, end)
  PROVE  /\ BatchFrom(b) = Span(b, Before(AfterBatch(b)))
         /\ Before(AfterBatch(b)) \in Blocks
         /\ AfterBatch(b) \in IF IsForward THEN 0 .. MaxHead + 1 ELSE -1 .. MaxHead
         /\ Past(AfterBatch(b), b)
<1>1. Concurrency \in Nat \ {0} /\ MaxHead \in Nat /\ end \in Blocks
  BY ConcurrencyAssumption, MaxHeadAssumption DEF TypeOK
<1>2. CASE IsForward
  BY <1>1, <1>2 DEF BatchFrom, Span, Before, AfterBatch, Past, Blocks
<1>3. CASE ~IsForward
  BY <1>1, <1>3 DEF BatchFrom, Span, Before, AfterBatch, Past, Blocks
<1>4. QED BY <1>2, <1>3

\* A stretch that goes on past x, cut after x.
LEMMA SpanSplit ==
  ASSUME TypeOK, NEW a \in Blocks, NEW x \in Blocks, NEW c \in Blocks,
         NEW b \in Span(a, c), b \notin Span(a, x)
  PROVE  b \in Span(After(x), c)
<1>1. MaxHead \in Nat BY MaxHeadAssumption
<1>2. QED BY <1>1 DEF Span, After, Blocks

-----------------------------------------------------------------------------
(* One block. *)

\* A step of one task: it touches neither the loop nor the checkpoint, keeps the
\* types, never loses a stored row, and leaves every task's knowledge true.
LEMMA HandleStep ==
  ASSUME TypeOK, TaskInv, NEW w \in Workers, NEW b \in Blocks, Handle(w, b)
  PROVE  /\ TypeOK'
         /\ TaskInv'
         /\ \A x \in Blocks : Complete(x) => Complete(x)'
         /\ \A x \in failed \ failed' : Complete(x)
<1> USE DEF Handle, Workers, Steps, Answers, IsForward
<1>t. /\ step \in [Workers -> [Blocks -> Steps]]
      /\ answer \in [Workers -> [Blocks -> Answers]]
  BY DEF TypeOK
<1>1. ASSUME ProcessBlock(w, b)
      PROVE  /\ TypeOK'
             /\ TaskInv'
             /\ \A x \in Blocks : Complete(x) => Complete(x)'
             /\ failed' = failed
  <2>1. failed' = failed /\ rows' \in SUBSET Blocks
    BY <1>1 DEF ProcessBlock, TypeOK, dbVars
  <2>2. txs \subseteq txs' /\ txs' \in SUBSET Blocks
    BY <1>1 DEF ProcessBlock, TypeOK, dbVars, TxsAfter
  <2>3. logs \subseteq logs' /\ logs' \in SUBSET Blocks
    BY <1>1 DEF ProcessBlock, TypeOK, dbVars, LogsAfter
  <2>4. \A x \in Blocks : Complete(x) => Complete(x)'
    BY <2>2, <2>3 DEF Complete
  <2>5. CASE Reject(w, b)
    <3>1. TypeOK'
      BY <1>t, <2>1, <2>2, <2>3, <2>5
      DEF TypeOK, Reject, DropLocals, MoveTo, OnError, jobVars
    <3>2. TaskInv'
      BY <1>t, <2>1, <2>4, <2>5 DEF TaskInv, Reject, DropLocals, MoveTo, OnError
    <3>3. QED BY <2>1, <2>4, <3>1, <3>2
  <2>6. CASE ~Reject(w, b)
    <3>1. PICK a \in Answers, sent \in ReceiptsSent :
            /\ txs' = TxsAfter(b, a)
            /\ MoveTo(w, b, "verify")
            /\ answer' = [answer EXCEPT ![w][b] = a]
            /\ logs' = LogsAfter(b, sent)
            /\ UNCHANGED refetched
      BY <1>1, <2>6 DEF ProcessBlock
    <3>2. TypeOK'
      BY <1>t, <2>1, <2>2, <2>3, <3>1 DEF TypeOK, MoveTo, jobVars
    <3>3. a = "full" => Complete(b)'
      BY <3>1, ReceiptsAssumption DEF Complete, TxsAfter, LogsAfter
    <3>4. TaskInv'
      BY <1>t, <2>1, <2>4, <3>1, <3>3 DEF TaskInv, MoveTo
    <3>5. QED BY <2>1, <2>4, <3>2, <3>4
  <2>7. QED BY <2>5, <2>6
<1>2. ASSUME Verify(w, b)
      PROVE  TypeOK' /\ TaskInv' /\ UNCHANGED <<txs, logs, failed>>
  <2>1. /\ UNCHANGED <<rows, txs, logs, failed>>
        /\ \A x \in Blocks : Complete(x)' <=> Complete(x)
    BY <1>2 DEF Verify, dbVars, Complete
  <2>2. CASE CountsAgree(w, b) /\ MoveTo(w, b, "clear") /\ DropLocals(w, b)
    <3>1. Complete(b)
      BY <1>2, <2>2 DEF TaskInv, Verify, CountsAgree
    <3>2. QED
      BY <1>t, <2>1, <2>2, <3>1 DEF TypeOK, TaskInv, MoveTo, DropLocals, jobVars
  <2>3. CASE Mismatch(w, b)
    BY <1>t, <2>1, <2>3 DEF TypeOK, TaskInv, Mismatch, MoveTo, DropLocals, jobVars
  <2>4. CASE Reject(w, b)
    BY <1>t, <2>1, <2>4 DEF TypeOK, TaskInv, Reject, OnError, MoveTo, DropLocals, jobVars
  <2>5. QED BY <1>2, <2>1, <2>2, <2>3, <2>4 DEF Verify
<1>3. ASSUME Enqueue(w, b) \/ Rescue(w, b)
      PROVE  TypeOK' /\ TaskInv' /\ UNCHANGED <<txs, logs>> /\ failed \subseteq failed'
  <2>1. /\ UNCHANGED <<rows, txs, logs>>
        /\ failed \subseteq failed' /\ failed' \in SUBSET Blocks
        /\ \A x \in Blocks : Complete(x)' <=> Complete(x)
    BY <1>3 DEF Enqueue, Rescue, dbVars, Complete, TypeOK
  <2>2. \/ MoveTo(w, b, "done") /\ b \in failed'
        \/ MoveTo(w, b, "rescue")
    BY <1>3 DEF Enqueue, Rescue
  <2>3. UNCHANGED <<refetched, answer>>
    BY <1>3 DEF Enqueue, Rescue
  <2>4. QED BY <1>t, <2>1, <2>2, <2>3 DEF TypeOK, TaskInv, MoveTo, jobVars
<1>4. ASSUME Clear(w, b)
      PROVE  /\ TypeOK' /\ TaskInv' /\ UNCHANGED <<txs, logs>>
             /\ \A x \in failed \ failed' : Complete(x)
  <2>1. /\ UNCHANGED <<rows, txs, logs, refetched, answer>>
        /\ failed \ failed' \subseteq {b} /\ failed' \in SUBSET Blocks
        /\ \A x \in Blocks : Complete(x)' <=> Complete(x)
    BY <1>4 DEF Clear, dbVars, Complete, TypeOK
  <2>2. Complete(b)
    BY <1>4 DEF TaskInv, Clear
  <2>3. MoveTo(w, b, "done") \/ MoveTo(w, b, OnError(w))
    BY <1>4 DEF Clear
  <2>4. QED BY <1>t, <2>1, <2>2, <2>3 DEF TypeOK, TaskInv, MoveTo, OnError, jobVars
<1>5. QED BY <1>1, <1>2, <1>3, <1>4 DEF Complete

-----------------------------------------------------------------------------
(* The layer that needs no assumption. *)

\* Nothing is under way at first.
LEMMA KnowledgeInit == Init => KnowledgeInv
<1> SUFFICES ASSUME Init PROVE KnowledgeInv
  OBVIOUS
<1>1. MaxHead \in Nat BY MaxHeadAssumption
<1>2. TypeOK
  BY <1>1 DEF Init, TypeOK, Blocks, Workers, Steps, Answers, None
<1>3. QED
  BY <1>2 DEF Init, KnowledgeInv, TypeInv, BatchEndInv, TaskInv, Workers

\* A process that loses its memory has no task left.
LEMMA ForgetStep ==
  ASSUME TypeOK, TaskInv, NEW w \in Workers, Forget(w),
         UNCHANGED <<txs, logs>>, failed \subseteq failed'
  PROVE  /\ step' \in [Workers -> [Blocks -> Steps]]
         /\ answer' \in [Workers -> [Blocks -> Answers]]
         /\ refetched' \subseteq Blocks
         /\ TaskInv'
<1>1. \A x \in Blocks : Complete(x)' <=> Complete(x)
  BY DEF Complete
<1>2. QED
  BY <1>1 DEF Forget, TypeOK, TaskInv, Workers, Steps, Answers

\* What a launch resolves is a range of blocks.
LEMMA ResolvedTypes ==
  ASSUME TypeOK, NEW h \in Blocks
  PROVE  /\ ResolvedStart(h) \in IF IsForward THEN 0 .. MaxHead + 1 ELSE -1 .. MaxHead
         /\ ResolvedEnd(h) \in Blocks
         /\ checkpoint = None => ResolvedStart(h) \in Blocks
<1>1. plan \in Plan /\ MaxHead \in Nat
  BY PlansAssumption, MaxHeadAssumption DEF TypeOK
<1>2. ConfiguredStart(h) \in Blocks
  BY <1>1 DEF ConfiguredStart, Plan
<1>3. QED
  BY <1>1, <1>2 DEF ResolvedStart, ResolvedEnd, Past, After, Plan, TypeOK, Blocks, None

\* The types and what a task's place says need no assumption on the head.
LEMMA KnowledgeStep == KnowledgeInv /\ [Next]_vars => KnowledgeInv'
<1> SUFFICES ASSUME TypeOK, BatchEndInv, TaskInv, [Next]_vars
             PROVE  TypeOK' /\ BatchEndInv' /\ TaskInv'
  BY DEF KnowledgeInv, TypeInv
<1>w. "job" \in Workers /\ "retrier" \in Workers
  BY DEF Workers
<1>1. CASE Launch
  <2>1. PICK h \in Blocks : /\ next' = ResolvedStart(h)
                            /\ end' = ResolvedEnd(h)
                            /\ phase' \in {"finished", "running"}
                            /\ anchor' = IF checkpoint = None THEN ResolvedStart(h)
                                         ELSE anchor
    BY <1>1 DEF Launch
  <2>2. UNCHANGED <<chainHead, plan, dbVars, checkpoint, failed, batch, todo, taskVars>>
    BY <1>1 DEF Launch
  <2>3. TypeOK'
    BY <2>1, <2>2, ResolvedTypes DEF TypeOK, dbVars, taskVars, IsForward
  <2>4. TaskInv'
    BY <2>2 DEF TaskInv, Complete, dbVars, taskVars
  <2>5. BatchEndInv'
    BY <1>1, <2>2 DEF BatchEndInv, Launch
  <2>6. QED BY <2>3, <2>4, <2>5
<1>2. CASE StartBatch
  <2>1. next \in Blocks
    BY <1>2, MaxHeadAssumption DEF StartBatch, TypeOK, Past, Blocks
  <2>2. /\ Before(AfterBatch(next)) \in Blocks
        /\ AfterBatch(next) \in IF IsForward THEN 0 .. MaxHead + 1 ELSE -1 .. MaxHead
    BY <1>2, <2>1, BatchIsSpan DEF StartBatch
  <2>3. BatchFrom(next) \subseteq Blocks
    BY DEF BatchFrom, Span
  <2>4. TypeOK'
    BY <1>2, <1>w, <2>2, <2>3 DEF StartBatch, TypeOK, dbVars, IsForward, Steps
  <2>5. BatchEndInv'
    BY <1>2, <2>2 DEF StartBatch, BatchEndInv, Before, IsForward
  <2>6. TaskInv'
    BY <1>2, <1>w DEF StartBatch, TypeOK, TaskInv, Complete, dbVars, Workers
  <2>7. QED BY <2>4, <2>5, <2>6
<1>3. CASE WriteCheckpoint
  <2>1. TypeOK' /\ TaskInv'
    BY <1>3, <1>w, ForgetStep
    DEF WriteCheckpoint, BatchSettled, BatchEndInv, TypeOK, dbVars, IsForward
  <2>2. BatchEndInv'
    BY <1>3 DEF WriteCheckpoint, BatchEndInv
  <2>3. QED BY <2>1, <2>2
<1>4. CASE Finish
  BY <1>4 DEF Finish, TypeOK, BatchEndInv, TaskInv, Complete, dbVars, taskVars, IsForward
<1>5. CASE Crash \/ CheckpointFails \/ \E b \in Blocks : RescueFails(b)
  <2>1. /\ StopJob
        /\ failed \subseteq failed' /\ failed' \in SUBSET Blocks
        /\ checkpoint' \in Blocks \cup {None}
    BY <1>5
    DEF Crash, CheckpointFails, RescueFails, BatchSettled, BatchEndInv, TypeOK
  <2>2. TypeOK' /\ TaskInv'
    BY <1>w, <2>1, ForgetStep, MaxHeadAssumption
    DEF StopJob, TypeOK, dbVars, IsForward, Blocks
  <2>3. BatchEndInv'
    BY <2>1 DEF StopJob, BatchEndInv
  <2>4. QED BY <2>2, <2>3
<1>6. CASE SnapshotQueue
  BY <1>6
  DEF SnapshotQueue, TypeOK, BatchEndInv, TaskInv, Complete, Before, IsForward, dbVars,
      jobVars, taskVars
<1>7. ASSUME NEW b \in Blocks, RetryStart(b) PROVE TypeOK' /\ BatchEndInv' /\ TaskInv'
  <2>1. TypeOK'
    BY <1>7, <1>w DEF RetryStart, MoveTo, TypeOK, Steps, dbVars, jobVars, IsForward
  <2>2. TaskInv'
    BY <1>7, <1>w DEF RetryStart, MoveTo, TypeOK, TaskInv, Complete, dbVars, Workers
  <2>3. BatchEndInv'
    BY <1>7 DEF RetryStart, BatchEndInv, Before, IsForward, jobVars
  <2>4. QED BY <2>1, <2>2, <2>3
<1>8. CASE CrashRetry \/ \E b \in Blocks : RetryEnd(b)
  <2>1. /\ todo' \in SUBSET Blocks
        /\ Forget("retrier")
        /\ UNCHANGED <<chainHead, plan, dbVars, checkpoint, failed, jobVars>>
    BY <1>8 DEF CrashRetry, RetryEnd, TypeOK
  <2>2. TypeOK' /\ TaskInv'
    BY <1>w, <2>1, ForgetStep DEF TypeOK, dbVars, jobVars, IsForward
  <2>3. BatchEndInv'
    BY <2>1 DEF BatchEndInv, Before, IsForward, jobVars
  <2>4. QED BY <2>2, <2>3
<1>9. ASSUME NEW w \in Workers, NEW b \in Blocks, Handle(w, b)
      PROVE  TypeOK' /\ BatchEndInv' /\ TaskInv'
  BY <1>9, HandleStep DEF Handle, BatchEndInv, Before, IsForward, jobVars
<1>10. CASE NewBlock
  <2>1. /\ UNCHANGED <<plan, dbVars, checkpoint, failed, jobVars, todo, taskVars>>
        /\ chainHead' \in Blocks
    BY <1>10, MaxHeadAssumption DEF NewBlock, TypeOK, Blocks
  <2>2. QED
    BY <2>1
    DEF TypeOK, BatchEndInv, TaskInv, Complete, Before, IsForward, dbVars, jobVars, taskVars
<1>11. CASE UNCHANGED vars
  BY <1>11
  DEF vars, TypeOK, BatchEndInv, TaskInv, Complete, Before, IsForward, dbVars, jobVars,
      taskVars
<1>12. QED
  BY <1>w, <1>1, <1>2, <1>3, <1>4, <1>5, <1>6, <1>7, <1>8, <1>9, <1>10, <1>11
  DEF Next, JobStep, RetryStep

\* So they hold for every behaviour.
LEMMA KnowledgeInvariant == Spec => []KnowledgeInv
<1>1. QED BY KnowledgeInit, KnowledgeStep, PTL DEF Spec

\* Every variable keeps its type, under any plan and any lag.
THEOREM TypeCorrect == Spec => []TypeOK
<1>1. KnowledgeInv => TypeOK BY DEF KnowledgeInv, TypeInv
<1>2. QED BY <1>1, KnowledgeInvariant, PTL

\* Neither process ever deletes the queue entry of a block whose transactions
\* are missing, whatever the other one does between its check and its delete.
THEOREM DequeueIsSafe == Spec => DequeuedOnlyStored
<1>1. KnowledgeInv /\ [Next]_vars => [\A b \in failed \ failed' : b \in txs]_vars
  <2> SUFFICES ASSUME KnowledgeInv, Next PROVE \A b \in failed \ failed' : b \in txs
    OBVIOUS
  <2>1. ASSUME NEW w \in Workers, NEW b \in Blocks, Handle(w, b)
        PROVE  \A x \in failed \ failed' : x \in txs
    BY <2>1, HandleStep DEF KnowledgeInv, TypeInv, Complete
  <2>2. CASE ~(\E w \in Workers, b \in Blocks : Handle(w, b))
    <3>1. failed \subseteq failed'
      BY <2>2
      DEF Next, JobStep, RetryStep, Workers, Launch, StartBatch, WriteCheckpoint, Finish,
          Crash, CheckpointFails, RescueFails, SnapshotQueue, RetryStart, RetryEnd,
          CrashRetry, NewBlock
    <3>2. QED BY <3>1
  <2>3. QED BY <2>1, <2>2
<1>2. QED BY <1>1, KnowledgeInvariant, PTL DEF Spec, DequeuedOnlyStored

-----------------------------------------------------------------------------
(* The layer that needs a current head. *)

\* Resuming from the checkpoint resumes at the front (backfillGapless.ts:247-261):
\* neither the settings nor the head can put the start anywhere else.
LEMMA ResumeAtFront ==
  ASSUME TypeOK, LoopInv, HonestHead, NEW h \in Blocks,
         chainHead - HeadLag <= h, h <= chainHead
  PROVE  /\ checkpoint # None => ResolvedStart(h) = After(checkpoint)
         /\ checkpoint = None => InRange(ResolvedStart(h))
<1>1. /\ plan \in Plan /\ plan \in Plans /\ chainHead \in Blocks
      /\ checkpoint \in Blocks \cup {None} /\ MaxHead \in Nat
  BY PlansAssumption, MaxHeadAssumption DEF TypeOK
<1>2. CASE IsForward
  <2>1. plan.endBlock \in Blocks
    BY <1>1 DEF Plan
  <2>2. QED
    BY <1>1, <1>2, <2>1
    DEF LoopInv, InRange, ResolvedStart, Past, After, Blocks, None
<1>3. CASE ~IsForward /\ plan.startBlock = None
  <2>1. h = chainHead
    BY <1>1, <1>3, HeadLagAssumption DEF HonestHead, IsForward, Blocks
  <2>2. QED
    BY <1>1, <1>3, <2>1
    DEF LoopInv, InRange, ResolvedStart, ConfiguredStart, Past, After, Blocks, None
<1>4. CASE ~IsForward /\ plan.startBlock # None
  <2>1. plan.startBlock \in Blocks
    BY <1>1, <1>4 DEF Plan
  <2>2. QED
    BY <1>1, <1>4, <2>1
    DEF LoopInv, InRange, ResolvedStart, ConfiguredStart, Past, After, Blocks, None
<1>5. QED BY <1>2, <1>3, <1>4

\* Where nothing that the loop position depends on moves, and stored blocks stay
\* accounted for, the layer is kept.
LEMMA LoopUnmoved ==
  ASSUME IInv, UNCHANGED <<plan, checkpoint, jobVars>>, chainHead' >= chainHead,
         chainHead' \in Blocks,
         \A x \in Blocks : Complete(x) => Complete(x)',
         \A x \in failed \ failed' : Complete(x)
  PROVE  LoopInv' /\ PassedInv'
<1>1. LoopInv'
  <2>1. /\ checkpoint \in Blocks \cup {None} /\ anchor \in Blocks
        /\ chainHead \in Blocks /\ MaxHead \in Nat
    BY MaxHeadAssumption DEF IInv, KnowledgeInv, TypeInv, TypeOK
  <2>2. \A x \in Blocks : InRange(x) => InRange(x)'
    BY <2>1 DEF InRange, IsForward, Blocks
  <2>3. /\ Front' = Front /\ Before(next)' = Before(next)
        /\ Span(Front, Before(next))' = Span(Front, Before(next))
        /\ Past(next, Front)' <=> Past(next, Front)
        /\ Past(Front, end)' <=> Past(Front, end)
    BY DEF Front, Before, After, Span, Past, IsForward, jobVars
  <2>4. QED
    BY <2>1, <2>2, <2>3 DEF IInv, LoopInv, jobVars
<1>2. PassedInv'
  <2>1. PassedBlocks' = PassedBlocks /\ PassedBlocks \subseteq Blocks
    BY DEF PassedBlocks, Span, IsForward, jobVars
  <2>2. QED BY <2>1 DEF IInv, PassedInv
<1>3. QED BY <1>1, <1>2

\* The checkpoint moves over a batch every block of which is accounted for.
LEMMA CheckpointMoves ==
  ASSUME IInv, BatchSettled, checkpoint' = Before(next),
         UNCHANGED <<plan, chainHead, anchor, txs, logs, failed>>
  PROVE  /\ checkpoint' \in Blocks
         /\ InRange(checkpoint')
         /\ \A b \in Span(anchor, checkpoint') : Complete(b) \/ b \in failed
<1> USE DEF IInv, KnowledgeInv, TypeInv
<1>1. /\ Before(next) \in Blocks /\ batch = Span(Front, Before(next))
      /\ Front \in Blocks /\ Past(next, Front) /\ phase = "running"
  BY DEF BatchSettled, LoopInv, BatchEndInv
<1>2. /\ anchor \in Blocks /\ checkpoint \in Blocks \cup {None} /\ MaxHead \in Nat
      /\ next \in Int /\ plan \in Plan /\ chainHead \in Blocks
  BY MaxHeadAssumption, PlansAssumption DEF TypeOK, Blocks
<1>3. InRange(Before(next))
  <2>1. plan.endBlock \in Blocks /\ plan.startBlock \in Blocks \cup {None}
    BY <1>2 DEF Plan
  <2>2. CASE checkpoint = None
    BY <1>1, <1>2, <2>1, <2>2
    DEF LoopInv, InRange, Front, Before, Past, Blocks, None
  <2>3. CASE checkpoint # None
    BY <1>1, <1>2, <2>1, <2>3
    DEF LoopInv, InRange, Front, Before, After, Past, Blocks, None
  <2>4. QED BY <2>2, <2>3
<1>4. \A b \in Span(Front, Before(next)) : Complete(b) \/ b \in failed
  BY <1>1 DEF BatchSettled, TaskInv, Span
<1>5. ASSUME NEW b \in Span(anchor, Before(next))
      PROVE  Complete(b) \/ b \in failed
  <2>1. CASE checkpoint = None
    BY <1>4, <1>5, <2>1 DEF Front
  <2>2. CASE checkpoint # None
    <3>1. CASE b \in Span(anchor, checkpoint)
      BY <2>2, <3>1 DEF PassedInv, PassedBlocks
    <3>2. CASE b \notin Span(anchor, checkpoint)
      <4>1. b \in Span(After(checkpoint), Before(next))
        BY <1>1, <1>2, <1>5, <2>2, <3>2, SpanSplit
      <4>2. QED BY <1>4, <2>2, <4>1 DEF Front
    <3>3. QED BY <3>1, <3>2
  <2>3. QED BY <2>1, <2>2
<1>6. QED BY <1>1, <1>3, <1>5

\* The job's steps keep the batch at the front and the passed blocks settled.
LEMMA LoopStep ==
  ASSUME HonestHead, IInv, KnowledgeInv', [Next]_vars
  PROVE  LoopInv' /\ PassedInv'
<1> USE DEF IInv, KnowledgeInv, TypeInv
<1>t. /\ checkpoint \in Blocks \cup {None} /\ anchor \in Blocks /\ chainHead \in Blocks
      /\ MaxHead \in Nat /\ end \in Blocks /\ next \in Int
  BY MaxHeadAssumption DEF TypeOK, Blocks
<1>1. CASE Launch
  <2>1. PICK h \in Blocks :
          /\ chainHead - HeadLag <= h /\ h <= chainHead
          /\ next' = ResolvedStart(h)
          /\ end' = ResolvedEnd(h)
          /\ phase' = IF Past(ResolvedStart(h), ResolvedEnd(h))
                      THEN "finished" ELSE "running"
          /\ anchor' = IF checkpoint = None THEN ResolvedStart(h) ELSE anchor
    BY <1>1 DEF Launch
  <2>2. /\ UNCHANGED <<chainHead, plan, txs, logs, checkpoint, failed, batch>>
        /\ phase # "running"
    BY <1>1 DEF Launch, dbVars
  <2>3. batch' = {}
    BY <2>2 DEF BatchEndInv
  <2>4. next' = Front'
    BY <2>1, <2>2, ResumeAtFront DEF Front, After, IsForward
  <2>5. LoopInv'
    BY <2>1, <2>2, <2>3, <2>4, ResumeAtFront
    DEF LoopInv, InRange, Past, IsForward
  <2>6. PassedInv'
    BY <2>1, <2>2 DEF PassedInv, PassedBlocks, Span, Complete, IsForward
  <2>7. QED BY <2>5, <2>6
<1>2. CASE StartBatch
  <2>1. /\ next = Front /\ next \in Blocks
        /\ UNCHANGED <<chainHead, plan, dbVars, checkpoint, failed, phase, end, anchor>>
        /\ batch' = BatchFrom(next) /\ next' = AfterBatch(next)
        /\ phase = "running" /\ ~Past(next, end)
    BY <1>2, <1>t DEF StartBatch, LoopInv, Past, Blocks, TypeOK
  <2>2. /\ batch' = Span(Front, Before(next'))
        /\ Past(next', Front)
    BY <2>1, BatchIsSpan
  <2>3. Front' = Front /\ Before(next)' = Before(next')
    BY <2>1 DEF Front, After, Before, IsForward
  <2>4. next \in batch'
    BY <2>1, <1>t, ConcurrencyAssumption DEF BatchFrom, Span, Past, Blocks
  <2>5. LoopInv'
    BY <2>1, <2>2, <2>3, <2>4 DEF LoopInv, InRange, Span, Past, IsForward
  <2>6. PassedInv'
    BY <2>1 DEF PassedInv, PassedBlocks, Span, Complete, IsForward, dbVars
  <2>7. QED BY <2>5, <2>6
<1>3. CASE WriteCheckpoint
  <2>1. /\ BatchSettled /\ checkpoint' = Before(next) /\ batch' = {}
        /\ UNCHANGED <<chainHead, plan, txs, logs, failed, phase, next, end, anchor>>
    BY <1>3 DEF WriteCheckpoint, dbVars
  <2>2. /\ checkpoint' \in Blocks
        /\ InRange(checkpoint')
        /\ \A b \in Span(anchor, checkpoint') : Complete(b) \/ b \in failed
    BY <2>1, CheckpointMoves
  <2>3. phase' = "running" /\ checkpoint' # None
    BY <2>1, <2>2 DEF BatchSettled, BatchEndInv, Blocks, None
  <2>4. next' = Front'
    BY <1>t, <2>1, <2>3 DEF Front, After, Before, IsForward
  <2>5. LoopInv'
    BY <2>1, <2>2, <2>3, <2>4 DEF LoopInv, InRange, IsForward
  <2>6. PassedInv'
    BY <2>1, <2>2 DEF PassedInv, PassedBlocks, Span, Complete, IsForward
  <2>7. QED BY <2>5, <2>6
<1>4. CASE Finish
  <2>1. /\ UNCHANGED <<chainHead, plan, dbVars, checkpoint, failed, next, end, batch, anchor>>
        /\ phase' = "finished" /\ batch = {} /\ next = Front /\ Past(next, end)
    BY <1>4 DEF Finish, LoopInv
  <2>2. LoopInv'
    BY <2>1 DEF LoopInv, InRange, Front, After, Past, IsForward
  <2>3. PassedInv'
    BY <2>1 DEF PassedInv, PassedBlocks, Span, Complete, IsForward, dbVars
  <2>4. QED BY <2>2, <2>3
<1>5. CASE Crash \/ CheckpointFails \/ \E b \in Blocks : RescueFails(b)
  <2>1. /\ phase' = "down" /\ batch' = {}
        /\ UNCHANGED <<chainHead, plan, txs, logs, anchor>>
        /\ failed \subseteq failed'
    BY <1>5 DEF Crash, CheckpointFails, RescueFails, StopJob, dbVars
  <2>2. CASE checkpoint' = checkpoint
    <3>1. LoopInv'
      BY <2>1, <2>2 DEF LoopInv, InRange, IsForward
    <3>2. PassedInv'
      BY <2>1, <2>2 DEF PassedInv, PassedBlocks, Span, Complete, IsForward
    <3>3. QED BY <3>1, <3>2
  <2>3. CASE checkpoint' # checkpoint
    <3>1. BatchSettled /\ checkpoint' = Before(next) /\ UNCHANGED failed
      BY <1>5, <2>3 DEF Crash, CheckpointFails, RescueFails
    <3>2. /\ checkpoint' \in Blocks
          /\ InRange(checkpoint')
          /\ \A b \in Span(anchor, checkpoint') : Complete(b) \/ b \in failed
      BY <2>1, <3>1, CheckpointMoves
    <3>3. LoopInv'
      BY <2>1, <3>2 DEF LoopInv, InRange, IsForward
    <3>4. PassedInv'
      BY <2>1, <3>1, <3>2 DEF PassedInv, PassedBlocks, Span, Complete, IsForward
    <3>5. QED BY <3>3, <3>4
  <2>4. QED BY <2>2, <2>3
<1>6. ASSUME NEW w \in Workers, NEW b \in Blocks, Handle(w, b)
      PROVE  LoopInv' /\ PassedInv'
  <2>1. UNCHANGED <<plan, checkpoint, jobVars, chainHead>>
    BY <1>6 DEF Handle
  <2>2. QED
    BY <1>t, <1>6, <2>1, HandleStep, LoopUnmoved DEF Blocks
<1>7. CASE \/ SnapshotQueue \/ CrashRetry \/ NewBlock \/ UNCHANGED vars
           \/ \E b \in Blocks : RetryStart(b) \/ RetryEnd(b)
  <2>1. /\ UNCHANGED <<plan, checkpoint, jobVars, dbVars, failed>>
        /\ chainHead' \in {chainHead, chainHead + 1}
    BY <1>7 DEF SnapshotQueue, CrashRetry, NewBlock, RetryStart, RetryEnd, vars
  <2>2. \A x \in Blocks : Complete(x) => Complete(x)'
    BY <2>1 DEF Complete, dbVars
  <2>3. chainHead' \in Blocks /\ chainHead' >= chainHead
    BY <1>t, <2>1 DEF Blocks, TypeOK
  <2>4. QED BY <2>1, <2>2, <2>3, LoopUnmoved
<1>8. QED
  BY <1>1, <1>2, <1>3, <1>4, <1>5, <1>6, <1>7 DEF Next, JobStep, RetryStep, Workers

\* No batch, and nothing passed.
LEMMA LoopInit == Init => LoopInv /\ PassedInv
<1>1. QED
  BY DEF Init, LoopInv, PassedInv, PassedBlocks

\* The first two layers hold as long as no reported head is behind the chain's.
LEMMA Invariance == ASSUME HonestHead PROVE Spec => []IInv
<1>1. Init => IInv
  BY KnowledgeInit, LoopInit DEF IInv
<1>2. IInv /\ [Next]_vars => IInv'
  BY KnowledgeStep, LoopStep DEF IInv
<1>3. QED BY <1>1, <1>2, PTL DEF Spec

\* Every block behind the checkpoint is stored or queued: for every chain, batch
\* size, plan and sequence of crashes, as long as the head a walk down starts
\* from is current.
THEOREM NeverSilentlySkipped == ASSUME HonestHead PROVE Spec => []PassedSettled
<1>1. IInv => PassedSettled
  BY DEF IInv, PassedInv, PassedSettled, Settled, Complete
<1>2. QED BY <1>1, Invariance, PTL

\* Where receipts always come, the derived rows of a passed block are stored too.
THEOREM NothingHalfPassed ==
  ASSUME HonestHead, FALSE \notin ReceiptsSent PROVE Spec => []PassedComplete
<1>1. IInv => PassedComplete
  BY DEF IInv, PassedInv, PassedComplete, Complete
<1>2. QED BY <1>1, Invariance, PTL

\* A job that ends on its own has accounted for its whole range.
THEOREM FinishedRunCovers == ASSUME HonestHead PROVE Spec => []FinishedCoversRange
<1>1. IInv => FinishedCoversRange
  <2> SUFFICES ASSUME IInv, phase = "finished", NEW b \in Span(anchor, end)
               PROVE  Settled(b)
    BY DEF FinishedCoversRange
  <2>1. /\ Past(Front, end) /\ MaxHead \in Nat
        /\ anchor \in Blocks /\ end \in Blocks /\ checkpoint \in Blocks \cup {None}
    BY MaxHeadAssumption DEF IInv, LoopInv, KnowledgeInv, TypeInv, TypeOK
  <2>2. checkpoint # None
    BY <2>1 DEF Front, Past, Span, Blocks
  <2>3. b \in PassedBlocks
    BY <2>1, <2>2 DEF Front, Past, After, Span, PassedBlocks, Blocks
  <2>4. QED BY <2>3 DEF IInv, PassedInv, Settled, Complete
<1>2. QED BY <1>1, Invariance, PTL
-----------------------------------------------------------------------------
(* The mechanism keeps the promise. *)

\* What is passed changes with the checkpoint only: an anchor chosen anew has
\* no checkpoint behind it.
LEMMA SameBlocksPassed ==
  ASSUME UNCHANGED <<plan, checkpoint>>, checkpoint = None \/ UNCHANGED anchor
  PROVE  PassedBlocks' = PassedBlocks
<1>1. QED
  BY DEF PassedBlocks, Span, IsForward

\* Moving the checkpoint over a settled batch passes blocks that are stored or
\* queued, and takes back none.
LEMMA CheckpointPasses ==
  ASSUME IInv, BatchSettled, checkpoint' = Before(next),
         UNCHANGED <<plan, chainHead, anchor, txs, logs, failed>>
  PROVE  Promise!Pass(PassedBlocks')
<1>1. /\ checkpoint' \in Blocks
      /\ \A b \in Span(anchor, checkpoint') : Complete(b) \/ b \in failed
  BY CheckpointMoves
<1>2. /\ MaxHead \in Nat /\ anchor \in Blocks /\ checkpoint \in Blocks \cup {None}
      /\ next \in Int
  BY MaxHeadAssumption DEF IInv, KnowledgeInv, TypeInv, TypeOK, Blocks
<1>3. Front \in Blocks /\ Past(next, Front)
  BY DEF IInv, LoopInv, BatchSettled
<1>4. PassedBlocks' = Span(anchor, checkpoint')
  BY <1>1, <1>2 DEF PassedBlocks, Span, IsForward, Blocks, None
<1>5. PassedBlocks \subseteq Span(anchor, checkpoint')
  BY <1>1, <1>2, <1>3 DEF PassedBlocks, Span, Front, Before, After, Past, Blocks
<1>6. PassedBlocks' \subseteq txs \cup failed
  BY <1>1, <1>4 DEF Complete
<1>7. PassedBlocks' = PassedBlocks \cup PassedBlocks'
  BY <1>4, <1>5
<1>8. QED BY <1>6, <1>7 DEF Promise!Pass

\* A step of a task stores a block, records one, resolves one that is stored, or
\* leaves the promise's variables alone.
LEMMA HandleKeepsPromise ==
  ASSUME KnowledgeInv, NEW w \in Workers, NEW b \in Blocks, Handle(w, b)
  PROVE  \/ Promise!Store(b) \/ Promise!Record(b) \/ Promise!Resolve(b)
         \/ UNCHANGED <<txs, failed, PassedBlocks>>
<1>1. PassedBlocks' = PassedBlocks
  BY SameBlocksPassed DEF Handle, jobVars
<1>2. CASE ProcessBlock(w, b)
  <2>1. failed' = failed /\ txs' \in {txs, txs \cup {b}}
    BY <1>2 DEF ProcessBlock, TxsAfter, dbVars
  <2>2. QED BY <1>1, <2>1 DEF Promise!Store
<1>3. CASE Verify(w, b)
  BY <1>1, <1>3 DEF Verify, dbVars
<1>4. CASE Enqueue(w, b) \/ Rescue(w, b)
  <2>1. txs' = txs /\ failed' \in {failed, failed \cup {b}}
    BY <1>4 DEF Enqueue, Rescue, dbVars
  <2>2. QED BY <1>1, <2>1 DEF Promise!Record
<1>5. CASE Clear(w, b)
  <2>1. txs' = txs /\ failed' \in {failed, failed \ {b}}
    BY <1>5 DEF Clear, dbVars
  <2>2. b \in txs
    BY <1>5 DEF Clear, KnowledgeInv, TaskInv, Complete
  <2>3. QED BY <1>1, <2>1, <2>2 DEF Promise!Resolve
<1>6. QED BY <1>2, <1>3, <1>4, <1>5 DEF Handle

\* Every step of the job and of the retry pass is one of the promise's, or none.
LEMMA PromiseStep ==
  ASSUME IInv, [Next]_vars
  PROVE  [Promise!Next]_<<txs, failed, PassedBlocks>>
<1>1. CASE WriteCheckpoint
  <2>1. Promise!Pass(PassedBlocks')
    BY <1>1, CheckpointPasses DEF WriteCheckpoint, dbVars
  <2>2. PassedBlocks' \in SUBSET Blocks
    BY <1>1 DEF WriteCheckpoint, PassedBlocks, Span, Blocks
  <2>3. QED BY <2>1, <2>2 DEF Promise!Next
<1>2. CASE CheckpointFails
  <2>1. UNCHANGED <<plan, chainHead, anchor, txs, logs, failed>> /\ BatchSettled
    BY <1>2 DEF CheckpointFails, StopJob, dbVars
  <2>2. CASE checkpoint' = checkpoint
    BY <2>1, <2>2, SameBlocksPassed
  <2>3. CASE checkpoint' # checkpoint
    <3>1. Promise!Pass(PassedBlocks')
      BY <1>2, <2>1, <2>3, CheckpointPasses DEF CheckpointFails
    <3>2. PassedBlocks' \in SUBSET Blocks
      BY DEF PassedBlocks, Span, Blocks
    <3>3. QED BY <3>1, <3>2 DEF Promise!Next
  <2>4. QED BY <2>2, <2>3
<1>3. ASSUME NEW b \in Blocks, RescueFails(b)
      PROVE  [Promise!Next]_<<txs, failed, PassedBlocks>>
  <2>1. /\ UNCHANGED <<plan, anchor, txs, checkpoint>>
        /\ failed' \in {failed, failed \cup {b}}
    BY <1>3 DEF RescueFails, StopJob, dbVars
  <2>2. PassedBlocks' = PassedBlocks
    BY <2>1, SameBlocksPassed
  <2>3. QED BY <2>1, <2>2 DEF Promise!Next, Promise!Record
<1>4. ASSUME NEW w \in Workers, NEW b \in Blocks, Handle(w, b)
      PROVE  [Promise!Next]_<<txs, failed, PassedBlocks>>
  BY <1>4, HandleKeepsPromise DEF IInv, Promise!Next
<1>5. CASE \/ Launch \/ StartBatch \/ Finish \/ Crash \/ SnapshotQueue
           \/ CrashRetry \/ NewBlock \/ UNCHANGED vars
           \/ \E b \in Blocks : RetryStart(b) \/ RetryEnd(b)
  <2>1. /\ UNCHANGED <<plan, checkpoint, txs, failed>>
        /\ checkpoint = None \/ UNCHANGED anchor
    BY <1>5 DEF Launch, StartBatch, Finish, Crash, StopJob, SnapshotQueue,
                CrashRetry, NewBlock, RetryStart, RetryEnd, vars, dbVars, jobVars
  <2>2. PassedBlocks' = PassedBlocks
    BY <2>1, SameBlocksPassed
  <2>3. QED BY <2>1, <2>2
<1>6. QED
  BY <1>1, <1>2, <1>3, <1>4, <1>5 DEF Next, JobStep, RetryStep, Workers

\* The job, its restarts and the retry pass together implement BackfillPromise:
\* no block is passed unless stored or queued, none leaves the queue unless
\* stored, and nothing stored or passed is taken back.
THEOREM ImplementsPromise == ASSUME HonestHead PROVE Spec => KeepsPromise
<1>1. Init => Promise!Init
  BY DEF Init, Promise!Init, PassedBlocks
<1>2. IInv /\ [Next]_vars => [Promise!Next]_<<txs, failed, PassedBlocks>>
  BY PromiseStep
<1>3. Promise!promiseVars = <<txs, failed, PassedBlocks>>
  BY DEF Promise!promiseVars
<1>4. QED
  BY <1>1, <1>2, Invariance, PTL
  DEF Spec, KeepsPromise, Promise!Spec, Promise!promiseVars
-----------------------------------------------------------------------------
(* Blocks stored half way, and the length of a move of the checkpoint. *)

\* The third layer: only blocks of the batch or of the retry pass have a task,
\* the pass works on entries that are still queued or stored since, every block
\* the processes know lies in the configured range, and the batch is short.
RevisitInv ==
  /\ \A b \in Blocks : step["job"][b] # "idle" => b \in batch
  /\ \A b \in Blocks : step["retrier"][b] # "idle" => b \in todo
  /\ \A b \in todo : b \in failed \/ b \in txs
  /\ \A b \in rows \cup failed \cup todo : InRange(b)
  /\ batch # {} =>
       IF IsForward THEN Before(next) < Front + Concurrency
                    ELSE Before(next) > Front - Concurrency

\* A block of the batch lies in the configured range, and not behind the front.
LEMMA BatchLies ==
  ASSUME IInv, NEW b \in batch
  PROVE  InRange(b) /\ ~Past(Front, b) /\ b \in Blocks
<1> USE DEF IInv, KnowledgeInv, TypeInv
<1>1. /\ batch = Span(Front, Before(next)) /\ Front \in Blocks
      /\ phase = "running" /\ b \in Span(Front, Before(next))
  BY DEF LoopInv, BatchEndInv
<1>2. /\ anchor \in Blocks /\ checkpoint \in Blocks \cup {None} /\ MaxHead \in Nat
      /\ plan \in Plan /\ chainHead \in Blocks
  BY MaxHeadAssumption, PlansAssumption DEF TypeOK
<1>3. plan.endBlock \in Blocks /\ plan.startBlock \in Blocks \cup {None}
  BY <1>2 DEF Plan
<1>4. ~Past(Front, b) /\ b \in Blocks
  BY <1>1, <1>2 DEF Span, Past, Blocks
<1>5. InRange(b)
  <2>1. CASE checkpoint = None
    BY <1>1, <1>2, <1>3, <1>4, <2>1 DEF LoopInv, InRange, Front, Past, Blocks, None
  <2>2. CASE checkpoint # None
    BY <1>1, <1>2, <1>3, <1>4, <2>2 DEF LoopInv, InRange, Front, After, Past, Blocks, None
  <2> QED BY <2>1, <2>2
<1> QED BY <1>4, <1>5

\* A step of one task gives no other block a task, a row or a queue entry.
LEMMA HandleIsLocal ==
  ASSUME TypeOK, NEW w \in Workers, NEW b \in Blocks, Handle(w, b)
  PROVE  /\ step[w][b] # "idle"
         /\ \A v \in Workers, x \in Blocks :
              step'[v][x] # "idle" => step[v][x] # "idle"
         /\ rows' \subseteq rows \cup {b} /\ failed' \subseteq failed \cup {b}
         /\ txs \subseteq txs'
<1>t. step \in [Workers -> [Blocks -> Steps]]
  BY DEF TypeOK
<1>1. \E s \in Steps : MoveTo(w, b, s)
  BY DEF Handle, ProcessBlock, Verify, Enqueue, Rescue, Clear, Reject, Mismatch,
     OnError, Steps
<1>2. step[w][b] # "idle"
  BY DEF Handle, ProcessBlock, Verify, Enqueue, Rescue, Clear
<1>3. rows' \subseteq rows \cup {b}
  BY DEF Handle, ProcessBlock, Verify, Enqueue, Rescue, Clear, dbVars
<1>4. failed' \subseteq failed \cup {b}
  BY DEF Handle, ProcessBlock, Verify, Enqueue, Rescue, Clear
<1>5. txs \subseteq txs'
  BY DEF Handle, ProcessBlock, Verify, Enqueue, Rescue, Clear, dbVars, TxsAfter
<1>6. \A v \in Workers, x \in Blocks : step'[v][x] # "idle" => step[v][x] # "idle"
  BY <1>t, <1>1, <1>2 DEF MoveTo
<1> QED BY <1>2, <1>3, <1>4, <1>5, <1>6

\* A first launch starts at a block before which, in the walk's direction, the
\* configured range has none.
LEMMA FirstLaunchCovers ==
  ASSUME HonestHead, TypeOK, checkpoint = None, NEW h \in Blocks,
         chainHead - HeadLag <= h, h <= chainHead,
         NEW b \in Blocks, InRange(b)
  PROVE  ~Past(ResolvedStart(h), b)
<1>1. /\ plan \in Plan /\ plan \in Plans /\ chainHead \in Blocks /\ MaxHead \in Nat
  BY PlansAssumption, MaxHeadAssumption DEF TypeOK
<1>2. plan.endBlock \in Blocks /\ plan.startBlock \in Blocks \cup {None}
  BY <1>1 DEF Plan
<1>3. CASE ~IsForward /\ plan.startBlock = None
  <2>1. h = chainHead
    BY <1>1, <1>3, HeadLagAssumption DEF HonestHead, IsForward, Blocks
  <2> QED
    BY <1>1, <1>3, <2>1 DEF InRange, ResolvedStart, ConfiguredStart, Past, Blocks
<1>4. CASE IsForward \/ plan.startBlock # None
  BY <1>1, <1>2, <1>4 DEF InRange, ResolvedStart, ConfiguredStart, Past, Blocks
<1> QED BY <1>3, <1>4

\* Moving the front over the settled batch leaves nothing half stored behind.
LEMMA FrontMoves ==
  ASSUME IInv, HalfStoredRevisited, BatchSettled, checkpoint' = Before(next),
         UNCHANGED <<plan, rows, txs, failed>>
  PROVE  HalfStoredRevisited'
<1> USE DEF IInv, KnowledgeInv, TypeInv
<1>1. /\ Before(next) \in Blocks /\ batch = Span(Front, Before(next))
      /\ Front \in Blocks /\ MaxHead \in Nat /\ next \in Int
  BY MaxHeadAssumption DEF BatchSettled, LoopInv, BatchEndInv, TypeOK
<1>2. Front' = next
  BY <1>1 DEF Front, After, Before, IsForward, Blocks, None
<1>3. ASSUME NEW b \in rows \ txs, b \notin failed
      PROVE  ~Past(next, b)
  <2>1. b \in Blocks /\ ~Past(Front, b)
    BY <1>3 DEF HalfStoredRevisited, TypeOK
  <2>2. b \notin Span(Front, Before(next))
    BY <1>1, <1>3, <2>1 DEF BatchSettled, TaskInv, Complete
  <2> QED
    BY <1>1, <2>1, <2>2 DEF Span, Past, Before, Blocks
<1> QED
  BY <1>2, <1>3 DEF HalfStoredRevisited, Past, IsForward
\* A step leaves a half stored block queued, being handled, or ahead of the job.
LEMMA RevisitStep ==
  ASSUME HonestHead, IInv, IInv', RevisitInv, HalfStoredRevisited, [Next]_vars
  PROVE  RevisitInv' /\ HalfStoredRevisited'
<1> USE DEF IInv, KnowledgeInv, TypeInv
<1>t. /\ step \in [Workers -> [Blocks -> Steps]] /\ MaxHead \in Nat
      /\ chainHead \in Blocks /\ rows \subseteq Blocks /\ txs \subseteq Blocks
      /\ failed \subseteq Blocks /\ todo \subseteq Blocks /\ batch \subseteq Blocks
      /\ "job" \in Workers /\ "retrier" \in Workers
  BY MaxHeadAssumption DEF TypeOK, Workers
<1>1. CASE Launch
  <2>1. PICK h \in Blocks :
          /\ chainHead - HeadLag <= h /\ h <= chainHead
          /\ anchor' = IF checkpoint = None THEN ResolvedStart(h) ELSE anchor
    BY <1>1 DEF Launch
  <2>2. /\ UNCHANGED <<chainHead, plan, rows, txs, checkpoint, failed, todo, batch, step>>
        /\ batch = {}
    BY <1>1 DEF Launch, dbVars, taskVars, BatchEndInv
  <2>3. RevisitInv'
    BY <2>2 DEF RevisitInv, InRange, IsForward
  <2>4. ASSUME NEW b \in rows \ txs, b \notin failed PROVE ~Past(Front', b)
    <3>1. CASE checkpoint = None
      BY <1>t, <2>1, <2>2, <2>4, <3>1, FirstLaunchCovers DEF RevisitInv, Front
    <3>2. CASE checkpoint # None
      BY <2>1, <2>2, <2>4, <3>2 DEF HalfStoredRevisited, Front, After, IsForward
    <3> QED BY <3>1, <3>2
  <2> QED BY <2>2, <2>3, <2>4 DEF HalfStoredRevisited, Past, IsForward
<1>2. CASE StartBatch
  <2>1. /\ next = Front /\ next \in Blocks
        /\ UNCHANGED <<chainHead, plan, rows, txs, checkpoint, failed, todo, anchor, end>>
        /\ batch' = BatchFrom(next) /\ next' = AfterBatch(next)
        /\ step' = [step EXCEPT !["job"] =
                [b \in Blocks |-> IF b \in BatchFrom(next) THEN "process" ELSE "idle"]]
        /\ ~Past(next, end)
    BY <1>2, <1>t DEF StartBatch, LoopInv, Past, Blocks, TypeOK, dbVars
  <2>2. Front' = Front /\ HalfStoredRevisited'
    BY <2>1 DEF HalfStoredRevisited, Front, After, Past, IsForward
  <2>3. IF IsForward THEN Before(next') < Front + Concurrency
                     ELSE Before(next') > Front - Concurrency
    BY <2>1, <1>t, ConcurrencyAssumption DEF AfterBatch, Before, Past, Blocks, TypeOK
  <2>4. Before(next)' = Before(next') /\ (IsForward' <=> IsForward)
    BY <2>1 DEF Before, IsForward
  <2>5. /\ \A b \in Blocks : step'["job"][b] # "idle" => b \in batch'
        /\ \A b \in Blocks : step'["retrier"][b] = step["retrier"][b]
    BY <1>t, <2>1
  <2>6. \A b \in rows \cup failed \cup todo : InRange(b)' <=> InRange(b)
    BY <2>1 DEF InRange, IsForward
  <2> QED BY <2>1, <2>2, <2>3, <2>4, <2>5, <2>6 DEF RevisitInv
<1>3. ASSUME batch' = {}, Forget("job"),
             UNCHANGED <<chainHead, plan, rows, txs, todo>>,
             failed \subseteq failed', failed' \subseteq failed \cup batch
      PROVE  RevisitInv'
  <2>1. /\ \A b \in Blocks : step'["job"][b] = "idle"
        /\ \A b \in Blocks : step'["retrier"][b] = step["retrier"][b]
    BY <1>t, <1>3 DEF Forget
  <2>2. \A b \in rows \cup failed' \cup todo : InRange(b)'
    BY <1>3, BatchLies DEF RevisitInv, InRange, IsForward
  <2> QED BY <1>3, <2>1, <2>2 DEF RevisitInv
<1>4. CASE WriteCheckpoint
  BY <1>3, <1>4, FrontMoves DEF WriteCheckpoint, dbVars
<1>5. CASE Crash \/ CheckpointFails \/ \E b \in Blocks : RescueFails(b)
  <2>1. /\ batch' = {} /\ Forget("job")
        /\ UNCHANGED <<chainHead, plan, rows, txs, todo, anchor>>
    BY <1>5 DEF Crash, CheckpointFails, RescueFails, StopJob, dbVars
  <2>2. failed \subseteq failed' /\ failed' \subseteq failed \cup batch
    BY <1>5 DEF Crash, CheckpointFails, RescueFails, RevisitInv
  <2>3. HalfStoredRevisited'
    <3>1. CASE checkpoint' = checkpoint
      BY <2>1, <2>2, <3>1 DEF HalfStoredRevisited, Front, After, Past, IsForward
    <3>2. CASE checkpoint' # checkpoint
      BY <1>5, <2>1, <3>2, FrontMoves DEF Crash, CheckpointFails, RescueFails
    <3> QED BY <3>1, <3>2
  <2> QED BY <1>3, <2>1, <2>2, <2>3
<1>6. ASSUME NEW w \in Workers, NEW b \in Blocks, Handle(w, b)
      PROVE  RevisitInv' /\ HalfStoredRevisited'
  <2>1. /\ UNCHANGED <<chainHead, plan, checkpoint, next, batch, anchor, todo>>
        /\ Front' = Front /\ Before(next)' = Before(next)
        /\ \A x \in Blocks : (InRange(x)' <=> InRange(x)) /\ (Past(Front, x)' <=> Past(Front, x))
        /\ (IsForward' <=> IsForward)
    BY <1>6 DEF Handle, jobVars, Front, After, Before, InRange, Past, IsForward
  <2>2. /\ step[w][b] # "idle"
        /\ \A v \in Workers, x \in Blocks : step'[v][x] # "idle" => step[v][x] # "idle"
        /\ rows' \subseteq rows \cup {b} /\ failed' \subseteq failed \cup {b}
        /\ txs \subseteq txs'
    BY <1>6, HandleIsLocal
  <2>3. \A x \in failed \ failed' : x \in txs
    BY <1>6, HandleStep DEF Complete
  <2>4. b \in batch \/ b \in todo
    BY <2>2 DEF RevisitInv, Workers
  <2>5. InRange(b) /\ (b \in failed \/ b \in txs \/ ~Past(Front, b))
    BY <2>4, BatchLies DEF RevisitInv
  <2>6. RevisitInv'
    BY <1>t, <2>1, <2>2, <2>3, <2>5 DEF RevisitInv
  <2>7. HalfStoredRevisited'
    BY <1>t, <2>1, <2>2, <2>3, <2>5 DEF HalfStoredRevisited
  <2> QED BY <2>6, <2>7
<1>7. CASE CrashRetry \/ \E b \in Blocks : RetryEnd(b)
  <2>1. /\ Forget("retrier") /\ todo' \subseteq todo
        /\ UNCHANGED <<chainHead, plan, rows, txs, checkpoint, failed, next, batch, anchor>>
    BY <1>7 DEF CrashRetry, RetryEnd, dbVars, jobVars
  <2>2. /\ \A b \in Blocks : step'["retrier"][b] = "idle"
        /\ \A b \in Blocks : step'["job"][b] = step["job"][b]
    BY <1>t, <2>1 DEF Forget
  <2> QED
    BY <2>1, <2>2
    DEF RevisitInv, HalfStoredRevisited, InRange, Front, After, Before, Past, IsForward
<1>8. ASSUME NEW b \in Blocks, RetryStart(b)
      PROVE  RevisitInv' /\ HalfStoredRevisited'
  <2>1. /\ b \in todo
        /\ UNCHANGED <<chainHead, plan, rows, txs, checkpoint, failed, next, batch, anchor, todo>>
    BY <1>8 DEF RetryStart, IsNewest, dbVars, jobVars
  <2>2. \A v \in Workers, x \in Blocks :
          step'[v][x] # "idle" => step[v][x] # "idle" \/ (v = "retrier" /\ x = b)
    <3>1. step' = [step EXCEPT !["retrier"][b] = "process"]
      BY <1>8 DEF RetryStart, MoveTo
    <3> QED BY <1>t, <3>1
  <2> QED
    BY <1>t, <2>1, <2>2
    DEF RevisitInv, HalfStoredRevisited, InRange, Front, After, Before, Past, IsForward
<1>9. CASE SnapshotQueue \/ Finish \/ UNCHANGED vars
  <2>1. /\ todo' \in {todo, failed}
        /\ UNCHANGED <<chainHead, plan, rows, txs, checkpoint, failed, next, batch, anchor, step>>
        /\ todo' # todo => todo = {}
    BY <1>9 DEF SnapshotQueue, Finish, vars, dbVars, jobVars, taskVars
  <2> QED
    BY <2>1
    DEF RevisitInv, HalfStoredRevisited, InRange, Front, After, Before, Past, IsForward
<1>10. CASE NewBlock
  <2>1. /\ UNCHANGED <<plan, rows, txs, checkpoint, failed, next, batch, anchor, todo, step>>
        /\ chainHead' = chainHead + 1
    BY <1>10 DEF NewBlock, dbVars, jobVars, taskVars
  <2>2. \A x \in Blocks : InRange(x) => InRange(x)'
    BY <1>t, <2>1 DEF InRange, IsForward, Blocks
  <2> QED
    BY <1>t, <2>1, <2>2
    DEF RevisitInv, HalfStoredRevisited, Front, After, Before, Past, IsForward
<1> QED
  BY <1>1, <1>2, <1>4, <1>5, <1>6, <1>7, <1>8, <1>9, <1>10
  DEF Next, JobStep, RetryStep, Workers

\* The third layer holds on top of the others.
LEMMA RevisitInvariance ==
  ASSUME HonestHead PROVE Spec => [](IInv /\ RevisitInv /\ HalfStoredRevisited)
<1>1. Init => RevisitInv /\ HalfStoredRevisited
  BY DEF Init, RevisitInv, HalfStoredRevisited, Workers
<1>2. IInv /\ IInv' /\ RevisitInv /\ HalfStoredRevisited /\ [Next]_vars
        => RevisitInv' /\ HalfStoredRevisited'
  BY RevisitStep
<1> QED BY <1>1, <1>2, Invariance, PTL DEF Spec

\* A block whose processing failed half way is queued or lies where the next
\* launch comes to it again, over any crashes and with the retry pass beside.
THEOREM HalfStoredIsRevisited == ASSUME HonestHead PROVE Spec => []HalfStoredRevisited
<1> QED BY RevisitInvariance, PTL

\* A checkpoint, once there, moves by one batch at most and only onwards.
LEMMA CheckpointStep ==
  ASSUME IInv, RevisitInv, BatchSettled, checkpoint # None, checkpoint' = Before(next),
         UNCHANGED plan
  PROVE  /\ Past(checkpoint', checkpoint)
         /\ Cardinality(Span(After(checkpoint), checkpoint')) <= Concurrency
<1> USE DEF IInv, KnowledgeInv, TypeInv
<1>1. /\ Before(next) \in Blocks /\ Front \in Blocks /\ Past(next, Front)
      /\ IF IsForward THEN Before(next) < Front + Concurrency
                      ELSE Before(next) > Front - Concurrency
  BY DEF BatchSettled, LoopInv, BatchEndInv, RevisitInv
<1>2. /\ Front = After(checkpoint) /\ checkpoint \in Blocks /\ next \in Int
      /\ MaxHead \in Nat /\ Concurrency \in Nat
  BY MaxHeadAssumption, ConcurrencyAssumption DEF Front, TypeOK, Blocks
<1>3. Past(Before(next), checkpoint)
  BY <1>1, <1>2 DEF Past, Before, After, Blocks
<1>4. Cardinality(Span(Front, Before(next))) <= Concurrency
  <2>1. CASE IsForward
    <3>1. Span(Front, Before(next)) = Front .. Before(next)
      BY <1>1, <1>2, <2>1 DEF Span, Blocks
    <3>2. Front \in Int /\ Before(next) \in Int
      BY <1>1, <1>2 DEF Blocks
    <3>3. Cardinality(Front .. Before(next)) = IF Front > Before(next) THEN 0 ELSE Before(next) - Front + 1
      BY <3>2, FS_Interval
    <3> QED
      BY <1>1, <1>2, <2>1, <3>1, <3>2, <3>3
  <2>2. CASE ~IsForward
    <3>1. Span(Front, Before(next)) = Before(next) .. Front
      BY <1>1, <1>2, <2>2 DEF Span, Blocks
    <3>2. Before(next) \in Int /\ Front \in Int
      BY <1>1, <1>2 DEF Blocks
    <3>3. Cardinality(Before(next) .. Front) = IF Before(next) > Front THEN 0 ELSE Front - Before(next) + 1
      BY <3>2, FS_Interval
    <3> QED
      BY <1>1, <1>2, <2>2, <3>1, <3>2, <3>3
  <2> QED BY <2>1, <2>2
<1> QED BY <1>2, <1>3, <1>4

\* No restart, crash or failed checkpoint write makes the checkpoint jump over a
\* block or go back.
THEOREM CheckpointOnlyAdvances == ASSUME HonestHead PROVE Spec => CheckpointAdvances
<1> DEFINE Advance == checkpoint # None /\ checkpoint' # checkpoint =>
              /\ Past(checkpoint', checkpoint)
              /\ Cardinality(Span(After(checkpoint), checkpoint')) <= Concurrency
<1>1. IInv /\ RevisitInv /\ [Next]_vars => [Advance]_vars
  <2> SUFFICES ASSUME IInv, RevisitInv, Next, checkpoint # None, checkpoint' # checkpoint
               PROVE  /\ Past(checkpoint', checkpoint)
                      /\ Cardinality(Span(After(checkpoint), checkpoint')) <= Concurrency
    OBVIOUS
  <2>1. WriteCheckpoint \/ CheckpointFails
    BY DEF Next, JobStep, RetryStep, Launch, StartBatch, Finish, Crash, RescueFails,
       SnapshotQueue, RetryStart, RetryEnd, CrashRetry, NewBlock, Handle
  <2>2. BatchSettled /\ checkpoint' = Before(next) /\ UNCHANGED plan
    BY <2>1 DEF WriteCheckpoint, CheckpointFails, StopJob
  <2> QED BY <2>2, CheckpointStep
<1> QED BY <1>1, RevisitInvariance, PTL DEF Spec, CheckpointAdvances
=============================================================================
