------------------------- MODULE LiveIndexerProofs -------------------------
(***************************************************************************)
(* Safety of the indexer's process for every chain length, concurrency,    *)
(* ticket and number of failures: the poll, the downtime backfill and the  *)
(* ticket fetch, in any order of their awaits and over any restarts.       *)
(*                                                                         *)
(* TypeOK is not inductive: that stored transactions have a row and that   *)
(* derived rows have transactions depends on where each promise stands,    *)
(* which StepsInv says.  CatchUpCovers needs GapInv, which follows the     *)
(* blocks of the downtime through the positions of backfillBlocks.         *)
(***************************************************************************)
EXTENDS LiveIndexer, LibraryFacts, TLAPS

\* Where a promise stands tells what it has stored, and that no promise runs
\* ahead of the chain.
StepsInv ==
  /\ pollAt \in {"txs", "derived"} => pollBlock # None
  /\ pollAt = "derived" => pollBlock \in txs
  /\ \A b \in Blocks : task[b] # "none" => b <= head
  /\ \A b \in Blocks : task[b] = "txs" => b \in rows
  /\ gapEnd <= head
  /\ gapAt \in {"head", "run"} => gapNext >= 1
  /\ \A b \in Blocks : task[b] # "none" => b \in begun
  /\ ~up \/ gapAt \in {"latest", "head"} => begun = {}
  /\ ~up => gapAt = "off"

\* What the batches have begun is stored, in flight or known as missed.  Unless it
\* was raced, the blocks of the downtime are above every row until the newest is
\* read, then from gapNext on, and begun once the loop has passed them.
GapInv ==
  /\ \A b \in begun : b \in txs \cup missed \/ task[b] # "none"
  /\ ~raced =>
       /\ gapAt = "latest" /\ downtime # {} =>
            rows # {} /\ \A d \in downtime, r \in rows : r < d
       /\ gapAt = "head" /\ downtime # {} =>
            gapNext > 1 /\ \A d \in downtime : gapNext <= d
       /\ gapAt = "run" => \A d \in downtime : d < gapNext => d \in begun

IInv == TypeOK /\ StepsInv /\ RowsExplained /\ PollCompletes /\ GapInv /\ CatchUpCovers

-----------------------------------------------------------------------------
(* Lemmas about the model's operators. *)

\* getLatestIndexedBlockNumber: a stored block above no other, or None.
LEMMA NewestBound ==
  ASSUME TypeOK
  PROVE  /\ Newest \in 0 .. head
         /\ \A r \in rows : r <= Newest
         /\ rows # {} => Newest \in rows
<1>1. rows \cup {None} \subseteq 0 .. head /\ head \in Nat
  BY LiveAssumption DEF TypeOK, Blocks, None
<1>2. Newest \in rows \cup {None} /\ \A r \in rows \cup {None} : Newest >= r
  BY <1>1, MaxOf DEF Newest
<1>3. ASSUME rows # {} PROVE Newest # None
  <2>1. PICK r \in rows : r \in 1 .. head
    BY <1>3 DEF TypeOK
  <2>2. Newest >= r
    BY <1>2, <2>1
  <2> QED
    BY <1>1, <2>1, <2>2 DEF None
<1> QED
  BY <1>1, <1>2, <1>3 DEF None

\* The batch of Promise.all starts at gapNext, ends by gapEnd and is not empty,
\* and Max(batch) is its end.
LEMMA BatchBounds ==
  ASSUME NEW lo \in Nat, NEW hi \in Nat, lo <= hi
  PROVE  LET last == Min({lo + Concurrency - 1, hi})
         IN  last \in lo .. hi /\ Max(lo .. last) = last
<1> DEFINE last == Min({lo + Concurrency - 1, hi})
<1>1. last \in lo .. hi
  <2>1. {lo + Concurrency - 1, hi} \subseteq lo .. (lo + Concurrency - 1 + hi)
    BY LiveAssumption
  <2>2. {lo + Concurrency - 1, hi} \subseteq Nat
    BY LiveAssumption
  <2>3. last \in {lo + Concurrency - 1, hi} /\ last <= hi
    BY <2>2, MinOf
  <2> QED
    BY <2>1, <2>3
<1> HIDE DEF last
<1>2. Max(lo .. last) \in lo .. last /\ Max(lo .. last) >= last
  <2>1. lo .. last \subseteq 0 .. last /\ last \in lo .. last /\ last \in Nat
    BY <1>1
  <2> QED
    BY <2>1, MaxOf
<1> QED
  BY <1>1, <1>2 DEF last

-----------------------------------------------------------------------------
(* The inductive step, an action at a time. *)

\* The process is down at first, and nothing is stored.
LEMMA InitHolds == Init => IInv
<1> SUFFICES ASSUME Init PROVE IInv
  OBVIOUS
<1> USE LiveAssumption DEF Init, NoTasks, Blocks, None
<1>1. TypeOK
  <2>1. head \in Blocks /\ finalized \in 0 .. head /\ faults \in 0 .. MaxFaults
    OBVIOUS
  <2>2. gapNext \in 0 .. MaxHead + 1 /\ gapEnd \in 0 .. MaxHead
    OBVIOUS
  <2>3. task \in [Blocks -> {"none", "fetch", "txs"}]
    OBVIOUS
  <2> QED
    BY <2>1, <2>2, <2>3 DEF TypeOK
<1>2. StepsInv
  BY DEF StepsInv
<1>3. RowsExplained /\ PollCompletes /\ CatchUpCovers
  BY DEF RowsExplained, PollCompletes, CatchUpCovers
<1>4. GapInv
  BY DEF GapInv
<1> QED
  BY <1>1, <1>2, <1>3, <1>4 DEF IInv

\* The types are kept.
LEMMA TypeStep ==
  ASSUME TypeOK, StepsInv, [Next]_vars
  PROVE  TypeOK'
<1> USE LiveAssumption DEF TypeOK, StepsInv, Blocks, None, chainVars, dbVars,
        pollVars, gapVars, Fault, SaveBlock, NoTasks, GapOver
<1>0. PollCut \subseteq rows /\ TaskCut \subseteq rows
  BY DEF PollCut, TaskCut
<1>1. CASE Start
  <2>1. Newest \in 0 .. head
    BY NewestBound
  <2> QED
    BY <1>1, <2>1 DEF Start
<1>2. CASE Crash
  <2>1. cut' \subseteq rows /\ faults' \in 0 .. MaxFaults
    BY <1>0, <1>2 DEF Crash
  <2>2. task' \in [Blocks -> {"none", "fetch", "txs"}]
    BY <1>2 DEF Crash
  <2>3. UNCHANGED <<head, finalized, rows, txs, derived, flagged>>
    BY <1>2 DEF Crash
  <2>4. /\ up' = FALSE /\ receipts' = TRUE /\ raced' = FALSE /\ downtime' = {}
        /\ pollAt' = "idle" /\ pollBlock' = 0
        /\ gapAt' = "off" /\ gapNext' = 0 /\ gapEnd' = 0
    BY <1>2 DEF Crash
  <2>5. gapNext' \in 0 .. MaxHead + 1 /\ gapEnd' \in 0 .. MaxHead
    BY <2>4
  <2>6. /\ up' \in BOOLEAN /\ receipts' \in BOOLEAN /\ raced' \in BOOLEAN
        /\ downtime' \subseteq 1 .. head' /\ pollBlock' \in rows' \cup {0}
        /\ begun' = {} /\ missed' = {}
    BY <1>2, <2>4 DEF Crash
  <2> QED
    BY <2>1, <2>2, <2>3, <2>4, <2>5, <2>6
<1>3. CASE PollLatest
  <2>1. PICK n \in 1 .. head : rows' = rows \cup {n} /\ pollBlock' = n
    BY <1>3 DEF PollLatest, ReportedHeads
  <2>2. raced' \in BOOLEAN
    BY <1>3 DEF PollLatest
  <2> QED
    BY <1>3, <2>1, <2>2 DEF PollLatest
<1>4. CASE PollTransactions
  <2>1. faults' \in 0 .. MaxFaults
    BY <1>4 DEF PollTransactions
  <2> QED
    BY <1>4, <2>1 DEF PollTransactions
<1>5. CASE PollDerived
  BY <1>5 DEF PollDerived
<1>6. CASE PollFinalized
  <2>1. faults' \in 0 .. MaxFaults
    BY <1>6 DEF PollFinalized
  <2>2. flagged' \subseteq rows \cap 1 .. finalized
    <3>1. PICK f \in 0 .. finalized : flagged' = flagged \cup (rows \cap 1 .. f)
      BY <1>6 DEF PollFinalized
    <3>2. 1 .. f \subseteq 1 .. finalized
      OBVIOUS
    <3> QED
      BY <3>1, <3>2
  <2> QED
    BY <1>6, <2>1, <2>2 DEF PollFinalized
<1>7. CASE PollFails
  BY <1>0, <1>7 DEF PollFails
<1>8. CASE GapReadLatest
  <2>1. Newest \in 0 .. head
    BY NewestBound
  <2> QED
    BY <1>8, <2>1 DEF GapReadLatest
<1>9. CASE GapReadHead \/ GapReadFails
  <2>1. /\ gapEnd' \in 0 .. MaxHead /\ gapNext' \in 0 .. MaxHead + 1
        /\ gapAt' \in {"run", "done", "dead"}
    BY <1>9 DEF GapReadHead, GapReadFails, ReportedHeads
  <2>2. faults' \in 0 .. MaxFaults
    BY <1>9 DEF GapReadHead, GapReadFails
  <2>3. begun = {} /\ UNCHANGED <<begun, missed>>
    BY <1>9 DEF GapReadHead, GapReadFails
  <2> QED
    BY <1>9, <2>1, <2>2, <2>3 DEF GapReadHead, GapReadFails
<1>10. CASE GapBatch
  <2>1. CASE gapNext > gapEnd
    <3>1. ~(gapNext <= gapEnd)
      BY <2>1
    <3>2. /\ gapAt' = "done" /\ gapNext' = 0
          /\ UNCHANGED <<task, begun, gapEnd, missed>>
      BY <1>10, <3>1 DEF GapBatch
    <3> QED
      BY <1>10, <3>2 DEF GapBatch
  <2>2. CASE gapNext <= gapEnd
    <3> DEFINE last == Min({gapNext + Concurrency - 1, gapEnd})
    <3>1. last \in gapNext .. gapEnd /\ Max(gapNext .. last) = last /\ gapNext >= 1
      BY <1>10, <2>2, BatchBounds DEF GapBatch
    <3> HIDE DEF last
    <3>a. ~(gapNext > gapEnd)
      BY <2>2
    <3>2. /\ task' = [b \in 1 .. MaxHead |-> IF b \in gapNext .. last THEN "fetch" ELSE "none"]
          /\ gapNext' = last + 1 /\ begun' = begun \cup (gapNext .. last)
          /\ UNCHANGED <<gapAt, gapEnd, missed>>
      BY <1>10, <3>1, <3>a DEF GapBatch, last
    <3>3. begun' \subseteq 1 .. gapEnd /\ missed' \subseteq begun'
      BY <3>1, <3>2
    <3>4. gapNext' \in 0 .. MaxHead + 1
      BY <3>1, <3>2
    <3> QED
      BY <1>10, <3>2, <3>3, <3>4 DEF GapBatch
  <2>3. gapNext \in Int /\ gapEnd \in Int
    OBVIOUS
  <2>4. gapNext > gapEnd \/ gapNext <= gapEnd
    BY <2>3
  <2> QED
    BY <2>1, <2>2, <2>4
<1>11. ASSUME NEW b \in Blocks, TaskSave(b) PROVE TypeOK'
  <2>1. task' \in [Blocks -> {"none", "fetch", "txs"}]
    BY <1>11 DEF TaskSave
  <2>2. rows' \in {rows, rows \cup {b}} /\ raced' \in BOOLEAN
    BY <1>11 DEF TaskSave
  <2>3. rows' \subseteq 1 .. head /\ rows \subseteq rows'
    <3>1. b \in 1 .. head
      BY <1>11 DEF TaskSave
    <3> QED
      BY <2>2, <3>1
  <2>4. faults' \in 0 .. MaxFaults /\ missed' \subseteq begun
    <3>1. missed' \in {missed, missed \cup {b}} /\ faults' \in {faults, faults + 1}
          /\ b \in begun
      BY <1>11 DEF TaskSave
    <3>2. faults' = faults + 1 => faults < MaxFaults
      BY <1>11 DEF TaskSave
    <3> QED
      BY <3>1, <3>2
  <2> QED
    BY <1>11, <2>1, <2>2, <2>3, <2>4 DEF TaskSave
<1>12. ASSUME NEW b \in Blocks, TaskTransactions(b) PROVE TypeOK'
  BY <1>12 DEF TaskTransactions
<1>13. ASSUME NEW b \in Blocks, TaskFails(b) PROVE TypeOK'
  BY <1>0, <1>13 DEF TaskFails
<1>14. CASE PersistTicket
  BY <1>14 DEF PersistTicket
<1>15. CASE NewBlock
  BY <1>15 DEF NewBlock
<1>16. CASE Finalize
  BY <1>16 DEF Finalize
<1>17. CASE UNCHANGED vars
  BY <1>17 DEF vars
<1> QED
  BY <1>1, <1>2, <1>3, <1>4, <1>5, <1>6, <1>7, <1>8, <1>9, <1>10, <1>11, <1>12,
     <1>13, <1>14, <1>15, <1>16, <1>17 DEF Next, PollStep, GapStep

\* A promise's place tells what it has stored.
LEMMA StepsStep ==
  ASSUME TypeOK, StepsInv, [Next]_vars
  PROVE  StepsInv'
<1> USE LiveAssumption DEF TypeOK, StepsInv, Blocks, None, chainVars, dbVars,
        pollVars, gapVars, SaveBlock, NoTasks, GapOver
<1>1. CASE Start
  BY <1>1 DEF Start
<1>2. CASE Crash
  BY <1>2 DEF Crash
<1>3. CASE PollLatest
  <2>1. PICK n \in 1 .. head : rows' = rows \cup {n} /\ pollBlock' = n
    BY <1>3 DEF PollLatest, ReportedHeads
  <2> QED
    BY <1>3, <2>1 DEF PollLatest
<1>4. CASE PollTransactions
  BY <1>4 DEF PollTransactions
<1>5. CASE PollDerived
  BY <1>5 DEF PollDerived
<1>6. CASE PollFinalized
  BY <1>6 DEF PollFinalized
<1>7. CASE PollFails
  BY <1>7 DEF PollFails
<1>8. CASE GapReadLatest
  <2>1. Newest \in 0 .. head
    BY NewestBound
  <2> QED
    BY <1>8, <2>1 DEF GapReadLatest
<1>9. CASE GapReadHead \/ GapReadFails
  <2>1. gapEnd' <= head
    BY <1>9 DEF GapReadHead, GapReadFails, ReportedHeads
  <2>2. gapAt' = "run" => gapNext' = gapNext
    BY <1>9 DEF GapReadHead, GapReadFails
  <2> QED
    BY <1>9, <2>1, <2>2 DEF GapReadHead, GapReadFails
<1>10. CASE GapBatch
  <2>1. CASE gapNext > gapEnd
    <3>1. ~(gapNext <= gapEnd)
      BY <2>1
    <3>2. /\ gapAt' = "done" /\ gapNext' = 0
          /\ UNCHANGED <<task, begun, gapEnd, missed>>
      BY <1>10, <3>1 DEF GapBatch
    <3> QED
      BY <1>10, <3>2 DEF GapBatch
  <2>2. CASE gapNext <= gapEnd
    <3> DEFINE last == Min({gapNext + Concurrency - 1, gapEnd})
    <3>1. last \in gapNext .. gapEnd /\ Max(gapNext .. last) = last
      BY <1>10, <2>2, BatchBounds DEF GapBatch
    <3> HIDE DEF last
    <3>a. ~(gapNext > gapEnd)
      BY <2>2
    <3>2. /\ task' = [b \in 1 .. MaxHead |-> IF b \in gapNext .. last THEN "fetch" ELSE "none"]
          /\ gapNext' = last + 1 /\ begun' = begun \cup (gapNext .. last)
          /\ UNCHANGED <<gapAt, gapEnd>> /\ gapAt = "run"
      BY <1>10, <3>1, <3>a DEF GapBatch, last
    <3>3. \A b \in Blocks : task'[b] # "none" => b \in gapNext .. last /\ task'[b] # "txs"
      BY <3>2
    <3>4. /\ \A b \in Blocks : task'[b] # "none" => b <= head
          /\ \A b \in Blocks : task'[b] = "txs" => b \in rows'
          /\ \A b \in Blocks : task'[b] # "none" => b \in begun'
      BY <3>1, <3>2, <3>3
    <3>5. gapNext' >= 1 /\ UNCHANGED <<chainVars, dbVars, up, pollVars>>
      BY <1>10, <3>1, <3>2 DEF GapBatch
    <3>6. up
      BY <1>10, <3>2 DEF GapBatch
    <3> HIDE DEF TypeOK
    <3> QED
      BY <3>2, <3>4, <3>5, <3>6
  <2>3. gapNext \in Int /\ gapEnd \in Int
    OBVIOUS
  <2>4. gapNext > gapEnd \/ gapNext <= gapEnd
    BY <2>3
  <2> QED
    BY <2>1, <2>2, <2>4
<1>11. ASSUME NEW b \in Blocks, TaskSave(b) PROVE StepsInv'
  <2>1. /\ task' \in {[task EXCEPT ![b] = "txs"], [task EXCEPT ![b] = "none"]}
        /\ task'[b] = "txs" => b \in rows'
        /\ task[b] = "fetch" /\ rows \subseteq rows'
    BY <1>11 DEF TaskSave
  <2>2. UNCHANGED <<chainVars, txs, up, pollVars, gapAt, gapNext, gapEnd, begun>>
    BY <1>11 DEF TaskSave
  <2> QED
    BY <2>1, <2>2
<1>12. ASSUME NEW b \in Blocks, TaskTransactions(b) PROVE StepsInv'
  BY <1>12 DEF TaskTransactions
<1>13. ASSUME NEW b \in Blocks, TaskFails(b) PROVE StepsInv'
  BY <1>13 DEF TaskFails
<1>14. CASE PersistTicket
  BY <1>14 DEF PersistTicket
<1>15. CASE NewBlock
  BY <1>15 DEF NewBlock
<1>16. CASE Finalize
  BY <1>16 DEF Finalize
<1>17. CASE UNCHANGED vars
  BY <1>17 DEF vars
<1> QED
  BY <1>1, <1>2, <1>3, <1>4, <1>5, <1>6, <1>7, <1>8, <1>9, <1>10, <1>11, <1>12,
     <1>13, <1>14, <1>15, <1>16, <1>17 DEF Next, PollStep, GapStep

\* A row without its transactions: a new one belongs to whoever stored it, an old
\* one stays its promise's until the transactions are in or the promise is cut.
LEMMA RowsStep ==
  ASSUME TypeOK, StepsInv, RowsExplained, [Next]_vars
  PROVE  RowsExplained'
<1> USE DEF TypeOK, StepsInv, RowsExplained, PollCut, TaskCut, None,
        chainVars, dbVars, pollVars, gapVars, SaveBlock
<1>1. CASE Start
  BY <1>1 DEF Start
<1>2. CASE Crash
  BY <1>2 DEF Crash
<1>3. CASE PollLatest
  BY <1>3 DEF PollLatest
<1>4. CASE PollTransactions
  BY <1>4 DEF PollTransactions
<1>5. CASE PollDerived
  BY <1>5 DEF PollDerived
<1>6. CASE PollFinalized
  BY <1>6 DEF PollFinalized
<1>7. CASE PollFails
  BY <1>7 DEF PollFails
<1>8. CASE GapReadLatest
  BY <1>8 DEF GapReadLatest
<1>9. CASE GapReadHead \/ GapReadFails
  BY <1>9 DEF GapReadHead, GapReadFails, GapOver
<1>10. CASE GapBatch
  <2>1. TaskCut = {}
    BY <1>10 DEF GapBatch, NoTasks
  <2>2. UNCHANGED <<rows, txs, cut, pollVars>>
    BY <1>10 DEF GapBatch
  <2> QED
    BY <2>1, <2>2
<1>11. ASSUME NEW b \in Blocks, TaskSave(b) PROVE RowsExplained'
  <2>1. UNCHANGED <<txs, pollVars>> /\ task[b] = "fetch"
    BY <1>11 DEF TaskSave
  <2>2. CASE rows' = rows \cup {b} /\ task' = [task EXCEPT ![b] = "txs"] /\ cut' = cut
    BY <2>1, <2>2
  <2>3. CASE rows' = rows /\ task' = [task EXCEPT ![b] = "none"] /\ cut' = cut
    BY <2>1, <2>3
  <2> QED
    BY <1>11, <2>2, <2>3 DEF TaskSave
<1>12. ASSUME NEW b \in Blocks, TaskTransactions(b) PROVE RowsExplained'
  BY <1>12 DEF TaskTransactions
<1>13. ASSUME NEW b \in Blocks, TaskFails(b) PROVE RowsExplained'
  BY <1>13 DEF TaskFails
<1>14. CASE PersistTicket
  BY <1>14 DEF PersistTicket
<1>15. CASE NewBlock
  BY <1>15 DEF NewBlock
<1>16. CASE Finalize
  BY <1>16 DEF Finalize
<1>17. CASE UNCHANGED vars
  BY <1>17 DEF vars
<1> QED
  BY <1>1, <1>2, <1>3, <1>4, <1>5, <1>6, <1>7, <1>8, <1>9, <1>10, <1>11, <1>12,
     <1>13, <1>14, <1>15, <1>16, <1>17 DEF Next, PollStep, GapStep

\* The poll reports a block after its transactions and derived rows only.
LEMMA PollStepHolds ==
  ASSUME TypeOK, StepsInv, PollCompletes, [Next]_vars
  PROVE  PollCompletes'
<1> USE DEF StepsInv, PollCompletes, None, chainVars, dbVars, pollVars, gapVars
<1>1. CASE UNCHANGED <<pollVars, derived>> /\ txs \subseteq txs'
  BY <1>1
<1>2. CASE pollAt' # "final" \/ pollBlock' = None
  BY <1>2
<1>3. CASE PollDerived
  BY <1>3 DEF PollDerived
<1>4. ASSUME NEW b \in Blocks, TaskSave(b) \/ TaskTransactions(b) \/ TaskFails(b)
      PROVE  PollCompletes'
  BY <1>1, <1>4 DEF TaskSave, TaskTransactions, TaskFails
<1>5. CASE \/ Start \/ GapReadLatest \/ GapReadHead \/ GapReadFails \/ GapBatch
           \/ PersistTicket \/ NewBlock \/ Finalize \/ UNCHANGED vars
  BY <1>1, <1>5 DEF Start, GapReadLatest, GapReadHead, GapReadFails, GapBatch, PersistTicket,
     NewBlock, Finalize, vars
<1>6. CASE Crash \/ PollLatest \/ PollTransactions \/ PollFinalized \/ PollFails
  BY <1>2, <1>6 DEF Crash, PollLatest, PollTransactions, PollFinalized, PollFails
<1> QED
  BY <1>3, <1>4, <1>5, <1>6 DEF Next, PollStep, GapStep

\* A step which is not the backfill's own leaves its position alone, and only the
\* process's end or a newer row in its way, which sets raced, undoes what it read.
LEMMA GapInvStep ==
  ASSUME TypeOK, StepsInv, GapInv, [Next]_vars
  PROVE  GapInv'
<1> USE DEF GapInv, chainVars, dbVars, pollVars, gapVars
<1>t. downtime \subseteq Int /\ rows \subseteq Int /\ begun \subseteq Blocks /\ head \in Int
      /\ gapNext \in Nat /\ gapEnd \in Nat /\ downtime \subseteq Blocks
  BY LiveAssumption DEF TypeOK, Blocks
<1>1. ASSUME UNCHANGED <<gapVars, rows, raced>>, txs \subseteq txs'
      PROVE  GapInv'
  BY <1>1
<1>2. ASSUME UNCHANGED <<gapAt, gapNext, gapEnd, downtime, begun>>,
             NEW c \in Blocks, SaveBlock(c),
             \A b \in begun : b \in txs' \cup missed' \/ task'[b] # "none"
      PROVE  GapInv'
  <2>1. CASE raced'
    BY <1>2, <2>1
  <2>2. CASE ~raced' /\ gapAt = "latest" /\ downtime # {}
    <3>1. ~raced /\ ~(c > Newest) /\ rows' = rows \cup {c} /\ c \in Int
      <4>1. /\ rows' = rows \cup {c} /\ gapAt = "latest" /\ downtime # {}
            /\ raced' = (raced \/ (gapAt = "latest" /\ downtime # {} /\ c > Newest))
        BY <1>2, <2>2 DEF SaveBlock
      <4>2. ~raced /\ ~(c > Newest)
        BY <2>2, <4>1
      <4> QED BY <4>1, <4>2, LiveAssumption DEF Blocks
    <3>2. rows # {} /\ \A d \in downtime, r \in rows : r < d
      BY <2>2, <3>1
    <3>3. Newest \in rows /\ c <= Newest
      BY <1>t, <3>1, <3>2, NewestBound
    <3>4. \A d \in downtime : c < d
      BY <1>t, <3>1, <3>2, <3>3
    <3> QED
      BY <1>2, <2>2, <3>1, <3>2, <3>4
  <2>3. CASE ~raced' /\ ~(gapAt = "latest" /\ downtime # {})
    <3>1. ~raced
      BY <1>2, <2>3 DEF SaveBlock, TypeOK
    <3> QED
      BY <1>2, <2>3, <3>1
  <2> QED
    BY <2>1, <2>2, <2>3
<1>3. CASE Start
  <2>1. \A r \in rows : r <= Newest
    BY NewestBound
  <2>2. downtime' # {} => rows # {} /\ downtime' = Newest + 1 .. head
    BY <1>3 DEF Start
  <2>3. Newest \in Int /\ head \in Int /\ \A r \in rows : r \in Int
    BY NewestBound, LiveAssumption DEF TypeOK, Blocks
  <2>4. gapAt' = "latest" /\ rows' = rows /\ begun' = {}
    BY <1>3 DEF Start, StepsInv
  <2>5. downtime' # {} => \A d \in downtime', r \in rows' : r < d
    BY <2>1, <2>2, <2>3, <2>4
  <2> QED
    BY <2>2, <2>4, <2>5
<1>4. CASE Crash
  BY <1>4 DEF Crash
<1>5. CASE GapReadLatest
  <2>1. /\ ~raced /\ downtime # {} => rows # {} /\ \A d \in downtime, r \in rows : r < d
        /\ gapAt' = "head" /\ gapNext' = Newest + 1
        /\ UNCHANGED <<downtime, raced, begun, txs, missed, task>>
    BY <1>5 DEF GapReadLatest
  <2>2. rows # {} => Newest \in rows
    BY NewestBound
  <2>3. head \in Int /\ rows \subseteq 1 .. head /\ downtime \subseteq 1 .. head
    BY LiveAssumption DEF TypeOK, Blocks
  <2>4. ASSUME ~raced, downtime # {}
        PROVE  Newest + 1 > 1 /\ \A d \in downtime : Newest + 1 <= d
    <3>1. Newest \in rows /\ Newest \in 1 .. head
      BY <2>1, <2>2, <2>3, <2>4
    <3>2. \A d \in downtime : d \in Int /\ Newest < d
      BY <2>1, <2>3, <2>4, <3>1
    <3> QED
      BY <2>3, <3>1, <3>2
  <2> QED
    BY <2>1, <2>4
<1>6. CASE GapReadHead
  <2>1. gapAt = "head" /\ UNCHANGED <<downtime, raced, begun, txs, missed, task>>
        /\ (gapAt' = "done" \/ (gapAt' = "run" /\ gapNext' = gapNext))
    BY <1>6 DEF GapReadHead, GapOver
  <2>2. gapAt' = "run" /\ ~raced => \A d \in downtime : ~(d < gapNext')
    BY <1>t, <2>1
  <2> QED
    BY <2>1, <2>2
<1>7. CASE GapBatch
  <2>1. CASE gapNext > gapEnd
    <3>1. gapAt' = "done" /\ UNCHANGED <<begun, txs, missed, task>>
      BY <1>7, <1>t, <2>1 DEF GapBatch, GapOver
    <3> QED
      BY <3>1
  <2>2. CASE gapNext <= gapEnd
    <3> DEFINE last == Min({gapNext + Concurrency - 1, gapEnd})
    <3>2. last \in gapNext .. gapEnd /\ Max(gapNext .. last) = last
      BY <1>t, <2>2, BatchBounds
    <3> HIDE DEF last
    <3>3. /\ task' = [b \in Blocks |-> IF b \in gapNext .. last THEN "fetch" ELSE "none"]
          /\ gapNext' = last + 1 /\ gapAt = "run" /\ task = NoTasks
          /\ begun' = begun \cup (gapNext .. last)
          /\ UNCHANGED <<gapAt, gapEnd, txs, missed, downtime, raced>>
      <4>1. ~(gapNext > gapEnd)
        BY <1>t, <2>2
      <4> QED
        BY <1>7, <3>2, <4>1 DEF GapBatch, last
    <3>4. ASSUME ~raced, NEW d \in downtime, d < gapNext'
          PROVE  d \in begun'
      <4>1. CASE d < gapNext
        BY <3>3, <3>4, <4>1
      <4>2. CASE d \in gapNext .. last
        BY <3>3, <4>2
      <4> QED
        BY <1>t, <3>2, <3>3, <3>4, <4>1, <4>2
    <3>5. ASSUME NEW b \in begun' PROVE b \in txs' \cup missed' \/ task'[b] # "none"
      <4>1. CASE b \in begun
        <5>1. b \in Blocks /\ task[b] = "none"
          BY <1>t, <3>3, <4>1 DEF NoTasks
        <5> QED BY <3>3, <4>1, <5>1
      <4>2. CASE b \in gapNext .. last
        <5>1. gapNext >= 1 /\ last <= MaxHead
          BY <1>t, <3>2, <3>3, LiveAssumption DEF TypeOK, StepsInv, Blocks
        <5>2. b \in Blocks
          BY <1>t, <3>2, <4>2, <5>1, LiveAssumption DEF Blocks
        <5> QED BY <3>3, <4>2, <5>2
      <4> QED BY <3>3, <3>5, <4>1, <4>2
    <3> QED
      BY <3>3, <3>4, <3>5
  <2> QED
    BY <1>t, <2>1, <2>2
<1>8. ASSUME NEW b \in Blocks, TaskSave(b) PROVE GapInv'
  <2>2. UNCHANGED <<txs, gapAt, gapNext, gapEnd, downtime, begun>>
    BY <1>8 DEF TaskSave
  <2>3. CASE SaveBlock(b) /\ task' = [task EXCEPT ![b] = "txs"] /\ UNCHANGED missed
    <3>1. \A c \in begun : c \in txs' \cup missed' \/ task'[c] # "none"
      BY <1>t, <2>2, <2>3 DEF TypeOK
    <3> QED
      BY <1>2, <2>2, <2>3, <3>1
  <2>4. CASE /\ missed' = missed \cup {b} /\ task' = [task EXCEPT ![b] = "none"]
             /\ UNCHANGED <<rows, raced>>
    BY <1>t, <2>2, <2>4 DEF TypeOK
  <2> QED
    BY <1>8, <2>3, <2>4 DEF TaskSave
<1>9. ASSUME NEW b \in Blocks, TaskTransactions(b) PROVE GapInv'
  BY <1>9, <1>t DEF TaskTransactions, TypeOK
<1>10. ASSUME NEW b \in Blocks, TaskFails(b) PROVE GapInv'
  BY <1>10, <1>t DEF TaskFails, GapOver, TypeOK
<1>11. CASE PollLatest
  <2>1. PICK n \in Blocks : SaveBlock(n)
    BY <1>11 DEF PollLatest, ReportedHeads
  <2> QED
    BY <1>2, <1>11, <2>1 DEF PollLatest
<1>12. CASE PersistTicket
  BY <1>2, <1>12, LiveAssumption DEF PersistTicket
<1>13. CASE \/ PollTransactions \/ PollDerived \/ PollFinalized \/ PollFails
            \/ NewBlock \/ Finalize \/ UNCHANGED vars
  BY <1>1, <1>13 DEF PollTransactions, PollDerived, PollFinalized, PollFails,
     NewBlock, Finalize, vars
<1>14. CASE GapReadFails
  BY <1>14 DEF GapReadFails, GapOver
<1> QED
  BY <1>3, <1>4, <1>5, <1>6, <1>7, <1>8, <1>9, <1>10, <1>11, <1>12, <1>13, <1>14
  DEF Next, PollStep, GapStep

\* The job gets to its end from the head, when nothing is missing, or from the
\* loop, when all up to the head is begun; afterwards rows only appear.
LEMMA CatchUpStep ==
  ASSUME TypeOK, StepsInv, GapInv, GapInv', CatchUpCovers, [Next]_vars
  PROVE  CatchUpCovers'
<1> DEFINE Covers == gapAt = "done" /\ ~raced => downtime \cap 1 .. gapEnd \subseteq begun
<1> USE DEF chainVars, dbVars, pollVars, gapVars
<1>c. Covers /\ (Covers' => CatchUpCovers')
  BY DEF CatchUpCovers, GapInv
<1>t. downtime \subseteq Int /\ gapNext \in Int /\ gapEnd \in Int /\ head \in Int
  BY LiveAssumption DEF TypeOK, Blocks
<1>1. CASE gapAt' # "done"
  BY <1>1, <1>c
<1>2. ASSUME UNCHANGED <<gapAt, gapEnd, downtime, begun>>, raced => raced'
      PROVE  CatchUpCovers'
  BY <1>2, <1>c
<1>3. CASE GapReadHead
  <2>1. CASE gapAt' = "done"
    <3>1. PICK h \in ReportedHeads : gapEnd' = h /\ (gapNext = 1 \/ gapNext > h)
      BY <1>3, <2>1 DEF GapReadHead
    <3>2. gapAt = "head" /\ UNCHANGED <<downtime, begun, raced>> /\ h \in Int
      BY <1>3, LiveAssumption DEF GapReadHead, ReportedHeads, Blocks
    <3>3. ~raced /\ downtime # {} => gapNext > 1 /\ \A d \in downtime : gapNext <= d
      BY <3>2 DEF GapInv
    <3>4. ~raced => downtime \cap 1 .. h = {}
      BY <1>t, <3>1, <3>2, <3>3
    <3>5. Covers'
      BY <3>1, <3>2, <3>4
    <3> QED BY <1>c, <3>5
  <2> QED BY <1>1, <2>1
<1>4. CASE GapBatch
  <2>1. CASE gapNext > gapEnd
    <3>1. UNCHANGED <<gapEnd, begun, downtime, raced>> /\ gapAt = "run"
      BY <1>4, <1>t, <2>1 DEF GapBatch
    <3>2. ~raced => \A d \in downtime : d < gapNext => d \in begun
      BY <3>1 DEF GapInv
    <3>3. Covers'
      BY <1>t, <2>1, <3>1, <3>2
    <3> QED BY <1>c, <3>3
  <2>2. CASE gapNext <= gapEnd
    <3>1. gapAt' = "run"
      BY <1>4, <1>t, <2>2 DEF GapBatch
    <3> QED BY <1>1, <3>1
  <2> QED
    BY <1>t, <2>1, <2>2
<1>5. ASSUME NEW b \in Blocks, TaskSave(b) \/ TaskTransactions(b)
      PROVE  CatchUpCovers'
  BY <1>2, <1>5 DEF TaskSave, TaskTransactions, SaveBlock
<1>6. CASE Start \/ Crash \/ GapReadLatest \/ GapReadFails \/ \E b \in Blocks : TaskFails(b)
  BY <1>1, <1>6 DEF Start, Crash, GapReadLatest, GapReadFails, TaskFails, GapOver
<1>7. CASE \/ PollTransactions \/ PollDerived \/ PollFinalized
           \/ PollFails \/ NewBlock \/ Finalize \/ UNCHANGED vars
  BY <1>2, <1>7 DEF PollTransactions, PollDerived, PollFinalized,
     PollFails, NewBlock, Finalize, vars
<1>9. CASE PersistTicket
  BY <1>2, <1>9 DEF PersistTicket, SaveBlock
<1>8. CASE PollLatest
  <2>1. PICK n \in Blocks : SaveBlock(n)
    BY <1>8 DEF PollLatest, ReportedHeads
  <2>2. raced => raced'
    BY <2>1 DEF SaveBlock
  <2> QED
    BY <1>2, <1>8, <2>2 DEF PollLatest
<1> QED
  BY <1>3, <1>4, <1>5, <1>6, <1>7, <1>8, <1>9 DEF Next, PollStep, GapStep

-----------------------------------------------------------------------------
(* The theorems. *)

\* The conjunction is an invariant.
LEMMA Invariance == Spec => []IInv
<1>1. IInv /\ [Next]_vars => IInv'
  BY TypeStep, StepsStep, RowsStep, PollStepHolds, GapInvStep, CatchUpStep DEF IInv
<1> QED
  BY InitHolds, <1>1, PTL DEF Spec

\* Every reachable state is one of the types, in particular derived rows have
\* transactions, transactions a row, and only rows below the tag are final.
THEOREM TypeCorrect == Spec => []TypeOK
<1>1. IInv => TypeOK
  BY DEF IInv
<1> QED
  BY Invariance, <1>1, PTL

\* A row without its transactions is always explained: a promise is between the
\* two, one was cut short there, or the row is a ticket's.
THEOREM RowsAlwaysExplained == Spec => []RowsExplained
<1>1. IInv => RowsExplained
  BY DEF IInv
<1> QED
  BY Invariance, <1>1, PTL

\* Whatever another promise stored before, a polled block with receipts has all of
\* its transactions and derived rows when pollLatestBlock reports it.
THEOREM PollAlwaysCompletes == Spec => []PollCompletes
<1>1. IInv => PollCompletes
  BY DEF IInv
<1> QED
  BY Invariance, <1>1, PTL

\* Through any failures the downtime backfill passes over no block of its batches,
\* and one that was not overtaken before it read the newest row and runs to its end
\* has begun every block of the downtime up to the head it was told.
THEOREM CatchUpAlwaysCovers == Spec => []CatchUpCovers
<1>1. IInv => CatchUpCovers
  BY DEF IInv
<1> QED
  BY Invariance, <1>1, PTL
=============================================================================
