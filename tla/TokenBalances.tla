---------------------------- MODULE TokenBalances ----------------------------
(***************************************************************************)
(* One token's aggregates: the transfers stored by the live poll and by    *)
(* the gapless backfill (services/tokenTransferService.ts), with the daily *)
(* rollup each of them refreshes; the balances and the transfer count the  *)
(* poll adds to (services/tokenBalanceService.ts); and the two scripts     *)
(* that derive them again from the transfers while the indexer runs        *)
(* (scripts/recomputeTokenAggregates.ts, jobs/backfillTokenDailyStats.ts). *)
(*                                                                         *)
(* A statement that selects and upserts reads its snapshot in one step and *)
(* writes in another: under READ COMMITTED others commit in between.       *)
(***************************************************************************)
EXTENDS Integers, FiniteSets, FiniteSetsExt

CONSTANTS
  MaxHead,    \* bound: blocks of the chain
  Owners,     \* addresses that hold the token
  Zero,       \* ZERO_ADDRESS, where mints come from and burns go
  Transfers,  \* block -> the token's transfers in it, [from, to, amount]
  Day,        \* block -> its UTC day
  MaxCount,   \* bound: the poll replays blocks while transferCount is at most this
  MaxFaults   \* bound: rejected awaits, ends of a process, heads behind the newest

Blocks == 1 .. MaxHead
Days   == {Day[b] : b \in Blocks}
Savers == {"poll", "gapless"}
None   == 0

ASSUME TokenAssumption ==
  /\ MaxHead \in Nat \ {0} /\ MaxFaults \in Nat /\ MaxCount \in Nat
  /\ Zero \notin Owners /\ IsFiniteSet(Owners)
  /\ \A b \in Blocks : IsFiniteSet(Transfers[b])
  /\ DOMAIN Day = Blocks /\ None \notin Days /\ DOMAIN Transfers = Blocks
  /\ \A t \in UNION {Transfers[b] : b \in Blocks} :
       {t.from, t.to} \subseteq Owners \cup {Zero} /\ t.amount \in Nat

VARIABLES
  head,
  stored,        \* blocks whose TokenTransfer rows are in the table
  balance, updatedBlock,  \* TokenBalance; updatedBlock[o] is None without a row
  transferCount, holderCount,                         \* Token
  rollup,        \* TokenDailyStat.transfers
  at, block, day, snap,   \* per saver: its place, its block, and its rollup statement
  job, jobSnap,  \* the script that is running, and what its statement has read
  faults,
  applied,       \* history: the blocks an owner's balance is made of
  clean,         \* history: nothing has made a balance miss a stored block
  quiet,         \* history: no saver wrote since the recomputation started
  overlap        \* history: days whose rollup two writers were at, or one failed at

tableVars == <<stored, balance, updatedBlock, transferCount, holderCount, rollup>>
saverVars == <<at, block, day, snap>>
jobVars   == <<job, jobSnap>>
vars == <<head, tableVars, saverVars, jobVars, faults, applied, clean, quiet, overlap>>

Init ==
  /\ head = 1
  /\ stored = {}
  /\ balance = [o \in Owners |-> 0] /\ updatedBlock = [o \in Owners |-> None]
  /\ transferCount = 0 /\ holderCount = 0
  /\ rollup = [d \in Days |-> 0]
  /\ at = [p \in Savers |-> "idle"] /\ block = [p \in Savers |-> None]
  /\ day = [p \in Savers |-> None] /\ snap = [p \in Savers |-> None]
  /\ job = "off" /\ jobSnap = {}
  /\ faults = 0
  /\ applied = [o \in Owners |-> {}]
  /\ clean = TRUE /\ quiet = TRUE /\ overlap = {}

-----------------------------------------------------------------------------
(* What a block's transfers amount to. *)

Delta(b, o) ==
  LET amount == [t \in Transfers[b] |-> t.amount]
  IN SumFunctionOnSet(amount, {t \in Transfers[b] : t.to = o})
       - SumFunctionOnSet(amount, {t \in Transfers[b] : t.from = o})

Touched(b) == {o \in Owners : \E t \in Transfers[b] : o \in {t.from, t.to}}

Count(S) == SumFunctionOnSet([b \in Blocks |-> Cardinality(Transfers[b])], S)

DayCount(d, S) == Count({b \in S : Day[b] = d})

NetBalance(o, S) == SumFunctionOnSet([b \in Blocks |-> Delta(b, o)], S)

Fault == faults < MaxFaults /\ faults' = faults + 1

-----------------------------------------------------------------------------
(* saveTokenTransfers. *)

Busy(p) == at[p] # "idle"

\* The poll's block is the head, or a lagging provider's.
PollBlock(b) ==
  /\ transferCount <= MaxCount
  /\ (b = head /\ UNCHANGED faults) \/ (b = head - 1 /\ Fault)

GaplessBlock(b) == b <= head /\ UNCHANGED faults

\* createMany with skipDuplicates; a block without transfers ends both calls.
SaveTransfers(p, b) ==
  /\ ~Busy(p)
  /\ IF p = "poll" THEN PollBlock(b) ELSE GaplessBlock(b)
  /\ Transfers[b] # {}
  /\ stored' = stored \cup {b}
  /\ at' = [at EXCEPT ![p] = "rollup"] /\ block' = [block EXCEPT ![p] = b]
  /\ clean' = (clean /\ \/ b \in stored
                        \/ p = "poll" /\ \A c \in stored : c < b)
  /\ quiet' = FALSE
  /\ UNCHANGED <<head, balance, updatedBlock, transferCount, holderCount, rollup, day,
                 snap, jobVars, applied, overlap>>

\* Where a saver goes after its rollup: only the poll keeps balances.
AfterRollup(p) ==
  /\ at' = [at EXCEPT ![p] = IF p = "poll" THEN "apply" ELSE "idle"]
  /\ block' = [block EXCEPT ![p] = IF p = "poll" THEN @ ELSE None]

WritersOf(d) == {p \in Savers : day[p] = d}

\* INSERT ... SELECT of the touched day: the snapshot ...
RollupRead(p) ==
  LET d == Day[block[p]]
  IN /\ at[p] = "rollup" /\ day[p] = None
     /\ day' = [day EXCEPT ![p] = d]
     /\ snap' = [snap EXCEPT ![p] = DayCount(d, stored)]
     /\ overlap' = IF WritersOf(d) # {} \/ job = "daily" THEN overlap \cup {d}
                   ELSE overlap \ {d}
     /\ UNCHANGED <<head, tableVars, at, block, jobVars, faults, applied, clean, quiet>>

\* Mutant: the rollup is added to instead of derived again.
RollupAdd(p) ==
  /\ at[p] = "rollup" /\ day[p] # None
  /\ rollup' = [rollup EXCEPT ![day[p]] = @ + Count({block[p]})]
  /\ day' = [day EXCEPT ![p] = None] /\ snap' = [snap EXCEPT ![p] = None]
  /\ AfterRollup(p)
  /\ UNCHANGED <<head, stored, balance, updatedBlock, transferCount, holderCount,
                 jobVars, faults, applied, clean, quiet, overlap>>

\* ... and ON CONFLICT DO UPDATE.
RollupWrite(p) ==
  /\ at[p] = "rollup" /\ day[p] # None
  /\ rollup' = [rollup EXCEPT ![day[p]] = snap[p]]
  /\ day' = [day EXCEPT ![p] = None] /\ snap' = [snap EXCEPT ![p] = None]
  /\ AfterRollup(p)
  /\ UNCHANGED <<head, stored, balance, updatedBlock, transferCount, holderCount,
                 jobVars, faults, applied, clean, quiet, overlap>>

\* A rollup that fails is logged and forgotten.
RollupFails(p) ==
  /\ at[p] = "rollup"
  /\ Fault
  /\ overlap' = overlap \cup {Day[block[p]]}
  /\ day' = [day EXCEPT ![p] = None] /\ snap' = [snap EXCEPT ![p] = None]
  /\ AfterRollup(p)
  /\ UNCHANGED <<head, tableVars, jobVars, applied, clean, quiet>>

\* The saver's process ends, or createMany or the transaction of
\* applyTokenBalanceUpdates rejects and its caller logs it.
SaverEnds(p) ==
  /\ Busy(p)
  /\ Fault
  /\ overlap' = IF at[p] = "rollup" THEN overlap \cup {Day[block[p]]} ELSE overlap
  /\ clean' = (clean /\ \A o \in Touched(block[p]) : block[p] \in applied[o])
  /\ at' = [at EXCEPT ![p] = "idle"] /\ block' = [block EXCEPT ![p] = None]
  /\ day' = [day EXCEPT ![p] = None] /\ snap' = [snap EXCEPT ![p] = None]
  /\ UNCHANGED <<head, tableVars, jobVars, applied, quiet>>

-----------------------------------------------------------------------------
(* applyTokenBalanceUpdates: one transaction. *)

\* Mutant: the guard lets a replay of the owner's newest block through.
GuardNotOlder(b) == {o \in Touched(b) : updatedBlock[o] = None \/ updatedBlock[o] <= b}

\* Mutant: only a row that is there is guarded and written.
GuardPresent(b) == {o \in Touched(b) : updatedBlock[o] # None /\ updatedBlock[o] < b}

\* The owners whose row is new or older than the block.
Guard(b) == {o \in Touched(b) : updatedBlock[o] = None \/ updatedBlock[o] < b}

ApplyBalances ==
  LET b == block["poll"]
  IN /\ at["poll"] = "apply"
     /\ transferCount' = transferCount + Count({b})
     /\ balance' = [o \in Owners |->
                      IF o \in Guard(b) THEN balance[o] + Delta(b, o) ELSE balance[o]]
     /\ updatedBlock' = [o \in Owners |-> IF o \in Guard(b) THEN b ELSE updatedBlock[o]]
     /\ applied' = [o \in Owners |->
                      IF o \in Guard(b) THEN applied[o] \cup {b} ELSE applied[o]]
     /\ at' = [at EXCEPT !["poll"] = "idle"] /\ block' = [block EXCEPT !["poll"] = None]
     /\ quiet' = FALSE
     /\ UNCHANGED <<head, stored, holderCount, rollup, day, snap, jobVars, faults, clean,
                    overlap>>

-----------------------------------------------------------------------------
(* recomputeTokenAggregates: four statements, no transaction around them. *)

\* The count is read.
RecomputeStart ==
  /\ job = "off"
  /\ job' = "count" /\ jobSnap' = stored
  /\ quiet' = TRUE
  /\ UNCHANGED <<head, tableVars, saverVars, faults, applied, clean, overlap>>

\* Without a transfer nothing is grouped and nothing upserted.
RecomputeCount ==
  /\ job = "count"
  /\ transferCount' = IF jobSnap = {} THEN transferCount ELSE Count(jobSnap)
  /\ job' = "next" /\ jobSnap' = {}
  /\ UNCHANGED <<head, stored, balance, updatedBlock, holderCount, rollup, saverVars,
                 faults, applied, clean, quiet, overlap>>

RecomputeReadBalances ==
  /\ job = "next"
  /\ job' = "balance" /\ jobSnap' = stored
  /\ UNCHANGED <<head, tableVars, saverVars, faults, applied, clean, quiet, overlap>>

OwnersIn(S) == UNION {Touched(b) : b \in S}

NewestOf(o, S) == Max({b \in S : o \in Touched(b)})

\* SUM and MAX per owner; an owner without transfers keeps its row.
RecomputeBalances ==
  /\ job = "balance"
  /\ balance' = [o \in Owners |-> IF o \in OwnersIn(jobSnap) THEN NetBalance(o, jobSnap)
                                  ELSE balance[o]]
  /\ updatedBlock' = [o \in Owners |-> IF o \in OwnersIn(jobSnap) THEN NewestOf(o, jobSnap)
                                       ELSE updatedBlock[o]]
  /\ applied' = [o \in Owners |-> IF o \in OwnersIn(jobSnap)
                                  THEN {b \in jobSnap : o \in Touched(b)} ELSE applied[o]]
  /\ clean' = (jobSnap = stored)
  /\ job' = "reset" /\ jobSnap' = {}
  /\ UNCHANGED <<head, stored, transferCount, holderCount, rollup, saverVars, faults,
                 quiet, overlap>>

RecomputeReset ==
  /\ job = "reset"
  /\ holderCount' = 0
  /\ job' = "holders"
  /\ UNCHANGED <<head, stored, balance, updatedBlock, transferCount, rollup, saverVars,
                 jobSnap, faults, applied, clean, quiet, overlap>>

Holders == {o \in Owners : balance[o] > 0}

\* Mutant: every row is counted.
RecomputeAllRows ==
  /\ job = "holders"
  /\ holderCount' = Cardinality({o \in Owners : updatedBlock[o] # None})
  /\ job' = "done"
  /\ UNCHANGED <<head, stored, balance, updatedBlock, transferCount, rollup, saverVars,
                 jobSnap, faults, applied, clean, quiet, overlap>>

RecomputeHolders ==
  /\ job = "holders"
  /\ holderCount' = Cardinality(Holders)
  /\ job' = "done"
  /\ UNCHANGED <<head, stored, balance, updatedBlock, transferCount, rollup, saverVars,
                 jobSnap, faults, applied, clean, quiet, overlap>>

RecomputeStep ==
  \/ RecomputeStart \/ RecomputeCount \/ RecomputeReadBalances
  \/ RecomputeBalances \/ RecomputeReset \/ RecomputeHolders

-----------------------------------------------------------------------------
(* backfillTokenDailyStats: one statement over every day. *)

DailyRead ==
  /\ job = "off"
  /\ job' = "daily" /\ jobSnap' = stored
  /\ overlap' = {d \in Days : WritersOf(d) # {}}
  /\ UNCHANGED <<head, tableVars, saverVars, faults, applied, clean, quiet>>

DailyWrite ==
  /\ job = "daily"
  /\ rollup' = [d \in Days |-> IF DayCount(d, jobSnap) > 0 THEN DayCount(d, jobSnap)
                               ELSE rollup[d]]
  /\ job' = "off" /\ jobSnap' = {}
  /\ UNCHANGED <<head, stored, balance, updatedBlock, transferCount, holderCount,
                 saverVars, faults, applied, clean, quiet, overlap>>

\* A script is over, at its end or before.
JobEnds ==
  /\ \/ job = "done" /\ UNCHANGED faults
     \/ job \notin {"off", "done"} /\ Fault
  /\ overlap' = IF job = "daily" THEN Days ELSE overlap
  /\ job' = "off" /\ jobSnap' = {}
  /\ UNCHANGED <<head, tableVars, saverVars, applied, clean, quiet>>

NewBlock ==
  /\ head < MaxHead
  /\ head' = head + 1
  /\ UNCHANGED <<tableVars, saverVars, jobVars, faults, applied, clean, quiet, overlap>>

Next ==
  \/ \E p \in Savers, b \in Blocks : SaveTransfers(p, b)
  \/ \E p \in Savers : RollupRead(p) \/ RollupWrite(p) \/ RollupFails(p) \/ SaverEnds(p)
  \/ ApplyBalances
  \/ RecomputeStep \/ DailyRead \/ DailyWrite \/ JobEnds
  \/ NewBlock

Spec == Init /\ [][Next]_vars

-----------------------------------------------------------------------------
(* Properties. *)

TypeOK ==
  /\ head \in Blocks
  /\ stored \subseteq 1 .. head
  /\ balance \in [Owners -> Int]
  /\ updatedBlock \in [Owners -> 0 .. head]
  /\ transferCount \in Nat
  /\ holderCount \in 0 .. Cardinality(Owners)
  /\ rollup \in [Days -> Nat]
  /\ at \in [Savers -> {"idle", "rollup", "apply"}]
  /\ block \in [Savers -> stored \cup {None}]
  /\ day \in [Savers -> Days \cup {None}] /\ snap \in [Savers -> Nat]
  /\ job \in {"off", "count", "next", "balance", "reset", "holders", "daily", "done"}
  /\ jobSnap \subseteq stored
  /\ faults \in 0 .. MaxFaults
  /\ clean \in BOOLEAN /\ quiet \in BOOLEAN /\ overlap \subseteq Days

\* A balance is the sum over a set of stored blocks: replays by the poll, blocks
\* out of order and a recomputation between them never count a block twice.
BalanceOfSet ==
  \A o \in Owners : applied[o] \subseteq stored /\ balance[o] = NetBalance(o, applied[o])

\* A balance misses a stored block of its owner only while the poll is about to
\* apply it, or after one of the events that are known to: a handler cut short,
\* a block older than one applied, a backfilled block, a recomputation that the
\* poll ran into.
MissingExplained ==
  clean => \A o \in Owners : \A b \in stored \ applied[o] :
             o \in Touched(b) => b = block["poll"]

\* Whatever the tables held, a recomputation that nothing ran beside leaves the
\* count, the balances and the holders the transfers add up to.
RecomputeExact ==
  job = "done" /\ quiet /\ stored # {} =>
    /\ transferCount = Count(stored)
    /\ \A o \in Owners : balance[o] = NetBalance(o, stored)
    /\ holderCount = Cardinality({o \in Owners : NetBalance(o, stored) > 0})

\* A day's rollup is behind its transfers only while a writer is at it or on
\* the way to it, or after two writers overlapped or one failed.
RollupFresh ==
  \A d \in Days :
    \/ rollup[d] = DayCount(d, stored)
    \/ d \in overlap
    \/ \E p \in Savers : at[p] = "rollup" /\ Day[block[p]] = d
    \/ job = "daily"
=============================================================================
