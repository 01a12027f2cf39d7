------------------------ MODULE TokenBalancesProofs ------------------------
(***************************************************************************)
(* Safety of a token's aggregates for every chain, every set of owners and *)
(* every number of faults.  Above the type invariant:                      *)
(*                                                                         *)
(*   Stages        where a saver is, and what it holds there;              *)
(*   BalanceInv    an owner's balance is the sum over the blocks applied   *)
(*                 to it, the newest of which is its updatedBlock;         *)
(*   MissingInv    a block the poll is about to apply is newer than the    *)
(*                 balances that miss it;                                  *)
(*   RecomputeInv  what a script that nothing ran beside has derived;      *)
(*   RollupInv     whose rollup statement a stale row is waiting for.      *)
(***************************************************************************)
EXTENDS TokenBalances, LibraryFacts

Stages ==
  /\ \A b \in stored : Transfers[b] # {}
  /\ \A p \in Savers :
       /\ block[p] # None <=> at[p] # "idle"
       /\ at[p] = "apply" => p = "poll"
       /\ day[p] # None => at[p] = "rollup" /\ day[p] = Day[block[p]]

BalanceInv ==
  \A o \in Owners :
    /\ applied[o] \subseteq stored
    /\ \A b \in applied[o] : b <= updatedBlock[o]
    /\ updatedBlock[o] # None => updatedBlock[o] \in applied[o]
    /\ balance[o] = NetBalance(o, applied[o])

MissingInv ==
  clean => \A o \in Owners : \A b \in stored \ applied[o] :
             o \in Touched(b) => b = block["poll"] /\ updatedBlock[o] < b

RecomputeInv ==
  quiet =>
    /\ job \in {"count", "balance"} => jobSnap = stored
    /\ job \in {"next", "balance", "reset", "holders", "done"} /\ stored # {} =>
         transferCount = Count(stored)
    /\ job \in {"reset", "holders", "done"} =>
         \A o \in Owners : balance[o] = NetBalance(o, stored)
    /\ job = "done" => holderCount = Cardinality({o \in Owners : NetBalance(o, stored) > 0})

\* A saver that has stored a block of the day and not yet read the day's transfers.
Pending(p, d) == at[p] = "rollup" /\ day[p] = None /\ Day[block[p]] = d

RollupInv ==
  /\ \A d \in Days : rollup[d] # 0 => \E b \in stored : Day[b] = d
  /\ \A p \in Savers : day[p] # None =>
       /\ snap[p] # 0 => \E b \in stored : Day[b] = day[p]
       /\ day[p] \notin overlap =>
            /\ snap[p] = DayCount(day[p], stored) \/ \E q \in Savers : Pending(q, day[p])
            /\ \A q \in Savers \ {p} : day[q] # day[p]
            /\ job # "daily"
  /\ job = "daily" => \A d \in Days : d \notin overlap =>
       DayCount(d, jobSnap) = DayCount(d, stored) \/ \E q \in Savers : Pending(q, d)
  /\ RollupFresh

-----------------------------------------------------------------------------
(* What transfers amount to. *)

\* Blocks and their transfers are finite, and counts and changes are numbers.
LEMMA BlockFacts ==
  /\ IsFiniteSet(Blocks)
  /\ \A b \in Blocks : /\ IsFiniteSet(Transfers[b])
                       /\ Cardinality(Transfers[b]) \in Nat
                       /\ Transfers[b] # {} => Cardinality(Transfers[b]) > 0
                       /\ \A o \in Owners : Delta(b, o) \in Int
                       /\ \A o \in Owners \ Touched(b) : Delta(b, o) = 0
<1>1. IsFiniteSet(Blocks)
  BY TokenAssumption, FS_Interval DEF Blocks
<1>2. ASSUME NEW b \in Blocks
      PROVE  /\ IsFiniteSet(Transfers[b])
             /\ Cardinality(Transfers[b]) \in Nat
             /\ Transfers[b] # {} => Cardinality(Transfers[b]) > 0
             /\ \A o \in Owners : Delta(b, o) \in Int
             /\ \A o \in Owners \ Touched(b) : Delta(b, o) = 0
  <2>1. IsFiniteSet(Transfers[b])
    BY TokenAssumption
  <2>2. Cardinality(Transfers[b]) \in Nat /\ (Cardinality(Transfers[b]) = 0 <=> Transfers[b] = {})
    BY <2>1, FS_CardinalityType, FS_EmptySet
  <2> DEFINE amount == [t \in Transfers[b] |-> t.amount]
             to(o) == {t \in Transfers[b] : t.to = o}
             from(o) == {t \in Transfers[b] : t.from = o}
  <2>3. \A t \in Transfers[b] : amount[t] \in Int
    <3>1. \A t \in Transfers[b] : t.amount \in Nat
      BY TokenAssumption
    <3> QED
      BY <3>1
  <2>4. /\ SumFunctionOnSet(amount, {}) = 0
        /\ \A T \in SUBSET Transfers[b] : SumFunctionOnSet(amount, T) \in Int
    <3> HIDE DEF amount
    <3> QED
      BY <2>1, <2>3, SumFacts
  <2>5. \A o : Delta(b, o) = SumFunctionOnSet(amount, to(o)) - SumFunctionOnSet(amount, from(o))
    BY DEF Delta
  <2>6. \A o : to(o) \in SUBSET Transfers[b] /\ from(o) \in SUBSET Transfers[b]
    OBVIOUS
  <2>7. \A o \in Owners \ Touched(b) : to(o) = {} /\ from(o) = {}
    BY DEF Touched
  <2> HIDE DEF amount, to, from
  <2>8. \A o \in Owners : Delta(b, o) \in Int
    BY <2>4, <2>5, <2>6
  <2>9. \A o \in Owners \ Touched(b) : Delta(b, o) = 0
    <3>1. ASSUME NEW o \in Owners \ Touched(b) PROVE Delta(b, o) = 0
      <4>1. Delta(b, o) = SumFunctionOnSet(amount, {}) - SumFunctionOnSet(amount, {})
        BY <2>5, <2>7, Zenon
      <4> QED
        BY <2>4, <4>1
    <3> QED
      BY <3>1
  <2> QED
    BY <2>1, <2>2, <2>8, <2>9
<1> QED
  BY <1>1, <1>2

\* A balance over blocks: nothing is 0, a block adds its change, and blocks that do not
\* touch the owner do not count.
LEMMA NetBalanceFacts ==
  ASSUME NEW o \in Owners
  PROVE  /\ NetBalance(o, {}) = 0
         /\ \A S \in SUBSET Blocks : NetBalance(o, S) \in Int
         /\ \A S \in SUBSET Blocks : \A b \in Blocks \ S :
              NetBalance(o, S \cup {b}) = NetBalance(o, S) + Delta(b, o)
         /\ \A S \in SUBSET Blocks : \A U \in SUBSET S :
              (\A b \in S \ U : o \notin Touched(b)) => NetBalance(o, S) = NetBalance(o, U)
<1> DEFINE f == [b \in Blocks |-> Delta(b, o)]
<1>1. \A b \in Blocks : f[b] = Delta(b, o) /\ f[b] \in Int
  BY BlockFacts
<1>2. \A S : NetBalance(o, S) = SumFunctionOnSet(f, S)
  BY DEF NetBalance
<1> HIDE DEF f
<1>3. IsFiniteSet(Blocks) /\ \A b \in Blocks : f[b] \in Int
  BY <1>1, BlockFacts
<1>4. /\ NetBalance(o, {}) = 0
      /\ \A S \in SUBSET Blocks : NetBalance(o, S) \in Int
  BY <1>2, <1>3, SumFacts
<1>5. ASSUME NEW S \in SUBSET Blocks, NEW b \in Blocks \ S
      PROVE  NetBalance(o, S \cup {b}) = NetBalance(o, S) + Delta(b, o)
  <2>1. SumFunctionOnSet(f, S \cup {b}) = SumFunctionOnSet(f, S) + f[b]
    BY <1>3, SumAdd
  <2> QED
    BY <1>1, <1>2, <2>1
<1>6. ASSUME NEW S \in SUBSET Blocks, NEW U \in SUBSET S, \A b \in S \ U : o \notin Touched(b)
      PROVE  NetBalance(o, S) = NetBalance(o, U)
  <2>1. \A b \in S \ U : f[b] = 0
    BY <1>1, <1>6, BlockFacts
  <2>2. U \in SUBSET Blocks
    OBVIOUS
  <2>3. SumFunctionOnSet(f, S) = SumFunctionOnSet(f, U)
    BY <1>3, <2>1, <2>2, SumOfZeros
  <2> QED
    BY <1>2, <2>3
<1> QED
  BY <1>4, <1>5, <1>6

\* Counts of transfers are natural numbers, and no block counts less than its own.
LEMMA CountFacts ==
  /\ Count({}) = 0
  /\ \A S \in SUBSET Blocks :
       /\ Count(S) \in Nat
       /\ \A b \in S : Transfers[b] # {} => Count(S) > 0
<1> DEFINE f == [b \in Blocks |-> Cardinality(Transfers[b])]
<1>1. \A b \in Blocks : f[b] = Cardinality(Transfers[b]) /\ f[b] \in Nat
  BY BlockFacts
<1>2. \A S : Count(S) = SumFunctionOnSet(f, S)
  BY DEF Count
<1> HIDE DEF f
<1>3. IsFiniteSet(Blocks) /\ (\A b \in Blocks : f[b] \in Nat) /\ (\A b \in Blocks : f[b] \in Int)
  BY <1>1, BlockFacts
<1>4. Count({}) = 0
  BY <1>2, <1>3, SumFacts
<1>5. ASSUME NEW S \in SUBSET Blocks
      PROVE  Count(S) \in Nat /\ \A b \in S : Count(S) >= f[b]
  BY <1>2, <1>3, SumOfNats
<1>6. ASSUME NEW S \in SUBSET Blocks, NEW b \in S, Transfers[b] # {} PROVE Count(S) > 0
  <2>1. f[b] > 0 /\ f[b] \in Nat
    BY <1>1, <1>6, BlockFacts
  <2> QED
    BY <1>5, <2>1
<1> QED
  BY <1>4, <1>5, <1>6

\* A day has transfers if and only if it has a block with some.
LEMMA DayCountFacts ==
  ASSUME NEW d, NEW S \in SUBSET Blocks
  PROVE  /\ DayCount(d, S) \in Nat
         /\ DayCount(d, S) # 0 => \E b \in S : Day[b] = d
         /\ (\A b \in S : Transfers[b] # {}) =>
              ((\E b \in S : Day[b] = d) => DayCount(d, S) > 0)
         /\ \A b \in Blocks : Day[b] # d => DayCount(d, S \cup {b}) = DayCount(d, S)
<1> DEFINE T == {b \in S : Day[b] = d}
<1>1. T \in SUBSET Blocks /\ DayCount(d, S) = Count(T)
  BY DEF DayCount
<1>2. DayCount(d, S) \in Nat
  BY <1>1, CountFacts
<1>3. (\A b \in S : Day[b] # d) => T = {}
  OBVIOUS
<1>4. DayCount(d, S) # 0 => \E b \in S : Day[b] = d
  <2> HIDE DEF T
  <2> QED
    BY <1>1, <1>3, CountFacts
<1>5. ASSUME \A b \in S : Transfers[b] # {}, NEW b \in S, Day[b] = d PROVE DayCount(d, S) > 0
  <2>1. b \in T /\ Transfers[b] # {}
    BY <1>5
  <2> HIDE DEF T
  <2> QED
    BY <1>1, <2>1, CountFacts
<1>6. ASSUME NEW b \in Blocks, Day[b] # d PROVE DayCount(d, S \cup {b}) = DayCount(d, S)
  <2>1. {c \in S \cup {b} : Day[c] = d} = {c \in S : Day[c] = d}
    BY <1>6
  <2> QED
    BY <2>1 DEF DayCount
<1> QED
  BY <1>2, <1>4, <1>5, <1>6
-----------------------------------------------------------------------------
(* The invariant's parts, one by one. *)

\* Nothing is stored, applied, derived or under way at first.
LEMMA InitHolds ==
  Init => TypeOK /\ Stages /\ BalanceInv /\ MissingInv /\ RecomputeInv /\ RollupInv
<1> SUFFICES ASSUME Init PROVE TypeOK /\ Stages /\ BalanceInv /\ MissingInv /\ RecomputeInv /\ RollupInv
  OBVIOUS
<1>1. TypeOK
  <2>1. Cardinality(Owners) \in Nat
    BY TokenAssumption, FS_CardinalityType
  <2> QED
    BY <2>1, TokenAssumption DEF Init, TypeOK, Blocks, None
<1>2. Stages
  BY DEF Init, Stages
<1>3. BalanceInv
  BY NetBalanceFacts DEF Init, BalanceInv, None
<1>4. MissingInv /\ RecomputeInv
  BY DEF Init, MissingInv, RecomputeInv
<1>5. RollupInv
  <2>1. ASSUME NEW d PROVE DayCount(d, {}) = 0
    <3>1. {b \in {} : Day[b] = d} = {}
      OBVIOUS
    <3> QED
      BY <3>1, CountFacts DEF DayCount
  <2> QED
    BY <2>1 DEF Init, RollupInv, RollupFresh
<1> QED
  BY <1>1, <1>2, <1>3, <1>4, <1>5

\* What the constants' sizes amount to.
LEMMA Sizes ==
  /\ MaxHead \in Nat /\ MaxHead > 0 /\ MaxFaults \in Nat
  /\ Cardinality(Owners) \in Nat
  /\ \A S \in SUBSET Owners : Cardinality(S) \in 0 .. Cardinality(Owners)
  /\ 0 \notin Days /\ \A b \in Blocks : Day[b] \in Days
<1>1. Cardinality(Owners) \in Nat
  BY TokenAssumption, FS_CardinalityType
<1>2. ASSUME NEW S \in SUBSET Owners PROVE Cardinality(S) \in 0 .. Cardinality(Owners)
  <2>1. IsFiniteSet(S) /\ Cardinality(S) <= Cardinality(Owners)
    BY TokenAssumption, FS_Subset
  <2>2. Cardinality(S) \in Nat
    BY <2>1, FS_CardinalityType
  <2> QED
    BY <1>1, <2>1, <2>2
<1> QED
  BY <1>1, <1>2, TokenAssumption DEF Days, None

\* A saver that is busy holds a stored block, and its day.
LEMMA BusyBlock ==
  ASSUME TypeOK, Stages, NEW p \in Savers, at[p] # "idle"
  PROVE  /\ block[p] \in stored /\ block[p] \in Blocks /\ block[p] \in 1 .. head
         /\ Day[block[p]] \in Days
<1>1. block[p] \in stored /\ stored \subseteq 1 .. head /\ head \in 1 .. MaxHead
  BY DEF TypeOK, Stages, Blocks
<1>2. block[p] \in Blocks
  <2>1. head \in Nat /\ head <= MaxHead /\ MaxHead \in Nat
    BY <1>1, Sizes
  <2>2. 1 .. head \subseteq 1 .. MaxHead
    BY <2>1
  <2> QED
    BY <1>1, <2>2 DEF Blocks
<1> QED
  BY <1>1, <1>2, Sizes

\* The types, and where a saver stands, are kept.
LEMMA TypeStep == TypeOK /\ Stages /\ [Next]_vars => TypeOK' /\ Stages'
<1> SUFFICES ASSUME TypeOK, Stages, [Next]_vars PROVE TypeOK' /\ Stages'
  OBVIOUS
<1> USE Sizes DEF None
<1>0. /\ \A b \in Blocks : b \in Nat /\ b > 0
      /\ stored \subseteq Blocks
  BY DEF Blocks, TypeOK
<1>1. ASSUME NEW p \in Savers, NEW b \in Blocks, SaveTransfers(p, b) PROVE TypeOK' /\ Stages'
  <2>1. b \in 1 .. head /\ faults' \in 0 .. MaxFaults
    BY <1>0, <1>1 DEF SaveTransfers, PollBlock, GaplessBlock, Fault, TypeOK, Blocks
  <2>2. /\ stored' = stored \cup {b} /\ at' = [at EXCEPT ![p] = "rollup"]
        /\ block' = [block EXCEPT ![p] = b]
        /\ clean' \in BOOLEAN /\ quiet' = FALSE
        /\ UNCHANGED <<head, balance, updatedBlock, transferCount, holderCount, rollup, day,
                       snap, job, jobSnap, overlap>>
    BY <1>1 DEF SaveTransfers, jobVars, TypeOK
  <2>3. block' \in [Savers -> stored' \cup {None}]
    BY <2>2 DEF TypeOK
  <2>4. at' \in [Savers -> {"idle", "rollup", "apply"}]
    BY <2>2 DEF TypeOK
  <2>5. TypeOK'
    BY <2>1, <2>2, <2>3, <2>4 DEF TypeOK
  <2>6. Transfers[b] # {} /\ at[p] = "idle" /\ day[p] = None
    BY <1>1 DEF SaveTransfers, Busy, Stages
  <2>7. Stages'
    BY <1>0, <2>2, <2>6 DEF Stages, TypeOK
  <2> QED
    BY <2>5, <2>7
<1>2. ASSUME NEW p \in Savers, RollupRead(p) PROVE TypeOK' /\ Stages'
  <2>1. Day[block[p]] \in Days /\ DayCount(Day[block[p]], stored) \in Nat /\ at[p] = "rollup"
    BY <1>0, <1>2, BusyBlock, DayCountFacts DEF RollupRead
  <2>2. /\ day' = [day EXCEPT ![p] = Day[block[p]]]
        /\ snap' = [snap EXCEPT ![p] = DayCount(Day[block[p]], stored)]
        /\ overlap' \subseteq Days
        /\ UNCHANGED <<head, tableVars, at, block, jobVars, faults, applied, clean, quiet>>
    BY <1>2, <2>1 DEF RollupRead, TypeOK
  <2>3. TypeOK'
    BY <2>1, <2>2 DEF TypeOK, tableVars, jobVars
  <2>4. Stages'
    BY <2>1, <2>2 DEF Stages, TypeOK, tableVars
  <2> QED
    BY <2>3, <2>4
<1>3. ASSUME NEW p \in Savers, AfterRollup(p), at[p] = "rollup",
             day' = [day EXCEPT ![p] = None], snap' = [snap EXCEPT ![p] = None],
             UNCHANGED <<head, stored, balance, updatedBlock, transferCount, holderCount, jobVars,
                         clean, quiet>>,
             rollup' \in [Days -> Nat], faults' \in 0 .. MaxFaults, overlap' \subseteq Days
      PROVE  TypeOK' /\ Stages'
  <2>1. at' \in [Savers -> {"idle", "rollup", "apply"}] /\ block' \in [Savers -> stored \cup {None}]
    BY <1>3 DEF AfterRollup, TypeOK
  <2>2. TypeOK'
    BY <1>3, <2>1 DEF TypeOK, jobVars
  <2>3. Stages'
    BY <1>3 DEF AfterRollup, Stages, TypeOK
  <2> QED
    BY <2>2, <2>3
<1>4. ASSUME NEW p \in Savers, RollupWrite(p) PROVE TypeOK' /\ Stages'
  <2>1. rollup' \in [Days -> Nat] /\ faults' \in 0 .. MaxFaults /\ overlap' \subseteq Days
    BY <1>4 DEF RollupWrite, TypeOK
  <2> QED
    BY <1>3, <1>4, <2>1 DEF RollupWrite
<1>5. ASSUME NEW p \in Savers, RollupFails(p) PROVE TypeOK' /\ Stages'
  <2>1. rollup' \in [Days -> Nat] /\ faults' \in 0 .. MaxFaults
    BY <1>5 DEF RollupFails, Fault, TypeOK, tableVars
  <2>2. overlap' \subseteq Days
    BY <1>5, BusyBlock DEF RollupFails, TypeOK
  <2> QED
    BY <1>3, <1>5, <2>1, <2>2 DEF RollupFails, tableVars
<1>6. ASSUME NEW p \in Savers, SaverEnds(p) PROVE TypeOK' /\ Stages'
  <2>1. faults' \in 0 .. MaxFaults /\ clean' \in BOOLEAN
    BY <1>6 DEF SaverEnds, Fault, TypeOK
  <2>2. overlap' \subseteq Days
    BY <1>6, BusyBlock DEF SaverEnds, Busy, TypeOK
  <2>3. TypeOK'
    BY <1>6, <2>1, <2>2 DEF SaverEnds, TypeOK, tableVars, jobVars
  <2>4. Stages'
    BY <1>6 DEF SaverEnds, Stages, TypeOK, tableVars
  <2> QED
    BY <2>3, <2>4
<1>7. CASE ApplyBalances
  <2> DEFINE b == block["poll"]
  <2>1. at["poll"] = "apply" /\ "poll" \in Savers
    BY <1>7 DEF ApplyBalances, Savers
  <2>2. b \in stored /\ b \in Blocks /\ b \in 1 .. head
    BY <2>1, BusyBlock
  <2>3. transferCount' \in Nat
    <3>1. {b} \in SUBSET Blocks
      BY <2>2
    <3>2. Count({b}) \in Nat
      BY <3>1, CountFacts
    <3> QED
      BY <1>7, <3>2 DEF ApplyBalances, TypeOK
  <2>4. balance' \in [Owners -> Int]
    <3>1. \A o \in Owners : balance[o] + Delta(b, o) \in Int /\ balance[o] \in Int
      BY <2>2, BlockFacts DEF TypeOK
    <3> QED
      BY <1>7, <3>1 DEF ApplyBalances
  <2>5. updatedBlock' \in [Owners -> 0 .. head]
    BY <1>7, <2>2 DEF ApplyBalances, TypeOK
  <2>6. TypeOK'
    BY <1>7, <2>3, <2>4, <2>5 DEF ApplyBalances, TypeOK, jobVars
  <2>7. Stages'
    BY <1>7 DEF ApplyBalances, Stages, TypeOK
  <2> QED
    BY <2>6, <2>7
<1>8. ASSUME UNCHANGED <<head, stored, at, block, day, snap>>,
             balance' \in [Owners -> Int], updatedBlock' \in [Owners -> 0 .. head],
             transferCount' \in Nat, holderCount' \in 0 .. Cardinality(Owners),
             rollup' \in [Days -> Nat],
             job' \in {"off", "count", "next", "balance", "reset", "holders", "daily", "done"},
             jobSnap' \subseteq stored, faults' \in 0 .. MaxFaults,
             clean' \in BOOLEAN, quiet' \in BOOLEAN, overlap' \subseteq Days
      PROVE  TypeOK' /\ Stages'
  BY <1>8 DEF TypeOK, Stages
<1>9. CASE RecomputeStart \/ RecomputeReadBalances
  BY <1>8, <1>9 DEF RecomputeStart, RecomputeReadBalances, TypeOK, tableVars, saverVars
<1>10. CASE RecomputeCount
  <2>1. transferCount' \in Nat
    <3>1. jobSnap \in SUBSET Blocks
      BY <1>0 DEF TypeOK
    <3> QED
      BY <1>10, <3>1, CountFacts DEF RecomputeCount, TypeOK
  <2> QED
    BY <1>8, <1>10, <2>1 DEF RecomputeCount, TypeOK, saverVars
<1>11. CASE RecomputeBalances
  <2>0. jobSnap \subseteq Blocks /\ jobSnap \subseteq 1 .. head /\ head \in Nat
    BY <1>0 DEF TypeOK, Blocks
  <2>1. balance' \in [Owners -> Int]
    BY <1>11, <2>0, NetBalanceFacts DEF RecomputeBalances, TypeOK
  <2>2. updatedBlock' \in [Owners -> 0 .. head]
    <3>1. ASSUME NEW o \in OwnersIn(jobSnap) PROVE NewestOf(o, jobSnap) \in 0 .. head
      <4> DEFINE M == {b \in jobSnap : o \in Touched(b)}
      <4>1. M # {} /\ M \subseteq 0 .. head
        BY <2>0, <3>1 DEF OwnersIn
      <4> HIDE DEF M
      <4>2. Max(M) \in M
        BY <2>0, <4>1, MaxOf
      <4>3. Max(M) \in 0 .. head
        BY <4>1, <4>2
      <4> QED
        BY <4>3 DEF NewestOf, M
    <3> QED
      BY <1>11, <3>1 DEF RecomputeBalances, TypeOK
  <2>3. clean' \in BOOLEAN
    BY <1>11 DEF RecomputeBalances
  <2> QED
    BY <1>8, <1>11, <2>1, <2>2, <2>3 DEF RecomputeBalances, TypeOK, saverVars
<1>12. CASE RecomputeReset
  BY <1>8, <1>12 DEF RecomputeReset, TypeOK, saverVars
<1>13. CASE RecomputeHolders
  <2>1. Cardinality(Holders) \in 0 .. Cardinality(Owners)
    BY DEF Holders
  <2> QED
    BY <1>8, <1>13, <2>1 DEF RecomputeHolders, TypeOK, saverVars
<1>14. CASE DailyRead
  BY <1>8, <1>14 DEF DailyRead, TypeOK, tableVars, saverVars
<1>15. CASE DailyWrite
  <2>1. rollup' \in [Days -> Nat]
    <3>1. jobSnap \in SUBSET Blocks
      BY <1>0 DEF TypeOK
    <3>2. \A d \in Days : DayCount(d, jobSnap) \in Nat
      BY <3>1, DayCountFacts
    <3> QED
      BY <1>15, <3>2 DEF DailyWrite, TypeOK
  <2> QED
    BY <1>8, <1>15, <2>1 DEF DailyWrite, TypeOK, saverVars
<1>16. CASE JobEnds
  BY <1>8, <1>16 DEF JobEnds, Fault, TypeOK, tableVars, saverVars
<1>17. CASE NewBlock
  <2>1. head' \in Blocks /\ head \in Nat /\ head' = head + 1
    BY <1>17 DEF NewBlock, TypeOK, Blocks
  <2>2. stored' \subseteq 1 .. head'
    BY <1>17, <2>1 DEF NewBlock, TypeOK, tableVars
  <2>3. updatedBlock' \in [Owners -> 0 .. head']
    BY <1>17, <2>1 DEF NewBlock, TypeOK, tableVars
  <2> QED
    BY <1>17, <2>1, <2>2, <2>3 DEF NewBlock, TypeOK, Stages, tableVars, saverVars, jobVars
<1>18. CASE UNCHANGED vars
  BY <1>18 DEF vars, tableVars, saverVars, jobVars, TypeOK, Stages
<1> QED
  BY <1>1, <1>2, <1>4, <1>5, <1>6, <1>7, <1>9, <1>10, <1>11, <1>12, <1>13, <1>14, <1>15, <1>16,
     <1>17, <1>18
  DEF Next, RecomputeStep
\* The poll adds a block to balances that are older than it, and so lack it; a
\* recomputation takes the blocks that touch the owner, and the newest of them.
LEMMA BalanceStep == TypeOK /\ Stages /\ BalanceInv /\ [Next]_vars => BalanceInv'
<1> SUFFICES ASSUME TypeOK, Stages, BalanceInv, [Next]_vars PROVE BalanceInv'
  OBVIOUS
<1>0. stored \subseteq Blocks /\ jobSnap \subseteq Blocks /\ \A b \in Blocks : b \in Nat /\ b > 0
  BY Sizes DEF TypeOK, Blocks
<1>1. ASSUME UNCHANGED <<balance, updatedBlock, applied>>, stored \subseteq stored'
      PROVE  BalanceInv'
  BY <1>1 DEF BalanceInv, NetBalance, Delta
<1>2. ASSUME NEW p \in Savers, NEW b \in Blocks, SaveTransfers(p, b) PROVE BalanceInv'
  BY <1>1, <1>2 DEF SaveTransfers
<1>3. ASSUME NEW p \in Savers, RollupRead(p) \/ RollupWrite(p) \/ RollupFails(p) \/ SaverEnds(p)
      PROVE  BalanceInv'
  BY <1>1, <1>3 DEF RollupRead, RollupWrite, RollupFails, SaverEnds, tableVars
<1>4. CASE ApplyBalances
  <2> DEFINE b == block["poll"]
  <2>1. b \in stored /\ b \in Blocks
    BY <1>4, BusyBlock DEF ApplyBalances, Savers
  <2>2. UNCHANGED stored
    BY <1>4 DEF ApplyBalances
  <2>3. ASSUME NEW o \in Owners
        PROVE  /\ applied'[o] \subseteq stored
               /\ \A c \in applied'[o] : c <= updatedBlock'[o]
               /\ updatedBlock'[o] # None => updatedBlock'[o] \in applied'[o]
               /\ balance'[o] = NetBalance(o, applied'[o])
    <3>0. /\ applied[o] \subseteq stored
          /\ \A c \in applied[o] : c <= updatedBlock[o]
          /\ updatedBlock[o] # None => updatedBlock[o] \in applied[o]
          /\ balance[o] = NetBalance(o, applied[o])
      BY DEF BalanceInv
    <3>1. CASE o \notin Guard(b)
      <4>1. applied'[o] = applied[o] /\ updatedBlock'[o] = updatedBlock[o] /\ balance'[o] = balance[o]
        BY <1>4, <3>1 DEF ApplyBalances
      <4> QED
        BY <3>0, <4>1
    <3>2. CASE o \in Guard(b)
      <4>1. /\ applied'[o] = applied[o] \cup {b} /\ updatedBlock'[o] = b
            /\ balance'[o] = balance[o] + Delta(b, o)
        BY <1>4, <3>2 DEF ApplyBalances
      <4>2. \A c \in applied[o] : c < b
        <5>1. updatedBlock[o] = None \/ updatedBlock[o] < b
          BY <3>2 DEF Guard
        <5>2. updatedBlock[o] \in 0 .. head /\ head \in Nat
          BY Sizes DEF TypeOK, Blocks
        <5> QED
          BY <1>0, <2>1, <3>0, <5>1, <5>2 DEF None
      <4>3. b \in Blocks \ applied[o] /\ applied[o] \in SUBSET Blocks
        BY <1>0, <2>1, <3>0, <4>2
      <4>4. NetBalance(o, applied[o] \cup {b}) = NetBalance(o, applied[o]) + Delta(b, o)
        BY <4>3, NetBalanceFacts
      <4>5. \A c \in applied[o] \cup {b} : c <= b
        BY <1>0, <2>1, <3>0, <4>2
      <4> HIDE DEF b
      <4> QED
        BY <2>1, <3>0, <4>1, <4>4, <4>5
    <3> QED
      BY <3>1, <3>2
  <2> QED
    BY <2>2, <2>3 DEF BalanceInv, NetBalance, Delta
<1>5. CASE RecomputeBalances
  <2>1. UNCHANGED stored /\ jobSnap \subseteq stored
    BY <1>5 DEF RecomputeBalances, TypeOK
  <2>2. ASSUME NEW o \in Owners
        PROVE  /\ applied'[o] \subseteq stored
               /\ \A c \in applied'[o] : c <= updatedBlock'[o]
               /\ updatedBlock'[o] # None => updatedBlock'[o] \in applied'[o]
               /\ balance'[o] = NetBalance(o, applied'[o])
    <3>1. CASE o \notin OwnersIn(jobSnap)
      <4>1. applied'[o] = applied[o] /\ updatedBlock'[o] = updatedBlock[o] /\ balance'[o] = balance[o]
        BY <1>5, <3>1 DEF RecomputeBalances
      <4> QED
        BY <4>1 DEF BalanceInv
    <3>2. CASE o \in OwnersIn(jobSnap)
      <4> DEFINE M == {b \in jobSnap : o \in Touched(b)}
      <4>1. /\ applied'[o] = M /\ updatedBlock'[o] = Max(M)
            /\ balance'[o] = NetBalance(o, jobSnap)
        BY <1>5, <3>2 DEF RecomputeBalances, NewestOf
      <4>2. M # {} /\ M \subseteq 0 .. head /\ head \in Nat
        <5>1. jobSnap \subseteq 1 .. head /\ head \in Nat
          BY Sizes DEF TypeOK, Blocks
        <5> QED
          BY <3>2, <5>1 DEF OwnersIn
      <4>3. M \in SUBSET jobSnap /\ \A b \in jobSnap \ M : o \notin Touched(b)
        OBVIOUS
      <4>4. M \subseteq stored
        BY <2>1
      <4> HIDE DEF M
      <4>5. Max(M) \in M /\ \A c \in M : Max(M) >= c
        BY <4>2, MaxOf
      <4>6. \A c \in M : c <= Max(M)
        BY <4>2, <4>5
      <4>7. NetBalance(o, jobSnap) = NetBalance(o, M)
        BY <1>0, <4>3, NetBalanceFacts
      <4> QED
        BY <4>1, <4>4, <4>5, <4>6, <4>7
    <3> QED
      BY <3>1, <3>2
  <2> QED
    BY <2>1, <2>2 DEF BalanceInv, NetBalance, Delta
<1>6. CASE RecomputeStart \/ RecomputeCount \/ RecomputeReadBalances \/ RecomputeReset \/ RecomputeHolders
  BY <1>1, <1>6
  DEF RecomputeStart, RecomputeCount, RecomputeReadBalances, RecomputeReset, RecomputeHolders, tableVars
<1>7. CASE DailyRead \/ DailyWrite \/ JobEnds \/ NewBlock \/ UNCHANGED vars
  BY <1>1, <1>7 DEF DailyRead, DailyWrite, JobEnds, NewBlock, vars, tableVars
<1> QED
  BY <1>2, <1>3, <1>4, <1>5, <1>6, <1>7 DEF Next, RecomputeStep

\* A block becomes missing where the poll will add it: it is newer than the balance, or
\* an event is noted.
LEMMA MissingStep ==
  TypeOK /\ Stages /\ BalanceInv /\ MissingInv /\ [Next]_vars => MissingInv'
<1> SUFFICES ASSUME TypeOK, Stages, BalanceInv, MissingInv, [Next]_vars PROVE MissingInv'
  OBVIOUS
<1>0. /\ stored \subseteq Blocks /\ \A b \in Blocks : b \in Nat /\ b > 0
      /\ "poll" \in Savers
  BY Sizes DEF TypeOK, Blocks, Savers
<1>1. ASSUME UNCHANGED <<stored, updatedBlock, applied>>, block'["poll"] = block["poll"],
             clean' => clean
      PROVE  MissingInv'
  BY <1>1 DEF MissingInv, Touched
<1>2. ASSUME NEW p \in Savers, NEW b \in Blocks, SaveTransfers(p, b) PROVE MissingInv'
  <2>1. /\ stored' = stored \cup {b} /\ UNCHANGED <<updatedBlock, applied>>
        /\ block' = [block EXCEPT ![p] = b] /\ block[p] = None
    BY <1>2 DEF SaveTransfers, Busy, Stages
  <2>2. SUFFICES ASSUME clean', NEW o \in Owners, NEW c \in stored' \ applied[o], o \in Touched(c)
                 PROVE  c = block'["poll"] /\ updatedBlock[o] < c
    BY <2>1 DEF MissingInv, Touched
  <2>3. clean /\ (b \in stored \/ (p = "poll" /\ \A e \in stored : e < b))
    BY <1>2, <2>2 DEF SaveTransfers
  <2>4. CASE c \in stored
    <3>1. c = block["poll"] /\ updatedBlock[o] < c
      BY <2>2, <2>3, <2>4 DEF MissingInv
    <3>2. p # "poll"
      BY <1>0, <2>1, <2>4, <3>1 DEF None
    <3>3. block'["poll"] = block["poll"]
      BY <1>0, <2>1, <3>2 DEF TypeOK
    <3> QED
      BY <3>1, <3>3
  <2>5. CASE c \notin stored
    <3>1. c = b /\ p = "poll" /\ \A e \in stored : e < b
      BY <2>1, <2>2, <2>3, <2>5
    <3>2. block'["poll"] = b
      BY <1>0, <2>1, <3>1 DEF TypeOK
    <3>3. updatedBlock[o] = 0 \/ updatedBlock[o] \in stored
      BY DEF BalanceInv, None
    <3>4. b > 0
      BY <1>0
    <3> QED
      BY <3>1, <3>2, <3>3, <3>4
  <2> QED
    BY <2>4, <2>5
<1>3. ASSUME NEW p \in Savers, RollupRead(p) PROVE MissingInv'
  BY <1>1, <1>3 DEF RollupRead, tableVars
<1>4. ASSUME NEW p \in Savers, RollupWrite(p) \/ RollupFails(p) PROVE MissingInv'
  <2>1. block'["poll"] = block["poll"]
    BY <1>0, <1>4 DEF RollupWrite, RollupFails, AfterRollup, TypeOK
  <2> QED
    BY <1>1, <1>4, <2>1 DEF RollupWrite, RollupFails, tableVars
<1>5. ASSUME NEW p \in Savers, SaverEnds(p) PROVE MissingInv'
  <2>1. /\ clean' => clean /\ \A o \in Touched(block[p]) : block[p] \in applied[o]
        /\ UNCHANGED <<stored, updatedBlock, applied>>
        /\ block' = [block EXCEPT ![p] = None]
    BY <1>5 DEF SaverEnds, tableVars
  <2>2. CASE p = "poll"
    <3>1. clean' => \A o \in Owners : \A b \in stored \ applied[o] : o \notin Touched(b)
      BY <2>1, <2>2 DEF MissingInv
    <3> QED
      BY <2>1, <3>1 DEF MissingInv, Touched
  <2>3. CASE p # "poll"
    <3>1. block'["poll"] = block["poll"]
      BY <1>0, <2>1, <2>3 DEF TypeOK
    <3> QED
      BY <1>1, <2>1, <3>1
  <2> QED
    BY <2>2, <2>3
<1>6. CASE ApplyBalances
  <2> DEFINE b == block["poll"]
  <2>1. UNCHANGED <<stored, clean>> /\ \A o \in Owners : o \in Guard(b) => b \in applied'[o]
    BY <1>6 DEF ApplyBalances
  <2>2. \A o \in Owners : applied[o] \subseteq applied'[o]
    BY <1>6 DEF ApplyBalances
  <2>3. ASSUME clean, NEW o \in Owners, NEW c \in stored \ applied'[o] PROVE o \notin Touched(c)
    <3>1. c \in stored \ applied[o]
      BY <2>2
    <3>2. o \in Touched(c) => c = b /\ updatedBlock[o] < b
      BY <2>3, <3>1 DEF MissingInv
    <3>3. o \in Touched(c) => o \in Guard(b)
      BY <3>2 DEF Guard
    <3> QED
      BY <2>1, <2>3, <3>2, <3>3
  <2> QED
    BY <2>1, <2>3 DEF MissingInv, Touched
<1>7. CASE RecomputeBalances
  <2>1. /\ clean' => jobSnap = stored
        /\ UNCHANGED stored
        /\ \A o \in OwnersIn(jobSnap) \cap Owners : applied'[o] = {b \in jobSnap : o \in Touched(b)}
    BY <1>7 DEF RecomputeBalances
  <2>2. ASSUME clean', NEW o \in Owners, NEW b \in stored \ applied'[o] PROVE o \notin Touched(b)
    <3>1. jobSnap = stored
      BY <2>1, <2>2
    <3>2. o \in Touched(b) => o \in OwnersIn(jobSnap)
      BY <3>1 DEF OwnersIn
    <3> QED
      BY <2>1, <2>2, <3>1, <3>2
  <2> QED
    BY <2>1, <2>2 DEF MissingInv, Touched
<1>8. CASE RecomputeStart \/ RecomputeCount \/ RecomputeReadBalances \/ RecomputeReset \/ RecomputeHolders
  BY <1>1, <1>8
  DEF RecomputeStart, RecomputeCount, RecomputeReadBalances, RecomputeReset, RecomputeHolders, tableVars,
      saverVars
<1>9. CASE DailyRead \/ DailyWrite \/ JobEnds \/ NewBlock \/ UNCHANGED vars
  BY <1>1, <1>9 DEF DailyRead, DailyWrite, JobEnds, NewBlock, vars, tableVars, saverVars
<1> QED
  BY <1>2, <1>3, <1>4, <1>5, <1>6, <1>7, <1>8, <1>9 DEF Next, RecomputeStep

\* A script that no writer runs beside sees the same transfers in each of its
\* statements; an owner it leaves alone has no transfers to add up.
LEMMA RecomputeStepHolds ==
  TypeOK /\ BalanceInv /\ RecomputeInv /\ [Next]_vars => RecomputeInv'
<1> SUFFICES ASSUME TypeOK, BalanceInv, RecomputeInv, [Next]_vars PROVE RecomputeInv'
  OBVIOUS
<1> USE DEF RecomputeInv
<1>0. stored \subseteq Blocks
  BY Sizes DEF TypeOK, Blocks
<1>1. ASSUME UNCHANGED <<stored, transferCount, balance, holderCount, job, jobSnap, quiet>>
      PROVE  RecomputeInv'
  BY <1>1 DEF Count, NetBalance, Delta
<1>2. ASSUME quiet' = FALSE PROVE RecomputeInv'
  BY <1>2
<1>3. ASSUME NEW p \in Savers, NEW b \in Blocks, SaveTransfers(p, b) PROVE RecomputeInv'
  BY <1>2, <1>3 DEF SaveTransfers
<1>4. ASSUME NEW p \in Savers, RollupRead(p) \/ RollupWrite(p) \/ RollupFails(p) \/ SaverEnds(p)
      PROVE  RecomputeInv'
  BY <1>1, <1>4 DEF RollupRead, RollupWrite, RollupFails, SaverEnds, tableVars, jobVars
<1>5. CASE ApplyBalances
  BY <1>2, <1>5 DEF ApplyBalances
<1>6. CASE RecomputeStart
  BY <1>6 DEF RecomputeStart, tableVars
<1>7. CASE RecomputeCount
  <2>1. quiet' /\ stored # {} => transferCount' = Count(stored)
    BY <1>7 DEF RecomputeCount
  <2> QED
    BY <1>7, <2>1 DEF RecomputeCount, Count
<1>8. CASE RecomputeReadBalances
  BY <1>8 DEF RecomputeReadBalances, tableVars, Count
<1>9. CASE RecomputeBalances
  <2>1. ASSUME quiet, NEW o \in Owners PROVE balance'[o] = NetBalance(o, stored)
    <3>1. jobSnap = stored
      BY <1>9, <2>1 DEF RecomputeBalances
    <3>2. CASE o \in OwnersIn(stored)
      BY <1>9, <3>1, <3>2 DEF RecomputeBalances
    <3>3. CASE o \notin OwnersIn(stored)
      <4>1. balance'[o] = balance[o]
        BY <1>9, <3>1, <3>3 DEF RecomputeBalances
      <4>2. balance[o] = NetBalance(o, applied[o]) /\ applied[o] \in SUBSET stored
        BY DEF BalanceInv
      <4>3. \A b \in stored \ applied[o] : o \notin Touched(b)
        BY <3>3 DEF OwnersIn
      <4>4. stored \in SUBSET Blocks
        BY <1>0
      <4>5. NetBalance(o, stored) = NetBalance(o, applied[o])
        BY <4>2, <4>3, <4>4, NetBalanceFacts
      <4> QED
        BY <4>1, <4>2, <4>5
    <3> QED
      BY <3>2, <3>3
  <2>2. /\ UNCHANGED <<stored, transferCount, quiet>> /\ job = "balance" /\ job' = "reset"
    BY <1>9 DEF RecomputeBalances
  <2> QED
    BY <2>1, <2>2 DEF Count, NetBalance, Delta
<1>10. CASE RecomputeReset
  BY <1>10 DEF RecomputeReset, Count, NetBalance, Delta
<1>11. CASE RecomputeHolders
  <2>1. UNCHANGED <<stored, balance, transferCount, quiet>> /\ job = "holders" /\ job' = "done"
    BY <1>11 DEF RecomputeHolders
  <2>2. holderCount' = Cardinality({o \in Owners : balance[o] > 0})
    BY <1>11 DEF RecomputeHolders, Holders
  <2>3. ASSUME quiet PROVE {o \in Owners : balance[o] > 0} = {o \in Owners : NetBalance(o, stored) > 0}
    BY <2>1, <2>3
  <2> QED
    BY <2>1, <2>2, <2>3 DEF Count, NetBalance, Delta
<1>12. CASE DailyRead \/ DailyWrite \/ JobEnds
  BY <1>12 DEF DailyRead, DailyWrite, JobEnds
<1>13. CASE NewBlock \/ UNCHANGED vars
  BY <1>1, <1>13 DEF NewBlock, vars, tableVars, saverVars, jobVars
<1> QED
  BY <1>3, <1>4, <1>5, <1>6, <1>7, <1>8, <1>9, <1>10, <1>11, <1>12, <1>13 DEF Next, RecomputeStep

\* A rollup is written with what was read for it: whoever stored a block of the day
\* since is still on the way to reading it, or the day is noted.
LEMMA RollupStep == TypeOK /\ Stages /\ RollupInv /\ [Next]_vars => RollupInv'
<1> SUFFICES ASSUME TypeOK, Stages, RollupInv, [Next]_vars PROVE RollupInv'
  OBVIOUS
<1>0. /\ stored \subseteq Blocks /\ jobSnap \subseteq Blocks /\ jobSnap \subseteq stored
      /\ \A d \in Days : d # None
  BY Sizes DEF TypeOK, Blocks, None
<1> DEFINE Waits(q, e) == at'[q] = "rollup" /\ day'[q] = None /\ Day[block'[q]] = e
<1>a. ASSUME \A d \in Days : rollup'[d] # 0 => \E c \in stored' : Day[c] = d,
             \A q \in Savers : day'[q] # None =>
               /\ snap'[q] # 0 => \E c \in stored' : Day[c] = day'[q]
               /\ day'[q] \notin overlap' =>
                    /\ snap'[q] = DayCount(day'[q], stored') \/ \E r \in Savers : Waits(r, day'[q])
                    /\ \A r \in Savers \ {q} : day'[r] # day'[q]
                    /\ job' # "daily",
             job' = "daily" => \A d \in Days : d \notin overlap' =>
               DayCount(d, jobSnap') = DayCount(d, stored') \/ \E q \in Savers : Waits(q, d),
             \A d \in Days : \/ rollup'[d] = DayCount(d, stored')
                             \/ d \in overlap'
                             \/ \E q \in Savers : at'[q] = "rollup" /\ Day[block'[q]] = d
                             \/ job' = "daily"
      PROVE  RollupInv'
  BY <1>a DEF RollupInv, RollupFresh, Pending, DayCount, Count
<1>1. ASSUME UNCHANGED <<stored, rollup, at, block, day, snap, job, jobSnap, overlap>>
      PROVE  RollupInv'
  BY <1>1 DEF RollupInv, RollupFresh, Pending, DayCount, Count
<1>2. ASSUME NEW p \in Savers, NEW b \in Blocks, SaveTransfers(p, b) PROVE RollupInv'
  <2>1. /\ stored' = stored \cup {b} /\ at' = [at EXCEPT ![p] = "rollup"]
        /\ block' = [block EXCEPT ![p] = b]
        /\ UNCHANGED <<rollup, day, snap, job, jobSnap, overlap>>
    BY <1>2 DEF SaveTransfers, jobVars
  <2>2. at[p] = "idle" /\ day[p] = None
    BY <1>2 DEF SaveTransfers, Busy, Stages
  <2>3. Waits(p, Day[b]) /\ (at'[p] = "rollup" /\ Day[block'[p]] = Day[b])
    BY <2>1, <2>2 DEF Pending, TypeOK
  <2>4. \A d \in Days : d # Day[b] => DayCount(d, stored) = DayCount(d, stored')
    BY <1>0, <2>1, DayCountFacts
  <2>5. \A q \in Savers : \A d : Pending(q, d) => Waits(q, d)
    BY <2>1, <2>2 DEF Pending, TypeOK
  <2>6. \A q \in Savers : \A d : at[q] = "rollup" /\ Day[block[q]] = d
                               => at'[q] = "rollup" /\ Day[block'[q]] = d
    BY <2>1, <2>2 DEF TypeOK
  <2>7. \A d \in Days : rollup'[d] # 0 => \E c \in stored' : Day[c] = d
    BY <2>1 DEF RollupInv
  <2>8. ASSUME NEW q \in Savers, day'[q] # None
        PROVE  /\ snap'[q] # 0 => \E c \in stored' : Day[c] = day'[q]
               /\ day'[q] \notin overlap' =>
                    /\ snap'[q] = DayCount(day'[q], stored') \/ \E r \in Savers : Waits(r, day'[q])
                    /\ \A r \in Savers \ {q} : day'[r] # day'[q]
                    /\ job' # "daily"
    <3>1. day[q] \in Days /\ day[q] # None
      BY <2>1, <2>8 DEF TypeOK
    <3>2. day[q] = Day[b] \/ DayCount(day[q], stored) = DayCount(day[q], stored')
      BY <2>4, <3>1
    <3>3. /\ snap[q] # 0 => \E c \in stored : Day[c] = day[q]
          /\ day[q] \notin overlap =>
               /\ snap[q] = DayCount(day[q], stored) \/ \E r \in Savers : Pending(r, day[q])
               /\ \A r \in Savers \ {q} : day[r] # day[q]
               /\ job # "daily"
      BY <3>1 DEF RollupInv
    <3> HIDE DEF Waits
    <3>4. (\E r \in Savers : Pending(r, day[q])) => \E r \in Savers : Waits(r, day[q])
      BY <2>5
    <3>5. day[q] = Day[b] => \E r \in Savers : Waits(r, day[q])
      BY <2>3
    <3> QED
      BY <2>1, <3>2, <3>3, <3>4, <3>5
  <2>9. ASSUME job' = "daily", NEW d \in Days, d \notin overlap'
        PROVE  DayCount(d, jobSnap') = DayCount(d, stored') \/ \E q \in Savers : Waits(q, d)
    BY <2>1, <2>3, <2>4, <2>5, <2>9 DEF RollupInv
  <2>10. ASSUME NEW d \in Days
         PROVE  \/ rollup'[d] = DayCount(d, stored')
                \/ d \in overlap'
                \/ \E q \in Savers : at'[q] = "rollup" /\ Day[block'[q]] = d
                \/ job' = "daily"
    <3>1. CASE d = Day[b]
      BY <2>3, <3>1
    <3>2. CASE d # Day[b]
      <4>1. \/ rollup[d] = DayCount(d, stored)
            \/ d \in overlap
            \/ \E q \in Savers : at[q] = "rollup" /\ Day[block[q]] = d
            \/ job = "daily"
        BY DEF RollupInv, RollupFresh
      <4> QED
        BY <2>1, <2>4, <2>6, <3>2, <4>1
    <3> QED
      BY <3>1, <3>2
  <2> HIDE DEF Waits
  <2> QED
    BY <1>a, <2>7, <2>8, <2>9, <2>10
<1>3. ASSUME NEW p \in Savers, RollupRead(p) PROVE RollupInv'
  <2> DEFINE d == Day[block[p]]
  <2>0. at[p] = "rollup" /\ day[p] = None /\ d \in Days
    BY <1>3, BusyBlock DEF RollupRead
  <2>1. /\ day' = [day EXCEPT ![p] = d] /\ snap' = [snap EXCEPT ![p] = DayCount(d, stored)]
        /\ overlap' = IF WritersOf(d) # {} \/ job = "daily" THEN overlap \cup {d} ELSE overlap \ {d}
        /\ UNCHANGED <<stored, rollup, at, block, job, jobSnap>>
    BY <1>3 DEF RollupRead, tableVars, jobVars
  <2>2. \A q \in Savers : \A e : q # p /\ Pending(q, e) => Waits(q, e)
    BY <2>1 DEF Pending, TypeOK
  <2>3. \A e \in Days : e # d => \A q \in Savers : Pending(q, e) => Waits(q, e)
    BY <2>0, <2>1, <2>2 DEF Pending
  <2>4. \A e \in Days : e # d => (e \in overlap' <=> e \in overlap)
    BY <2>1
  <2>5. \A e \in Days : rollup'[e] # 0 => \E c \in stored' : Day[c] = e
    BY <2>1 DEF RollupInv
  <2>6. ASSUME NEW q \in Savers, day'[q] # None
        PROVE  /\ snap'[q] # 0 => \E c \in stored' : Day[c] = day'[q]
               /\ day'[q] \notin overlap' =>
                    /\ snap'[q] = DayCount(day'[q], stored') \/ \E r \in Savers : Waits(r, day'[q])
                    /\ \A r \in Savers \ {q} : day'[r] # day'[q]
                    /\ job' # "daily"
    <3>1. CASE q = p
      <4>1. day'[q] = d /\ snap'[q] = DayCount(d, stored)
        BY <2>1, <3>1 DEF TypeOK
      <4>2. snap'[q] # 0 => \E c \in stored' : Day[c] = day'[q]
        BY <1>0, <2>1, <4>1, DayCountFacts
      <4>3. ASSUME d \notin overlap' PROVE WritersOf(d) = {} /\ job # "daily"
        BY <2>1, <4>3
      <4>4. ASSUME d \notin overlap', NEW r \in Savers \ {q} PROVE day'[r] # d
        BY <2>1, <3>1, <4>3, <4>4 DEF WritersOf, TypeOK
      <4> QED
        BY <2>1, <4>1, <4>2, <4>3, <4>4
    <3>2. CASE q # p
      <4>1. day'[q] = day[q] /\ snap'[q] = snap[q] /\ day[q] \in Days
        BY <2>1, <2>6, <3>2 DEF TypeOK
      <4>2. snap'[q] # 0 => \E c \in stored' : Day[c] = day'[q]
        BY <2>1, <2>6, <4>1 DEF RollupInv
      <4>3. CASE day[q] = d
        <5>1. WritersOf(d) # {}
          BY <4>3 DEF WritersOf
        <5>2. d \in overlap'
          BY <2>1, <5>1
        <5> QED
          BY <4>1, <4>2, <4>3, <5>2
      <4>4. CASE day[q] # d
        <5>1. day[q] \notin overlap' => day[q] \notin overlap
          BY <2>4, <4>1, <4>4
        <5>2. day'[p] = d
          BY <2>1 DEF TypeOK
        <5>3. \A r \in Savers : r # p => day'[r] = day[r]
          BY <2>1 DEF TypeOK
        <5>4. ASSUME day[q] \notin overlap
              PROVE  /\ snap[q] = DayCount(day[q], stored) \/ \E r \in Savers : Pending(r, day[q])
                     /\ \A r \in Savers \ {q} : day[r] # day[q]
                     /\ job # "daily"
          BY <2>6, <4>1, <5>4 DEF RollupInv
        <5>5. (\E r \in Savers : Pending(r, day[q])) => \E r \in Savers : Waits(r, day'[q])
          <6>1. ASSUME NEW r \in Savers, Pending(r, day[q]) PROVE Waits(r, day'[q])
            <7>1. r # p
              BY <4>4, <6>1 DEF Pending
            <7> QED
              BY <2>1, <2>2, <4>1, <6>1, <7>1
          <6> QED
            BY <6>1
        <5> QED
          BY <2>1, <4>1, <4>2, <4>4, <5>1, <5>2, <5>3, <5>4, <5>5
      <4> QED
        BY <4>3, <4>4
    <3> QED
      BY <3>1, <3>2
  <2>7. ASSUME job' = "daily", NEW e \in Days, e \notin overlap'
        PROVE  DayCount(e, jobSnap') = DayCount(e, stored') \/ \E q \in Savers : Waits(q, e)
    BY <2>1, <2>3, <2>4, <2>7 DEF RollupInv
  <2>8. ASSUME NEW e \in Days
        PROVE  \/ rollup'[e] = DayCount(e, stored')
               \/ e \in overlap'
               \/ \E q \in Savers : at'[q] = "rollup" /\ Day[block'[q]] = e
               \/ job' = "daily"
    <3>1. \A c \in Days : c # d => (c \in overlap => c \in overlap')
      BY <2>4
    <3>2. at'[p] = "rollup" /\ Day[block'[p]] = d
      BY <2>0, <2>1
    <3> QED
      BY <2>1, <3>1, <3>2 DEF RollupInv, RollupFresh
  <2> HIDE DEF Waits
  <2> QED
    BY <1>a, <2>5, <2>6, <2>7, <2>8
<1>4. ASSUME NEW p \in Savers, at[p] = "rollup" \/ day[p] = None,
             at'[p] # "rollup", day' = [day EXCEPT ![p] = None], snap' = [snap EXCEPT ![p] = None],
             \A q \in Savers \ {p} : at'[q] = at[q] /\ block'[q] = block[q],
             UNCHANGED <<stored, job, jobSnap>>, overlap \subseteq overlap',
             at[p] = "rollup" =>
               \/ Day[block[p]] \in overlap' /\ UNCHANGED rollup
               \/ day[p] # None /\ rollup' = [rollup EXCEPT ![day[p]] = snap[p]],
             at[p] # "rollup" => UNCHANGED rollup
      PROVE  RollupInv'
  <2>0. /\ day'[p] = None /\ \A q \in Savers \ {p} : day'[q] = day[q] /\ snap'[q] = snap[q]
        /\ \A q \in Savers \ {p} : at'[q] = at[q] /\ block'[q] = block[q]
    BY <1>4 DEF TypeOK
  <2>1. day[p] # None => at[p] = "rollup" /\ day[p] = Day[block[p]] /\ day[p] \in Days
    BY DEF Stages, TypeOK
  <2>2. ASSUME NEW d \in Days, d \notin overlap', NEW q \in Savers, Pending(q, d)
        PROVE  Waits(q, d) \/ (at[p] = "rollup" /\ day[p] = None /\ Day[block[p]] = d)
    BY <2>0, <2>2 DEF Pending
  <2>3. ASSUME NEW d \in Days, d \notin overlap', NEW q \in Savers, Pending(q, d)
        PROVE  Waits(q, d)
    BY <1>4, <2>2, <2>3
  <2>4. ASSUME NEW d \in Days, rollup'[d] # 0 PROVE \E c \in stored' : Day[c] = d
    <3>1. CASE UNCHANGED rollup
      BY <1>4, <2>4, <3>1 DEF RollupInv
    <3>2. CASE day[p] # None /\ rollup' = [rollup EXCEPT ![day[p]] = snap[p]]
      <4>1. CASE d = day[p]
        <5>1. rollup'[d] = snap[p]
          BY <2>1, <3>2, <4>1 DEF TypeOK
        <5> QED
          BY <1>4, <2>4, <3>2, <4>1, <5>1 DEF RollupInv
      <4>2. CASE d # day[p]
        <5>1. rollup'[d] = rollup[d]
          BY <3>2, <4>2 DEF TypeOK
        <5> QED
          BY <1>4, <2>4, <5>1 DEF RollupInv
      <4> QED
        BY <4>1, <4>2
    <3> QED
      BY <1>4, <3>1, <3>2
  <2>5. ASSUME NEW q \in Savers, day'[q] # None
        PROVE  /\ snap'[q] # 0 => \E c \in stored' : Day[c] = day'[q]
               /\ day'[q] \notin overlap' =>
                    /\ snap'[q] = DayCount(day'[q], stored') \/ \E r \in Savers : Waits(r, day'[q])
                    /\ \A r \in Savers \ {q} : day'[r] # day'[q]
                    /\ job' # "daily"
    <3>1. q # p /\ day'[q] = day[q] /\ snap'[q] = snap[q]
      BY <2>0, <2>5
    <3>2. /\ snap[q] # 0 => \E c \in stored : Day[c] = day[q]
          /\ day[q] \notin overlap =>
               /\ snap[q] = DayCount(day[q], stored) \/ \E r \in Savers : Pending(r, day[q])
               /\ \A r \in Savers \ {q} : day[r] # day[q]
               /\ job # "daily"
      BY <2>5, <3>1 DEF RollupInv
    <3>3. day[q] \in Days
      BY <2>5, <3>1 DEF TypeOK
    <3>4. day[q] \notin overlap' =>
            /\ day[q] \notin overlap
            /\ (\E r \in Savers : Pending(r, day[q])) => \E r \in Savers : Waits(r, day[q])
      BY <1>4, <2>3, <3>3
    <3> HIDE DEF Waits
    <3>5. \A r \in Savers \ {q} : day'[r] = day[r] \/ day'[r] = None
      BY <2>0
    <3> QED
      BY <1>4, <2>5, <3>1, <3>2, <3>4, <3>5
  <2>6. ASSUME job' = "daily", NEW d \in Days, d \notin overlap'
        PROVE  DayCount(d, jobSnap') = DayCount(d, stored') \/ \E q \in Savers : Waits(q, d)
    <3>1. DayCount(d, jobSnap) = DayCount(d, stored) \/ \E q \in Savers : Pending(q, d)
      BY <1>4, <2>6 DEF RollupInv
    <3> QED
      BY <1>4, <2>3, <2>6, <3>1
  <2>7. ASSUME NEW d \in Days
        PROVE  \/ rollup'[d] = DayCount(d, stored')
               \/ d \in overlap'
               \/ \E q \in Savers : at'[q] = "rollup" /\ Day[block'[q]] = d
               \/ job' = "daily"
    <3>0. \/ rollup[d] = DayCount(d, stored)
          \/ d \in overlap
          \/ \E q \in Savers : at[q] = "rollup" /\ Day[block[q]] = d
          \/ job = "daily"
      BY DEF RollupInv, RollupFresh
    <3>1. CASE d \in overlap' \/ job = "daily"
      BY <1>4, <3>1
    <3>2. CASE \E q \in Savers \ {p} : at[q] = "rollup" /\ Day[block[q]] = d
      BY <2>0, <3>2
    <3>3. CASE d \notin overlap' /\ at[p] = "rollup" /\ Day[block[p]] = d
      <4>1. day[p] = d /\ rollup' = [rollup EXCEPT ![day[p]] = snap[p]]
        BY <1>4, <2>1, <3>3
      <4>2. rollup'[d] = snap[p] /\ d # None
        BY <1>0, <4>1 DEF TypeOK
      <4>3. snap[p] = DayCount(d, stored) \/ \E q \in Savers : Pending(q, d)
        BY <1>4, <3>3, <4>1, <4>2 DEF RollupInv
      <4>4. (\E q \in Savers : Pending(q, d)) => \E q \in Savers : Waits(q, d)
        BY <2>3, <3>3
      <4> QED
        BY <1>4, <4>2, <4>3, <4>4
    <3>4. CASE d \notin overlap /\ rollup[d] = DayCount(d, stored) /\ ~(at[p] = "rollup" /\ Day[block[p]] = d)
      <4>1. rollup'[d] = rollup[d]
        BY <1>4, <2>1, <3>4 DEF TypeOK
      <4> QED
        BY <1>4, <3>4, <4>1
    <3> QED
      BY <1>4, <3>0, <3>1, <3>2, <3>3, <3>4
  <2> HIDE DEF Waits
  <2> QED
    BY <1>a, <2>4, <2>5, <2>6, <2>7
<1>5. ASSUME NEW p \in Savers, RollupWrite(p) PROVE RollupInv'
  <2>1. at'[p] # "rollup" /\ \A q \in Savers \ {p} : at'[q] = at[q] /\ block'[q] = block[q]
    BY <1>5 DEF RollupWrite, AfterRollup, TypeOK
  <2> HIDE DEF Waits
  <2> QED
    BY <1>4, <1>5, <2>1 DEF RollupWrite, jobVars
<1>6. ASSUME NEW p \in Savers, RollupFails(p) PROVE RollupInv'
  <2>1. at'[p] # "rollup" /\ \A q \in Savers \ {p} : at'[q] = at[q] /\ block'[q] = block[q]
    BY <1>6 DEF RollupFails, AfterRollup, TypeOK
  <2> HIDE DEF Waits
  <2> QED
    BY <1>4, <1>6, <2>1 DEF RollupFails, jobVars, tableVars
<1>7. ASSUME NEW p \in Savers, SaverEnds(p) PROVE RollupInv'
  <2>1. at'[p] # "rollup" /\ \A q \in Savers \ {p} : at'[q] = at[q] /\ block'[q] = block[q]
    BY <1>7 DEF SaverEnds, TypeOK
  <2>2. at[p] = "rollup" \/ day[p] = None
    BY DEF Stages
  <2> HIDE DEF Waits
  <2> QED
    BY <1>4, <1>7, <2>1, <2>2 DEF SaverEnds, jobVars, tableVars
<1>8. CASE ApplyBalances
  <2>1. at["poll"] = "apply" /\ at' = [at EXCEPT !["poll"] = "idle"] /\ block' = [block EXCEPT !["poll"] = None]
        /\ "poll" \in Savers /\ UNCHANGED <<stored, rollup, day, snap, job, jobSnap, overlap>>
    BY <1>8 DEF ApplyBalances, jobVars, Savers
  <2>2. \A q \in Savers : /\ (at'[q] = "rollup" <=> at[q] = "rollup")
                          /\ at[q] = "rollup" => block'[q] = block[q]
    BY <2>1 DEF TypeOK
  <2> HIDE DEF Waits
  <2>3. \A q \in Savers : \A d : Waits(q, d) <=> Pending(q, d)
    BY <2>1, <2>2 DEF Waits, Pending
  <2>4. \A d : (\E q \in Savers : at[q] = "rollup" /\ Day[block[q]] = d)
                 => \E q \in Savers : at'[q] = "rollup" /\ Day[block'[q]] = d
    BY <2>2
  <2>5. \A q \in Savers : day'[q] # None =>
               /\ snap'[q] # 0 => \E c \in stored' : Day[c] = day'[q]
               /\ day'[q] \notin overlap' =>
                    /\ snap'[q] = DayCount(day'[q], stored') \/ \E r \in Savers : Waits(r, day'[q])
                    /\ \A r \in Savers \ {q} : day'[r] # day'[q]
                    /\ job' # "daily"
    BY <2>1, <2>3 DEF RollupInv
  <2> QED
    BY <1>a, <2>1, <2>3, <2>4, <2>5 DEF RollupInv, RollupFresh
<1>9. CASE RecomputeStep
  <2>1. /\ UNCHANGED <<stored, rollup, at, block, day, snap, overlap>>
        /\ job # "daily" /\ job' # "daily"
    BY <1>9
    DEF RecomputeStep, RecomputeStart, RecomputeCount, RecomputeReadBalances, RecomputeBalances,
        RecomputeReset, RecomputeHolders, tableVars, saverVars
  <2>2. \A q \in Savers : \A d : Waits(q, d) <=> Pending(q, d)
    BY <2>1 DEF Pending
  <2> HIDE DEF Waits
  <2>3. \A q \in Savers : day'[q] # None =>
               /\ snap'[q] # 0 => \E c \in stored' : Day[c] = day'[q]
               /\ day'[q] \notin overlap' =>
                    /\ snap'[q] = DayCount(day'[q], stored') \/ \E r \in Savers : Waits(r, day'[q])
                    /\ \A r \in Savers \ {q} : day'[r] # day'[q]
                    /\ job' # "daily"
    BY <2>1, <2>2 DEF RollupInv
  <2>4. \A d \in Days : rollup'[d] # 0 => \E c \in stored' : Day[c] = d
    BY <2>1 DEF RollupInv
  <2>5. \A d \in Days : \/ rollup'[d] = DayCount(d, stored')
                        \/ d \in overlap'
                        \/ \E q \in Savers : at'[q] = "rollup" /\ Day[block'[q]] = d
    BY <2>1 DEF RollupInv, RollupFresh
  <2> QED
    BY <1>a, <2>1, <2>3, <2>4, <2>5
<1>10. CASE DailyRead
  <2>1. /\ UNCHANGED <<stored, rollup, at, block, day, snap>> /\ job' = "daily" /\ jobSnap' = stored
        /\ overlap' = {d \in Days : WritersOf(d) # {}}
    BY <1>10 DEF DailyRead, tableVars, saverVars
  <2>2. \A q \in Savers : day'[q] # None => day'[q] \in overlap'
    BY <2>1 DEF WritersOf, TypeOK
  <2> HIDE DEF Waits
  <2>3. \A d \in Days : rollup'[d] # 0 => \E c \in stored' : Day[c] = d
    BY <2>1 DEF RollupInv
  <2>4. \A q \in Savers : day'[q] # None =>
               /\ snap'[q] # 0 => \E c \in stored' : Day[c] = day'[q]
               /\ day'[q] \in overlap'
    BY <2>1, <2>2 DEF RollupInv
  <2>5. \A d \in Days : DayCount(d, jobSnap') = DayCount(d, stored')
    BY <2>1
  <2>6. job' = "daily"
    BY <2>1
  <2> QED
    <3>1. \A q \in Savers : day'[q] # None =>
               /\ snap'[q] # 0 => \E c \in stored' : Day[c] = day'[q]
               /\ day'[q] \notin overlap' =>
                    /\ snap'[q] = DayCount(day'[q], stored') \/ \E r \in Savers : Waits(r, day'[q])
                    /\ \A r \in Savers \ {q} : day'[r] # day'[q]
                    /\ job' # "daily"
      BY <2>4
    <3>2. job' = "daily" => \A d \in Days : d \notin overlap' =>
               DayCount(d, jobSnap') = DayCount(d, stored') \/ \E q \in Savers : Waits(q, d)
      BY <2>5
    <3>3. \A d \in Days : \/ rollup'[d] = DayCount(d, stored')
                          \/ d \in overlap'
                          \/ \E q \in Savers : at'[q] = "rollup" /\ Day[block'[q]] = d
                          \/ job' = "daily"
      BY <2>6
    <3> QED
      BY <2>3, <3>1, <3>2, <3>3 DEF RollupInv, RollupFresh, Pending, DayCount, Count, Waits
<1>11. CASE DailyWrite
  <2>1. /\ UNCHANGED <<stored, at, block, day, snap, overlap>> /\ job = "daily" /\ job' = "off"
        /\ rollup' = [d \in Days |-> IF DayCount(d, jobSnap) > 0 THEN DayCount(d, jobSnap)
                                     ELSE rollup[d]]
    BY <1>11 DEF DailyWrite, saverVars
  <2>2. \A q \in Savers : \A d : Waits(q, d) <=> Pending(q, d)
    BY <2>1 DEF Pending
  <2>3. ASSUME NEW d \in Days
        PROVE  /\ DayCount(d, jobSnap) \in Nat /\ DayCount(d, stored) \in Nat
               /\ DayCount(d, jobSnap) # 0 => \E b \in stored : Day[b] = d
               /\ DayCount(d, stored) = 0 => ~ \E b \in stored : Day[b] = d
    <3>1. \A b \in stored : Transfers[b] # {}
      BY DEF Stages
    <3>2. stored \in SUBSET Blocks /\ jobSnap \in SUBSET Blocks
      BY <1>0
    <3>3. DayCount(d, jobSnap) \in Nat /\ (DayCount(d, jobSnap) # 0 => \E b \in jobSnap : Day[b] = d)
      BY <3>2, DayCountFacts
    <3>4. /\ DayCount(d, stored) \in Nat
          /\ (\E b \in stored : Day[b] = d) => DayCount(d, stored) > 0
      BY <3>1, <3>2, DayCountFacts
    <3> QED
      BY <1>0, <3>3, <3>4
  <2>4. ASSUME NEW d \in Days, rollup'[d] # 0 PROVE \E b \in stored' : Day[b] = d
    <3>1. rollup'[d] = DayCount(d, jobSnap) \/ rollup'[d] = rollup[d]
      BY <2>1
    <3> QED
      BY <2>1, <2>3, <2>4, <3>1 DEF RollupInv
  <2> HIDE DEF Waits
  <2>5. ASSUME NEW d \in Days, d \notin overlap'
        PROVE  \/ rollup'[d] = DayCount(d, stored')
               \/ \E q \in Savers : at'[q] = "rollup" /\ Day[block'[q]] = d
    <3>1. CASE \E q \in Savers : Pending(q, d)
      BY <2>1, <3>1 DEF Pending
    <3>2. CASE DayCount(d, jobSnap) = DayCount(d, stored)
      <4>1. CASE DayCount(d, jobSnap) > 0
        BY <2>1, <3>2, <4>1
      <4>2. CASE ~(DayCount(d, jobSnap) > 0)
        <5>1. DayCount(d, jobSnap) = 0 /\ rollup'[d] = rollup[d]
          BY <2>1, <2>3, <4>2
        <5>2. rollup[d] = 0
          BY <2>3, <3>2, <5>1 DEF RollupInv
        <5> QED
          BY <2>1, <3>2, <5>1, <5>2
      <4> QED
        BY <4>1, <4>2
    <3> QED
      BY <2>1, <2>5, <3>1, <3>2 DEF RollupInv
  <2>6. \A q \in Savers : day'[q] # None =>
               /\ snap'[q] # 0 => \E c \in stored' : Day[c] = day'[q]
               /\ day'[q] \notin overlap' =>
                    /\ snap'[q] = DayCount(day'[q], stored') \/ \E r \in Savers : Waits(r, day'[q])
                    /\ \A r \in Savers \ {q} : day'[r] # day'[q]
                    /\ job' # "daily"
    BY <2>1, <2>2 DEF RollupInv
  <2> QED
    BY <1>a, <2>1, <2>4, <2>5, <2>6
<1>12. CASE JobEnds
  <2>1. /\ UNCHANGED <<stored, rollup, at, block, day, snap>> /\ job' = "off"
        /\ overlap' = IF job = "daily" THEN Days ELSE overlap
    BY <1>12 DEF JobEnds, tableVars, saverVars
  <2>2. CASE job = "daily"
    <3>1. \A q \in Savers : day'[q] # None => day'[q] \in overlap'
      BY <2>1, <2>2 DEF TypeOK
    <3> HIDE DEF Waits
    <3> QED
      BY <1>a, <2>1, <2>2, <3>1 DEF RollupInv
  <2>3. CASE job # "daily"
    <3>1. UNCHANGED <<stored, rollup, at, block, day, snap, overlap>> /\ job' # "daily"
      BY <2>1, <2>3
    <3>2. \A q \in Savers : \A d : Pending(q, d) => Waits(q, d)
      BY <3>1 DEF Pending
    <3> HIDE DEF Waits
    <3> QED
      BY <1>a, <2>3, <3>1, <3>2 DEF RollupInv, RollupFresh
  <2> QED
    BY <2>2, <2>3
<1>13. CASE NewBlock \/ UNCHANGED vars
  BY <1>1, <1>13 DEF NewBlock, vars, tableVars, saverVars, jobVars
<1> QED
  BY <1>2, <1>3, <1>5, <1>6, <1>7, <1>8, <1>9, <1>10, <1>11, <1>12, <1>13 DEF Next

-----------------------------------------------------------------------------

\* All parts hold together, in every state.
LEMMA Invariance ==
  Spec => [](TypeOK /\ Stages /\ BalanceInv /\ MissingInv /\ RecomputeInv /\ RollupInv)
<1>1. TypeOK /\ Stages /\ BalanceInv /\ MissingInv /\ RecomputeInv /\ RollupInv /\ [Next]_vars
        => (TypeOK /\ Stages /\ BalanceInv /\ MissingInv /\ RecomputeInv /\ RollupInv)'
  BY TypeStep, BalanceStep, MissingStep, RecomputeStepHolds, RollupStep
<1> QED
  BY <1>1, InitHolds, PTL DEF Spec

\* Counts are natural numbers, and rows and rollups are of stored blocks and their days.
THEOREM TypeCorrect == Spec => []TypeOK
BY Invariance, PTL

\* A balance is the sum over a set of stored blocks: none is ever counted twice.
THEOREM BalanceAlwaysOfSet == Spec => []BalanceOfSet
<1>1. BalanceInv => BalanceOfSet
  BY DEF BalanceInv, BalanceOfSet
<1> QED
  BY <1>1, Invariance, PTL

\* A balance misses a stored block of its owner only where the poll is about to apply
\* it, or after an event that is noted.
THEOREM MissingAlwaysExplained == Spec => []MissingExplained
<1>1. MissingInv => MissingExplained
  BY DEF MissingInv, MissingExplained
<1> QED
  BY <1>1, Invariance, PTL

\* A recomputation that no writer ran beside leaves what the transfers add up to.
THEOREM RecomputeAlwaysExact == Spec => []RecomputeExact
<1>1. RecomputeInv => RecomputeExact
  BY DEF RecomputeInv, RecomputeExact
<1> QED
  BY <1>1, Invariance, PTL

\* A day's rollup is behind its transfers only while a writer is at it or on the way to
\* it, or after two writers overlapped or one failed.
THEOREM RollupAlwaysFresh == Spec => []RollupFresh
<1>1. RollupInv => RollupFresh
  BY DEF RollupInv
<1> QED
  BY <1>1, Invariance, PTL
=============================================================================
